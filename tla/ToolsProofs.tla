----------------------------- MODULE ToolsProofs -----------------------------
(***************************************************************************)
(* Proofs about the types of a sheet (SheetTypes), the search over a map   *)
(* (Visit) and the search for a move (Think), for any types, properties    *)
(* and columns, any vertices, any moves and depth of the game.             *)
(***************************************************************************)
EXTENDS Tools, SequenceLemmas

\* Every object has a list of its own.
OwnList ==
  /\ DOMAIN types \subseteq Object /\ DOMAIN lists = DOMAIN types
  /\ \A o \in DOMAIN types : types[o].props = o

\* The shared types are there and have no properties.
SharedPlain ==
  \A t \in Shared : <<t>> \in DOMAIN types /\ types[<<t>>].readonly = TRUE /\ lists[<<t>>] = <<>>

\* The value of a cell has the properties that were put on it, and nobody else
\* refers to it unless it is shared.
ValueInv ==
  value # NoObject =>
    /\ value \in DOMAIN types /\ lists[value] = asked[Len(asked)]
    /\ types[value].readonly = TRUE \/ \A c \in 1 .. Len(fields) : fields[c].type # value

\* So has the type of every column.
FieldsInv ==
  /\ asked \in Seq(Seq(Prop)) /\ fields \in Seq([type : Object, props : Seq(Prop)])
  /\ Len(asked) = IF value = NoObject THEN Len(fields) ELSE Len(fields) + 1
  /\ \A c \in 1 .. Len(fields) : fields[c].type \in DOMAIN types /\ lists[fields[c].type] = asked[c]

\* The table, once it is there.
DumpedInv == state = "dumped" => value = NoObject /\ DumpsWhatWasAsked

SheetInv == OwnList /\ SharedPlain /\ ValueInv /\ FieldsInv /\ DumpedInv

LEMMA NoObjectIsNone == NoObject \notin Object
BY DEF NoObject, Object

LEMMA NewIsNew ==
  ASSUME OwnList, DOMAIN types # Object
  PROVE  New \in Object /\ New \notin DOMAIN types
BY DEF OwnList, New

\* What Make changes.
Made(list) ==
  /\ New \in Object /\ New \notin DOMAIN types /\ New # NoObject
  /\ New \in DOMAIN types' /\ types'[New].readonly = FALSE /\ lists'[New] = list
  /\ \A o \in DOMAIN types : o \in DOMAIN types' /\ types'[o] = types[o] /\ lists'[o] = lists[o]

LEMMA MakeKeeps ==
  ASSUME OwnList, SharedPlain, NEW list, Make(list)
  PROVE  Made(list) /\ OwnList' /\ SharedPlain'
<1> DEFINE o == New
<1>1. o \in Object /\ o \notin DOMAIN types /\ o # NoObject
  BY NewIsNew, NoObjectIsNone DEF Make
<1>2. /\ types' = [e \in DOMAIN types \cup {o} |-> IF e = o THEN [readonly |-> FALSE, props |-> o] ELSE types[e]]
      /\ lists' = [e \in DOMAIN types \cup {o} |-> IF e = o THEN list ELSE lists[e]]
  BY DEF Make, With, OwnList
<1> HIDE DEF o
<1>3. /\ DOMAIN types' = DOMAIN types \cup {o} /\ DOMAIN lists' = DOMAIN types'
      /\ types'[o] = [readonly |-> FALSE, props |-> o] /\ lists'[o] = list
      /\ \A e \in DOMAIN types : types'[e] = types[e] /\ lists'[e] = lists[e]
  BY <1>1, <1>2
<1>4. Made(list)
  BY <1>1, <1>3 DEF Made, o
<1>5. OwnList'
  BY <1>1, <1>3 DEF OwnList
<1>6. SharedPlain'
  BY <1>3 DEF SharedPlain
<1> QED BY <1>4, <1>5, <1>6

\* What is asked for the value becomes x.
LEMMA AskedLast ==
  ASSUME NEW a \in Seq(Seq(Prop)), Len(a) > 0, NEW x \in Seq(Prop)
  PROVE  LET b == [a EXCEPT ![Len(a)] = x]
         IN  /\ b \in Seq(Seq(Prop)) /\ Len(b) = Len(a) /\ b[Len(b)] = x
             /\ \A c \in 1 .. Len(a) - 1 : b[c] = a[c]
<1> DEFINE b == [a EXCEPT ![Len(a)] = x]
<1>1. Len(a) \in 1 .. Len(a)
  OBVIOUS
<1>2. b \in Seq(Seq(Prop)) /\ Len(b) = Len(a)
  BY <1>1
<1>3. b[Len(a)] = x /\ \A c \in 1 .. Len(a) - 1 : b[c] = a[c]
  BY <1>1
<1> QED BY <1>2, <1>3
------------------------------------------------------------------------------
(* The steps.                                                              *)

LEMMA NameKeeps ==
  ASSUME SheetInv, NEW t \in Shared, Name(t)
  PROVE  SheetInv'
<1>1. /\ state = "reading" /\ value = NoObject /\ value' = <<t>> /\ asked' = Append(asked, <<>>)
      /\ UNCHANGED <<types, lists, fields, indice, state>>
  BY DEF Name, Reading
<1>2. OwnList' /\ SharedPlain' /\ DumpedInv'
  BY <1>1 DEF SheetInv, OwnList, SharedPlain, DumpedInv
<1>3. <<t>> \in DOMAIN types /\ types[<<t>>].readonly = TRUE /\ lists[<<t>>] = <<>>
  BY DEF SheetInv, SharedPlain
<1>4. /\ asked \in Seq(Seq(Prop)) /\ <<>> \in Seq(Prop) /\ Len(asked) = Len(fields)
      /\ fields \in Seq([type : Object, props : Seq(Prop)])
  BY <1>1 DEF SheetInv, FieldsInv
<1>5. /\ asked' \in Seq(Seq(Prop)) /\ Len(asked') = Len(fields) + 1 /\ asked'[Len(asked')] = <<>>
      /\ \A c \in 1 .. Len(fields) : asked'[c] = asked[c]
  BY <1>1, <1>4, AppendProperties
<1>6. ValueInv'
  BY <1>1, <1>3, <1>5 DEF ValueInv
<1>7. FieldsInv'
  <2>1. value' # NoObject
    BY <1>1 DEF NoObject
  <2>2. \A c \in 1 .. Len(fields) : fields[c].type \in DOMAIN types /\ lists[fields[c].type] = asked[c]
    BY DEF SheetInv, FieldsInv
  <2> QED BY <1>1, <1>4, <1>5, <2>1, <2>2 DEF FieldsInv
<1> QED BY <1>2, <1>6, <1>7 DEF SheetInv

\* A step that makes a new object the value, with the properties x.
LEMMA NewValueKeeps ==
  ASSUME SheetInv, NEW x \in Seq(Prop), state = "reading", value # NoObject, Make(x), value' = New,
         asked' = [asked EXCEPT ![Len(asked)] = x], UNCHANGED <<fields, indice, state>>
  PROVE  SheetInv'
<1>1. Made(x) /\ OwnList' /\ SharedPlain'
  BY MakeKeeps DEF SheetInv
<1>2. DumpedInv'
  BY DEF DumpedInv
<1>3. /\ asked \in Seq(Seq(Prop)) /\ Len(asked) = Len(fields) + 1
      /\ fields \in Seq([type : Object, props : Seq(Prop)])
      /\ \A c \in 1 .. Len(fields) : fields[c].type \in DOMAIN types /\ lists[fields[c].type] = asked[c]
  BY DEF SheetInv, FieldsInv
<1>4. Len(asked) > 0
  BY <1>3
<1>5. /\ asked' \in Seq(Seq(Prop)) /\ Len(asked') = Len(asked) /\ asked'[Len(asked')] = x
      /\ \A c \in 1 .. Len(asked) - 1 : asked'[c] = asked[c]
  BY <1>3, <1>4, AskedLast
<1>6. /\ value' # NoObject /\ value' \in DOMAIN types' /\ lists'[value'] = x
      /\ \A o \in DOMAIN types : o # value' /\ o \in DOMAIN types' /\ lists'[o] = lists[o]
  BY <1>1 DEF Made
<1>7. ValueInv'
  BY <1>3, <1>5, <1>6 DEF ValueInv
<1>8. FieldsInv'
  <2>1. \A c \in 1 .. Len(fields) : fields[c].type \in DOMAIN types' /\ lists'[fields[c].type] = asked'[c]
    <3> SUFFICES ASSUME NEW c \in 1 .. Len(fields)
                 PROVE  fields[c].type \in DOMAIN types' /\ lists'[fields[c].type] = asked'[c]
      OBVIOUS
    <3>1. fields[c].type \in DOMAIN types /\ lists[fields[c].type] = asked[c]
      BY <1>3
    <3>2. c \in 1 .. Len(asked) - 1
      BY <1>3
    <3> QED BY <1>5, <1>6, <3>1, <3>2
  <2> QED BY <1>3, <1>5, <1>6, <2>1 DEF FieldsInv
<1> QED BY <1>1, <1>2, <1>7, <1>8 DEF SheetInv

LEMMA TemplateKeeps ==
  ASSUME SheetInv, Template
  PROVE  SheetInv'
<1>1. /\ state = "reading" /\ value # NoObject /\ Make(<<>>) /\ value' = New
      /\ asked' = [asked EXCEPT ![Len(asked)] = <<>>] /\ UNCHANGED <<fields, indice, state>>
  BY DEF Template, Reading
<1>2. <<>> \in Seq(Prop)
  OBVIOUS
<1> QED BY <1>1, <1>2, NewValueKeeps

LEMMA AddPropsKeeps ==
  ASSUME SheetInv, NEW p \in Prop, AddProps(<<p>>)
  PROVE  SheetInv'
<1> DEFINE old == asked[Len(asked)]
           x == old \o <<p>>
<1>1. /\ state = "reading" /\ value # NoObject /\ UNCHANGED <<fields, indice, state>>
      /\ asked' = [asked EXCEPT ![Len(asked)] = x]
      /\ IF types[value].readonly
         THEN Make(lists[types[value].props] \o <<p>>) /\ value' = New
         ELSE lists' = [lists EXCEPT ![types[value].props] = @ \o <<p>>] /\ UNCHANGED <<types, value>>
  BY DEF AddProps, Reading
<1>2. /\ value \in DOMAIN types /\ lists[value] = old /\ types[value].props = value
      /\ DOMAIN lists = DOMAIN types
      /\ types[value].readonly = TRUE \/ \A c \in 1 .. Len(fields) : fields[c].type # value
  BY <1>1 DEF SheetInv, ValueInv, OwnList
<1>3. /\ asked \in Seq(Seq(Prop)) /\ Len(asked) = Len(fields) + 1
      /\ fields \in Seq([type : Object, props : Seq(Prop)])
      /\ \A c \in 1 .. Len(fields) : fields[c].type \in DOMAIN types /\ lists[fields[c].type] = asked[c]
  BY <1>1 DEF SheetInv, FieldsInv
<1>4. Len(asked) > 0 /\ Len(asked) \in 1 .. Len(asked)
  BY <1>3
<1>5. old \in Seq(Prop)
  BY <1>3, <1>4
<1> HIDE DEF old
<1>6. x \in Seq(Prop)
  BY <1>5
<1> HIDE DEF x
<1>7. CASE types[value].readonly
  <2>1. Make(x) /\ value' = New
    BY <1>1, <1>2, <1>7 DEF x
  <2> QED BY <1>1, <1>6, <2>1, NewValueKeeps
<1>8. CASE ~types[value].readonly
  <2>1. /\ lists' = [lists EXCEPT ![value] = x] /\ types' = types /\ value' = value
        /\ \A c \in 1 .. Len(fields) : fields[c].type # value
    BY <1>1, <1>2, <1>8 DEF x
  <2>2. /\ DOMAIN lists' = DOMAIN types /\ lists'[value] = x
        /\ \A o \in DOMAIN types : o # value => lists'[o] = lists[o]
    BY <1>2, <2>1
  <2>3. /\ asked' \in Seq(Seq(Prop)) /\ Len(asked') = Len(asked) /\ asked'[Len(asked')] = x
        /\ \A c \in 1 .. Len(asked) - 1 : asked'[c] = asked[c]
    BY <1>1, <1>3, <1>4, <1>6, AskedLast
  <2>4. OwnList' /\ DumpedInv'
    BY <1>1, <2>1, <2>2 DEF SheetInv, OwnList, DumpedInv
  <2>5. SharedPlain'
    <3> SUFFICES ASSUME NEW t \in Shared
                 PROVE  <<t>> \in DOMAIN types' /\ types'[<<t>>].readonly = TRUE /\ lists'[<<t>>] = <<>>
      BY DEF SharedPlain
    <3>1. <<t>> \in DOMAIN types /\ types[<<t>>].readonly = TRUE /\ lists[<<t>>] = <<>>
      BY DEF SheetInv, SharedPlain
    <3> QED BY <1>8, <2>1, <2>2, <3>1
  <2>6. ValueInv'
    BY <1>1, <1>2, <2>1, <2>2, <2>3 DEF ValueInv
  <2>7. FieldsInv'
    <3>1. ASSUME NEW c \in 1 .. Len(fields)
          PROVE  fields[c].type \in DOMAIN types' /\ lists'[fields[c].type] = asked'[c]
      <4>1. fields[c].type \in DOMAIN types /\ fields[c].type # value
        BY <1>3, <2>1
      <4>2. lists'[fields[c].type] = lists[fields[c].type]
        BY <2>2, <4>1
      <4>3. lists[fields[c].type] = asked[c]
        BY <1>3
      <4>4. c \in 1 .. Len(asked) - 1
        BY <1>3
      <4>5. asked'[c] = asked[c]
        BY <2>3, <4>4
      <4> QED BY <2>1, <4>1, <4>2, <4>3, <4>5
    <3> QED BY <1>1, <1>3, <2>1, <2>3, <3>1 DEF FieldsInv
  <2> QED BY <2>4, <2>5, <2>6, <2>7 DEF SheetInv
<1> QED BY <1>7, <1>8

\* The field of a column that is put behind the others.
LEMMA FieldAppended ==
  ASSUME NEW s \in Seq([type : Object, props : Seq(Prop)]), NEW o \in Object, NEW props \in Seq(Prop)
  PROVE  LET r == Append(s, [type |-> o, props |-> props])
         IN  /\ r \in Seq([type : Object, props : Seq(Prop)]) /\ Len(r) = Len(s) + 1
             /\ r[Len(s) + 1].type = o
             /\ \A c \in 1 .. Len(s) : r[c] = s[c]
<1> DEFINE F == [type : Object, props : Seq(Prop)]
           f == [type |-> o, props |-> props]
<1>1. f \in F /\ f.type = o
  OBVIOUS
<1> HIDE DEF F, f
<1>2. s \in Seq(F)
  BY DEF F
<1>3. /\ Append(s, f) \in Seq(F) /\ Len(Append(s, f)) = Len(s) + 1 /\ Append(s, f)[Len(s) + 1] = f
      /\ \A c \in 1 .. Len(s) : Append(s, f)[c] = s[c]
  BY <1>1, <1>2, AppendProperties
<1> QED BY <1>1, <1>3 DEF F, f

LEMMA EndCellKeeps ==
  ASSUME SheetInv, NEW props \in Seq(Prop), EndCell(props)
  PROVE  SheetInv'
<1>1. /\ state = "reading" /\ value # NoObject /\ value' = NoObject
      /\ fields' = Append(fields, [type |-> value, props |-> props])
      /\ UNCHANGED <<types, lists, asked, indice, state>>
  BY DEF EndCell, Reading
<1>2. OwnList' /\ SharedPlain' /\ DumpedInv' /\ ValueInv'
  BY <1>1 DEF SheetInv, OwnList, SharedPlain, DumpedInv, ValueInv, NoObject
<1>3. /\ value \in DOMAIN types /\ value \in Object /\ lists[value] = asked[Len(asked)]
  BY <1>1 DEF SheetInv, ValueInv, OwnList
<1>4. /\ asked \in Seq(Seq(Prop)) /\ Len(asked) = Len(fields) + 1
      /\ fields \in Seq([type : Object, props : Seq(Prop)])
      /\ \A c \in 1 .. Len(fields) : fields[c].type \in DOMAIN types /\ lists[fields[c].type] = asked[c]
  BY <1>1 DEF SheetInv, FieldsInv
<1>5. /\ fields' \in Seq([type : Object, props : Seq(Prop)]) /\ Len(fields') = Len(fields) + 1
      /\ fields'[Len(fields) + 1].type = value
      /\ \A c \in 1 .. Len(fields) : fields'[c] = fields[c]
  BY <1>1, <1>3, <1>4, FieldAppended
<1>6. \A c \in 1 .. Len(fields') : fields'[c].type \in DOMAIN types /\ lists[fields'[c].type] = asked[c]
  <2> SUFFICES ASSUME NEW c \in 1 .. Len(fields')
               PROVE  fields'[c].type \in DOMAIN types /\ lists[fields'[c].type] = asked[c]
    OBVIOUS
  <2>1. c \in 1 .. Len(fields) \/ c = Len(fields) + 1
    BY <1>4, <1>5
  <2> QED BY <1>3, <1>4, <1>5, <2>1
<1>7. FieldsInv'
  BY <1>1, <1>4, <1>5, <1>6 DEF FieldsInv, NoObject
<1> QED BY <1>2, <1>7 DEF SheetInv

LEMMA EmptyCellKeeps ==
  ASSUME SheetInv, EmptyCell
  PROVE  SheetInv'
<1> DEFINE x == <<"unordered_unique">>
<1>1. CASE state' = "failed" /\ UNCHANGED <<types, lists, value, fields, asked, indice>>
  BY <1>1 DEF SheetInv, OwnList, SharedPlain, ValueInv, FieldsInv, DumpedInv
<1>2. CASE /\ state = "reading" /\ value = NoObject /\ Make(lists[<<"int">>] \o x)
           /\ fields' = Append(fields, [type |-> New, props |-> <<>>])
           /\ asked' = Append(asked, x) /\ UNCHANGED <<value, indice, state>>
  <2>1. x \in Seq(Prop) /\ <<>> \in Seq(Prop)
    BY SheetAssumption DEF Prop
  <2> HIDE DEF x
  <2>0. lists[<<"int">>] \o x = x
    <3>1. lists[<<"int">>] = <<>>
      BY SheetAssumption DEF SheetInv, SharedPlain
    <3> QED BY <2>1, <3>1
  <2>2. Made(x) /\ OwnList' /\ SharedPlain'
    BY <1>2, <2>0, MakeKeeps DEF SheetInv
  <2>3. DumpedInv' /\ ValueInv'
    BY <1>2 DEF DumpedInv, ValueInv
  <2>4. /\ asked \in Seq(Seq(Prop)) /\ Len(asked) = Len(fields)
        /\ fields \in Seq([type : Object, props : Seq(Prop)])
        /\ \A c \in 1 .. Len(fields) : fields[c].type \in DOMAIN types /\ lists[fields[c].type] = asked[c]
    BY <1>2 DEF SheetInv, FieldsInv
  <2>5. /\ New \in Object /\ New \in DOMAIN types' /\ lists'[New] = x
        /\ \A o \in DOMAIN types : o \in DOMAIN types' /\ lists'[o] = lists[o]
    BY <2>2 DEF Made
  <2>6. /\ fields' \in Seq([type : Object, props : Seq(Prop)]) /\ Len(fields') = Len(fields) + 1
        /\ fields'[Len(fields) + 1].type = New
        /\ \A c \in 1 .. Len(fields) : fields'[c] = fields[c]
    BY <1>2, <2>1, <2>4, <2>5, FieldAppended
  <2>7. /\ asked' \in Seq(Seq(Prop)) /\ Len(asked') = Len(asked) + 1 /\ asked'[Len(asked) + 1] = x
        /\ \A c \in 1 .. Len(asked) : asked'[c] = asked[c]
    BY <1>2, <2>1, <2>4, AppendProperties
  <2>8. \A c \in 1 .. Len(fields') : fields'[c].type \in DOMAIN types' /\ lists'[fields'[c].type] = asked'[c]
    <3> SUFFICES ASSUME NEW c \in 1 .. Len(fields')
                 PROVE  fields'[c].type \in DOMAIN types' /\ lists'[fields'[c].type] = asked'[c]
      OBVIOUS
    <3>1. CASE c \in 1 .. Len(fields)
      <4>1. fields[c].type \in DOMAIN types /\ lists[fields[c].type] = asked[c]
        BY <2>4, <3>1
      <4>2. fields'[c] = fields[c] /\ asked'[c] = asked[c]
        BY <2>4, <2>6, <2>7, <3>1
      <4> QED BY <2>5, <4>1, <4>2
    <3>2. CASE c = Len(fields) + 1
      BY <2>4, <2>5, <2>6, <2>7, <3>2
    <3>3. c \in 1 .. Len(fields) \/ c = Len(fields) + 1
      BY <2>4, <2>6
    <3> QED BY <3>1, <3>2, <3>3
  <2>9. FieldsInv'
    BY <1>2, <2>4, <2>6, <2>7, <2>8 DEF FieldsInv
  <2> QED BY <2>2, <2>3, <2>9 DEF SheetInv
<1> QED BY <1>1, <1>2 DEF EmptyCell, Reading

LEMMA DumpKeeps ==
  ASSUME SheetInv, Dump
  PROVE  SheetInv'
<1>1. /\ value = NoObject /\ UNCHANGED <<types, lists, value, fields, asked>>
      /\ indice' = FlattenSeq([c \in DOMAIN fields |->
                      [p \in DOMAIN get_props(fields[c]) |-> <<c, get_props(fields[c])[p]>>]])
  BY DEF Dump
<1>2. OwnList' /\ SharedPlain' /\ ValueInv' /\ FieldsInv'
  BY <1>1 DEF SheetInv, OwnList, SharedPlain, ValueInv, FieldsInv
<1>3. \A c \in DOMAIN fields : get_props(fields[c]) = OnlyIndexes(asked[c])
  <2> SUFFICES ASSUME NEW c \in DOMAIN fields PROVE get_props(fields[c]) = OnlyIndexes(asked[c])
    OBVIOUS
  <2>1. fields[c].type \in DOMAIN types /\ lists[fields[c].type] = asked[c]
    <3>1. \A e \in 1 .. Len(fields) : fields[e].type \in DOMAIN types /\ lists[fields[e].type] = asked[e]
      BY DEF SheetInv, FieldsInv
    <3>2. DOMAIN fields = 1 .. Len(fields)
      BY DEF SheetInv, FieldsInv
    <3> QED BY <3>1, <3>2
  <2>2. types[fields[c].type].props = fields[c].type
    BY <2>1 DEF SheetInv, OwnList
  <2> QED BY <2>1, <2>2 DEF get_props
<1> DEFINE wanted(c) == OnlyIndexes(asked[c])
<1>4. [c \in DOMAIN fields |-> [p \in DOMAIN get_props(fields[c]) |-> <<c, get_props(fields[c])[p]>>]]
      = [c \in DOMAIN fields |-> [p \in DOMAIN wanted(c) |-> <<c, wanted(c)[p]>>]]
  BY <1>3, Zenon
<1>5. indice' = FlattenSeq([c \in DOMAIN fields |-> [p \in DOMAIN wanted(c) |-> <<c, wanted(c)[p]>>]])
  BY <1>1, <1>4
<1>6. DumpedInv'
  BY <1>1, <1>5 DEF DumpedInv, DumpsWhatWasAsked
<1> QED BY <1>2, <1>6 DEF SheetInv

LEMMA InitSheetInv == Init => SheetInv
<1> SUFFICES ASSUME Init PROVE SheetInv
  OBVIOUS
<1>1. /\ DOMAIN types = {<<t>> : t \in Shared} /\ DOMAIN lists = DOMAIN types
      /\ \A o \in DOMAIN types : types[o].readonly = TRUE /\ types[o].props = o /\ lists[o] = <<>>
      /\ value = NoObject /\ fields = <<>> /\ asked = <<>> /\ state = "reading"
  BY DEF Init
<1>2. OwnList
  BY <1>1 DEF OwnList, Object
<1>3. SharedPlain
  BY <1>1 DEF SharedPlain
<1>4. ValueInv /\ DumpedInv
  BY <1>1 DEF ValueInv, DumpedInv
<1>5. FieldsInv
  <2>1. asked \in Seq(Seq(Prop)) /\ fields \in Seq([type : Object, props : Seq(Prop)])
    BY <1>1
  <2> QED BY <1>1, <2>1 DEF FieldsInv
<1> QED BY <1>2, <1>3, <1>4, <1>5 DEF SheetInv

LEMMA NextSheetInv == SheetInv /\ [Next]_vars => SheetInv'
<1> SUFFICES ASSUME SheetInv, [Next]_vars PROVE SheetInv'
  OBVIOUS
<1>1. ASSUME NEW t \in Shared, Name(t) PROVE SheetInv'
  BY <1>1, NameKeeps
<1>2. CASE Template
  BY <1>2, TemplateKeeps
<1>3. ASSUME NEW p \in Prop, AddProps(<<p>>) PROVE SheetInv'
  BY <1>3, AddPropsKeeps
<1>4. ASSUME NEW props \in {<<>>} \cup {<<p>> : p \in Prop}, EndCell(props) PROVE SheetInv'
  <2>1. props \in Seq(Prop)
    <3>1. CASE props = <<>>
      BY <3>1
    <3>2. CASE props # <<>>
      <4>1. PICK p \in Prop : props = <<p>>
        BY <1>4, <3>2
      <4> QED BY <4>1
    <3> QED BY <3>1, <3>2
  <2> QED BY <1>4, <2>1, EndCellKeeps
<1>5. CASE EmptyCell
  BY <1>5, EmptyCellKeeps
<1>6. CASE Dump
  BY <1>6, DumpKeeps
<1>7. CASE UNCHANGED vars
  BY <1>7 DEF vars, SheetInv, OwnList, SharedPlain, ValueInv, FieldsInv, DumpedInv, DumpsWhatWasAsked
<1> QED BY <1>1, <1>2, <1>3, <1>4, <1>5, <1>6, <1>7 DEF Next

\* Whatever the cells are and whichever types they share: the C++ table gets, for
\* each column in order, the indices that were put on the type in that column's
\* cell, in order, no other property of it and no index of another column.
THEOREM ColumnsGetTheirIndices == Spec => []DumpsWhatWasAsked
<1>1. SheetInv => DumpsWhatWasAsked
  BY DEF SheetInv, DumpedInv, DumpsWhatWasAsked
<1>2. Spec => []SheetInv
  BY InitSheetInv, NextSheetInv, PTL DEF Spec
<1> QED BY <1>1, <1>2, PTL

------------------------------------------------------------------------------
(* The search: breadth_first_search puts every vertex it finds behind the  *)
(* others, so the list is in the order of the steps that lead to each.     *)

\* The vertices in the list are linked to earlier ones, of which the first t are
\* processed.
Linked(e, s, t) == \A k \in 2 .. Len(s) : \E l \in 1 .. t : l < k /\ <<s[l], s[k]>> \in e

\* What the first t lead to is in the list.
Closed(e, s, t) ==
  \A l \in 1 .. t : \A v \in Vertices : <<s[l], v>> \in e => \E k \in 1 .. Len(s) : s[k] = v

\* No vertex in the list is before one that fewer steps lead to.
Ordered(w, s) ==
  \A k \in 1 .. Len(s) : \A j \in 1 .. k - 1 : \A n \in Nat : s[k] \in w[n] => s[j] \in w[n]

VisitInv ==
  /\ found \in Seq(Vertices) /\ Len(found) > 0 /\ IsInjective(found)
  /\ turn \in 0 .. Len(found)
  /\ processed \in Seq(Vertices) /\ Len(processed) = turn
  /\ \A k \in 1 .. turn : processed[k] = found[k]
  /\ past => turn = Len(found)
  /\ Linked(edges, found, turn) /\ Closed(edges, found, turn)
  /\ Ordered(V!Reach(edges, found[1]), found)

\* What n steps over e lead to from b.
Steps(w, e, b) ==
  /\ w \in [Nat -> SUBSET Vertices] /\ w[0] = {b}
  /\ \A n \in Nat : w[n + 1] = w[n] \cup V!Beyond(e, w[n])

LEMMA ReachIs ==
  ASSUME NEW e, NEW b \in Vertices
  PROVE  Steps(V!Reach(e, b), e, b)
<1> DEFINE T == SUBSET Vertices
           step == [s \in T |-> s \cup V!Beyond(e, s)]
           y == CHOOSE y : y = [n \in Nat |-> IF n = 0 THEN {b}
                                              ELSE LET s == y[n - 1] IN s \cup V!Beyond(e, s)]
<1>1. step \in [T -> T] /\ {b} \in T
  BY DEF V!Beyond
<1>2. PICK w \in [Nat -> T] : w[0] = {b} /\ \A n \in Nat : w[n + 1] = step[w[n]]
  <2> HIDE DEF T, step
  <2> QED BY <1>1, IterateAlways
<1>3. \A n \in Nat : w[n + 1] = w[n] \cup V!Beyond(e, w[n])
  BY <1>2
<1> HIDE DEF step
<1>4. w = [n \in Nat |-> IF n = 0 THEN {b} ELSE LET s == w[n - 1] IN s \cup V!Beyond(e, s)]
  <2>1. \A n \in Nat : w[n] = IF n = 0 THEN {b} ELSE w[n - 1] \cup V!Beyond(e, w[n - 1])
    <3> SUFFICES ASSUME NEW n \in Nat
                 PROVE  w[n] = IF n = 0 THEN {b} ELSE w[n - 1] \cup V!Beyond(e, w[n - 1])
      OBVIOUS
    <3>1. n = 0 \/ (n - 1 \in Nat /\ (n - 1) + 1 = n /\ n # 0)
      OBVIOUS
    <3> QED BY <1>2, <1>3, <3>1
  <2>2. w = [n \in Nat |-> w[n]]
    BY <1>2
  <2> QED BY <2>1, <2>2
<1>5. y = [n \in Nat |-> IF n = 0 THEN {b} ELSE LET s == y[n - 1] IN s \cup V!Beyond(e, s)]
  BY <1>4
<1>6. V!Reach(e, b) = y
  BY DEF V!Reach
<1> HIDE DEF y
<1>7. \A n \in Nat : y[n] = w[n]
  <2> SUFFICES ASSUME NEW n \in Nat PROVE y[n] = w[n]
    OBVIOUS
  <2>1. y[0] = w[0]
    BY <1>2, <1>5
  <2>2. ASSUME NEW k \in 1 .. n, y[k - 1] = w[k - 1] PROVE y[k] = w[k]
    <3>1. k - 1 \in Nat /\ (k - 1) + 1 = k /\ k # 0 /\ k \in Nat
      OBVIOUS
    <3>2. y[k] = y[k - 1] \cup V!Beyond(e, y[k - 1])
      BY <1>5, <3>1
    <3>3. w[k] = w[k - 1] \cup V!Beyond(e, w[k - 1])
      BY <1>3, <3>1
    <3> QED BY <2>2, <3>2, <3>3
  <2>3. SameSteps(n, y, w)
    BY <2>1, <2>2 DEF SameSteps
  <2>4. \A k \in 0 .. n : y[k] = w[k]
    BY <2>3, IterateOnce
  <2> QED BY <2>4
<1>8. y = w
  BY <1>2, <1>5, <1>7
<1> QED BY <1>2, <1>3, <1>6, <1>8 DEF Steps

LEMMA MoreSteps ==
  ASSUME NEW w, NEW e, NEW b, Steps(w, e, b), NEW m \in Nat, NEW n \in Nat, m <= n
  PROVE  w[m] \subseteq w[n]
<1> DEFINE S == {k \in Nat : w[m] \subseteq w[m + k]}
<1>1. 0 \in S
  OBVIOUS
<1>2. ASSUME NEW k \in Nat, k \in S PROVE k + 1 \in S
  <2>1. m + k \in Nat /\ m + (k + 1) = (m + k) + 1
    OBVIOUS
  <2>2. w[(m + k) + 1] = w[m + k] \cup V!Beyond(e, w[m + k])
    BY <2>1 DEF Steps
  <2> QED BY <1>2, <2>1, <2>2
<1>3. Nat \subseteq S
  <2> HIDE DEF S
  <2> QED BY <1>1, <1>2, SetInduction
<1>4. n - m \in Nat /\ m + (n - m) = n
  OBVIOUS
<1> QED BY <1>3, <1>4

\* An edge is one step more.
LEMMA OneMore ==
  ASSUME NEW w, NEW e, NEW b, Steps(w, e, b), NEW n \in Nat, NEW u \in w[n], NEW v \in Vertices,
         <<u, v>> \in e
  PROVE  v \in w[n + 1]
BY DEF Steps, V!Beyond

\* A vertex that is not in the list is further than the next one to be processed.
LEMMA NotInList ==
  ASSUME NEW e, NEW b, NEW w, Steps(w, e, b), NEW s \in Seq(Vertices), NEW t \in Nat, t < Len(s),
         s[1] = b, Closed(e, s, t), Ordered(w, s)
  PROVE  \A n \in Nat : \A v \in w[n] :
           (\A k \in 1 .. Len(s) : s[k] # v) => n - 1 \in Nat /\ s[t + 1] \in w[n - 1]
<1> DEFINE p == s[t + 1]
           Out(v) == \A k \in 1 .. Len(s) : s[k] # v
           S == {n \in Nat : \A v \in w[n] : Out(v) => n - 1 \in Nat /\ p \in w[n - 1]}
<1>1. 0 \in S
  <2>1. 1 \in 1 .. Len(s)
    OBVIOUS
  <2> QED BY <2>1 DEF Steps
<1>2. ASSUME NEW n \in Nat, n \in S PROVE n + 1 \in S
  <2>0. n + 1 \in Nat /\ (n + 1) - 1 = n
    OBVIOUS
  <2> SUFFICES ASSUME NEW v \in w[n + 1], Out(v) PROVE (n + 1) - 1 \in Nat /\ p \in w[(n + 1) - 1]
    BY <2>0
  <2> SUFFICES p \in w[n]
    BY <2>0
  <2>1. \A x \in w[n] : Out(x) => p \in w[n]
    <3> SUFFICES ASSUME NEW x \in w[n], Out(x) PROVE p \in w[n]
      OBVIOUS
    <3>1. n - 1 \in Nat /\ p \in w[n - 1]
      BY <1>2
    <3>2. w[n - 1] \subseteq w[n]
      BY <3>1, MoreSteps
    <3> QED BY <3>1, <3>2
  <2>2. CASE v \in w[n]
    BY <2>1, <2>2
  <2>3. CASE v \in V!Beyond(e, w[n])
    <3>1. PICK u \in w[n] : <<u, v>> \in e /\ v \in Vertices
      BY <2>3 DEF V!Beyond
    <3>2. CASE Out(u)
      BY <2>1, <3>2
    <3>3. CASE ~Out(u)
      <4>1. PICK k \in 1 .. Len(s) : s[k] = u
        BY <3>3
      <4>2. ~(k \in 1 .. t)
        BY <3>1, <4>1 DEF Closed
      <4>3. k = t + 1 \/ t + 1 \in 1 .. k - 1
        BY <4>2
      <4> QED BY <3>1, <4>1, <4>3 DEF Ordered
    <3> QED BY <3>2, <3>3
  <2>4. v \in w[n] \/ v \in V!Beyond(e, w[n])
    BY DEF Steps
  <2> QED BY <2>2, <2>3, <2>4
<1>3. Nat \subseteq S
  <2> HIDE DEF S
  <2> QED BY <1>1, <1>2, SetInduction
<1> QED BY <1>3

\* r is s with the vertices behind it that vertex t + 1 leads to.
Grown(e, s, t, r) ==
  /\ r \in Seq(Vertices) /\ Len(r) >= Len(s)
  /\ \A k \in 1 .. Len(s) : r[k] = s[k]
  /\ \A k \in Len(s) + 1 .. Len(r) : <<s[t + 1], r[k]>> \in e /\ \A l \in 1 .. k - 1 : r[l] # r[k]
  /\ \A v \in Vertices : <<s[t + 1], v>> \in e => \E k \in 1 .. Len(r) : r[k] = v

Fresh(e, s, t) == {v \in Vertices : <<s[t + 1], v>> \in e} \ {s[k] : k \in 1 .. Len(s)}

LEMMA GrownIs ==
  ASSUME IsFiniteSet(Vertices), NEW e, NEW s \in Seq(Vertices), NEW t \in Nat, t < Len(s),
         NEW q \in SetToSeqs(Fresh(e, s, t))
  PROVE  Grown(e, s, t, s \o q)
<1> DEFINE r == s \o q
           F == Fresh(e, s, t)
<1>1. F \subseteq Vertices /\ IsFiniteSet(F)
  BY FS_Subset DEF Fresh
<1>2. /\ q \in Seq(F) /\ IsInjective(q)
      /\ \A x \in F : \E k \in 1 .. Len(q) : q[k] = x
  BY <1>1, SetToSeqsIs
<1> HIDE DEF F
<1>3. q \in Seq(Vertices) /\ Len(q) \in Nat /\ Len(s) \in Nat /\ \A k \in 1 .. Len(q) : q[k] \in F
  BY <1>1, <1>2
<1>4. /\ r \in Seq(Vertices) /\ Len(r) = Len(s) + Len(q)
      /\ \A k \in 1 .. Len(s) + Len(q) : r[k] = IF k <= Len(s) THEN s[k] ELSE q[k - Len(s)]
  BY <1>3, ConcatProperties
<1> HIDE DEF r
<1>5. \A k \in 1 .. Len(s) : r[k] = s[k]
  BY <1>3, <1>4
<1>6. \A k \in 1 .. Len(q) : r[Len(s) + k] = q[k]
  <2> SUFFICES ASSUME NEW k \in 1 .. Len(q) PROVE r[Len(s) + k] = q[k]
    OBVIOUS
  <2>1. Len(s) + k \in 1 .. Len(s) + Len(q) /\ ~(Len(s) + k <= Len(s)) /\ (Len(s) + k) - Len(s) = k
    BY <1>3
  <2> QED BY <1>4, <2>1
<1>7. ASSUME NEW k \in Len(s) + 1 .. Len(r)
      PROVE  <<s[t + 1], r[k]>> \in e /\ \A l \in 1 .. k - 1 : r[l] # r[k]
  <2> DEFINE j == k - Len(s)
  <2>1. j \in 1 .. Len(q) /\ r[k] = q[j]
    BY <1>3, <1>4
  <2>2. q[j] \in F
    BY <1>3, <2>1
  <2>3. <<s[t + 1], r[k]>> \in e /\ \A l \in 1 .. Len(s) : s[l] # r[k]
    BY <2>1, <2>2 DEF F, Fresh
  <2>4. ASSUME NEW l \in 1 .. k - 1 PROVE r[l] # r[k]
    <3>1. CASE l <= Len(s)
      <4>1. l \in 1 .. Len(s)
        BY <1>3, <3>1
      <4> QED BY <1>5, <2>3, <4>1
    <3>2. CASE l > Len(s)
      <4> DEFINE i == l - Len(s)
      <4>1. i \in 1 .. Len(q) /\ i # j /\ Len(s) + i = l
        BY <1>3, <1>4, <3>2
      <4>2. r[l] = q[i]
        BY <1>6, <4>1
      <4>3. q[i] # q[j]
        <5> HIDE DEF i, j
        <5>1. i \in DOMAIN q /\ j \in DOMAIN q
          BY <1>3, <2>1, <4>1
        <5> QED BY <1>2, <4>1, <5>1 DEF IsInjective
      <4> QED BY <2>1, <4>2, <4>3
    <3> QED BY <1>3, <3>1, <3>2
  <2> QED BY <2>3, <2>4
<1>8. ASSUME NEW v \in Vertices, <<s[t + 1], v>> \in e PROVE \E k \in 1 .. Len(r) : r[k] = v
  <2>1. CASE \E k \in 1 .. Len(s) : s[k] = v
    <3>1. PICK k \in 1 .. Len(s) : s[k] = v
      BY <2>1
    <3>2. k \in 1 .. Len(r)
      BY <1>3, <1>4
    <3> QED BY <1>5, <3>1, <3>2
  <2>2. CASE ~ \E k \in 1 .. Len(s) : s[k] = v
    <3>1. v \in F
      BY <1>8, <2>2 DEF F, Fresh
    <3>2. PICK k \in 1 .. Len(q) : q[k] = v
      BY <1>2, <3>1
    <3>3. Len(s) + k \in 1 .. Len(r)
      BY <1>3, <1>4
    <3> QED BY <1>6, <3>2, <3>3
  <2> QED BY <2>1, <2>2
<1>9. Len(r) >= Len(s)
  BY <1>3, <1>4
<1> QED BY <1>4, <1>5, <1>7, <1>8, <1>9 DEF Grown, r

LEMMA GrownKeeps ==
  ASSUME NEW e, NEW b, NEW w, Steps(w, e, b), NEW s \in Seq(Vertices), NEW t \in Nat, t < Len(s),
         s[1] = b, IsInjective(s), Linked(e, s, t), Closed(e, s, t), Ordered(w, s),
         NEW r, Grown(e, s, t, r)
  PROVE  IsInjective(r) /\ Linked(e, r, t + 1) /\ Closed(e, r, t + 1) /\ Ordered(w, r) /\ r[1] = b
<1> DEFINE p == s[t + 1]
<1>1. /\ r \in Seq(Vertices) /\ Len(r) >= Len(s) /\ Len(s) \in Nat /\ Len(r) \in Nat
      /\ \A k \in 1 .. Len(s) : r[k] = s[k]
      /\ \A k \in Len(s) + 1 .. Len(r) : <<p, r[k]>> \in e /\ \A l \in 1 .. k - 1 : r[l] # r[k]
      /\ \A v \in Vertices : <<p, v>> \in e => \E k \in 1 .. Len(r) : r[k] = v
  BY DEF Grown
<1>2. t + 1 \in 1 .. Len(s) /\ r[t + 1] = p
  BY <1>1
<1>3. IsInjective(r)
  <2>1. ASSUME NEW k \in 1 .. Len(r), NEW l \in 1 .. k - 1 PROVE r[l] # r[k]
    <3>1. CASE k <= Len(s)
      <4>1. k \in 1 .. Len(s) /\ l \in 1 .. Len(s) /\ l # k
        BY <1>1, <3>1
      <4>2. s[l] # s[k]
        BY <4>1 DEF IsInjective
      <4> QED BY <1>1, <4>1, <4>2
    <3>2. CASE k > Len(s)
      <4>1. k \in Len(s) + 1 .. Len(r)
        BY <1>1, <3>2
      <4> QED BY <1>1, <4>1
    <3> QED BY <1>1, <3>1, <3>2
  <2>2. ASSUME NEW k \in 1 .. Len(r), NEW l \in 1 .. Len(r), r[k] = r[l] PROVE k = l
    <3>1. k = l \/ l \in 1 .. k - 1 \/ k \in 1 .. l - 1
      BY <1>1
    <3> QED BY <2>1, <2>2, <3>1
  <2> QED BY <1>1, <2>2 DEF IsInjective
<1>4. Linked(e, r, t + 1)
  <2> SUFFICES ASSUME NEW k \in 2 .. Len(r)
               PROVE  \E l \in 1 .. t + 1 : l < k /\ <<r[l], r[k]>> \in e
    BY DEF Linked
  <2>1. CASE k <= Len(s)
    <3>1. k \in 2 .. Len(s) /\ k \in 1 .. Len(s)
      BY <1>1, <2>1
    <3>2. PICK l \in 1 .. t : l < k /\ <<s[l], s[k]>> \in e
      BY <3>1 DEF Linked
    <3>3. l \in 1 .. t + 1 /\ l \in 1 .. Len(s)
      BY <1>1
    <3> QED BY <1>1, <3>1, <3>2, <3>3
  <2>2. CASE k > Len(s)
    <3>1. k \in Len(s) + 1 .. Len(r) /\ t + 1 \in 1 .. t + 1 /\ t + 1 < k
      BY <1>1, <2>2
    <3> QED BY <1>1, <1>2, <3>1
  <2> QED BY <1>1, <2>1, <2>2
<1>5. Closed(e, r, t + 1)
  <2> SUFFICES ASSUME NEW l \in 1 .. t + 1, NEW v \in Vertices, <<r[l], v>> \in e
               PROVE  \E k \in 1 .. Len(r) : r[k] = v
    BY DEF Closed
  <2>1. CASE l = t + 1
    BY <1>1, <1>2, <2>1
  <2>2. CASE l # t + 1
    <3>1. l \in 1 .. t /\ l \in 1 .. Len(s)
      BY <1>1, <2>2
    <3>2. <<s[l], v>> \in e
      BY <1>1, <3>1
    <3>3. PICK k \in 1 .. Len(s) : s[k] = v
      BY <3>1, <3>2 DEF Closed
    <3>4. k \in 1 .. Len(r)
      BY <1>1
    <3> QED BY <1>1, <3>3, <3>4
  <2> QED BY <2>1, <2>2
<1>6. Ordered(w, r)
  <2> SUFFICES ASSUME NEW k \in 1 .. Len(r), NEW j \in 1 .. k - 1, NEW n \in Nat, r[k] \in w[n]
               PROVE  r[j] \in w[n]
    BY DEF Ordered
  <2>1. CASE k <= Len(s)
    <3>1. k \in 1 .. Len(s) /\ j \in 1 .. Len(s)
      BY <1>1, <2>1
    <3> QED BY <1>1, <3>1 DEF Ordered
  <2>2. CASE k > Len(s)
    <3>1. k \in Len(s) + 1 .. Len(r)
      BY <1>1, <2>2
    <3>2. \A i \in 1 .. Len(s) : s[i] # r[k]
      <4> SUFFICES ASSUME NEW i \in 1 .. Len(s) PROVE s[i] # r[k]
        OBVIOUS
      <4>1. i \in 1 .. k - 1
        BY <1>1, <3>1
      <4> QED BY <1>1, <3>1, <4>1
    <3>3. n - 1 \in Nat /\ p \in w[n - 1]
      BY <3>2, NotInList
    <3>4. (n - 1) + 1 = n /\ w[n - 1] \subseteq w[n]
      BY <3>3, MoreSteps
    <3>5. \A i \in 1 .. t + 1 : s[i] \in w[n - 1]
      <4> SUFFICES ASSUME NEW i \in 1 .. t + 1 PROVE s[i] \in w[n - 1]
        OBVIOUS
      <4>1. i = t + 1 \/ i \in 1 .. (t + 1) - 1
        OBVIOUS
      <4> QED BY <1>2, <3>3, <4>1 DEF Ordered
    <3>6. CASE j <= t + 1
      <4>1. j \in 1 .. t + 1 /\ j \in 1 .. Len(s)
        BY <1>1, <1>2, <3>6
      <4> QED BY <1>1, <3>4, <3>5, <4>1
    <3>7. CASE j > t + 1 /\ j <= Len(s)
      <4>1. j \in 2 .. Len(s) /\ j \in 1 .. Len(s)
        BY <1>1, <3>7
      <4>2. PICK l \in 1 .. t : l < j /\ <<s[l], s[j]>> \in e
        BY <4>1 DEF Linked
      <4>3. s[l] \in w[n - 1] /\ s[j] \in Vertices
        BY <3>5, <4>1
      <4>4. s[j] \in w[(n - 1) + 1]
        BY <3>3, <4>2, <4>3, OneMore
      <4> QED BY <1>1, <3>4, <4>1, <4>4
    <3>8. CASE j > Len(s)
      <4>1. j \in Len(s) + 1 .. Len(r) /\ j \in 1 .. Len(r)
        BY <1>1, <3>1, <3>8
      <4>2. <<p, r[j]>> \in e /\ r[j] \in Vertices
        BY <1>1, <4>1
      <4>3. r[j] \in w[(n - 1) + 1]
        BY <3>3, <4>2, OneMore
      <4> QED BY <3>4, <4>3
    <3> QED BY <1>1, <3>6, <3>7, <3>8
  <2> QED BY <1>1, <2>1, <2>2
<1>7. r[1] = b
  BY <1>1
<1> QED BY <1>3, <1>4, <1>5, <1>6, <1>7

LEMMA SameNames ==
  /\ \A S : V!IsFiniteSet(S) <=> IsFiniteSet(S)
  /\ \A S : V!Cardinality(S) = Cardinality(S)
  /\ \A S : V!SetToSeqs(S) = SetToSeqs(S)
<1>1. \A S : V!IsFiniteSet(S) <=> IsFiniteSet(S)
  BY DEF V!IsFiniteSet, IsFiniteSet
<1>2. \A S : V!Cardinality(S) = Cardinality(S)
  BY DEF V!Cardinality, Cardinality
<1>3. \A S : V!SetToSeqs(S) = SetToSeqs(S)
  BY <1>2 DEF V!SetToSeqs, SetToSeqs
<1> QED BY <1>1, <1>2, <1>3

LEMMA InitVisitInv == V!Init => VisitInv
<1> SUFFICES ASSUME V!Init PROVE VisitInv
  OBVIOUS
<1>1. PICK begin \in Vertices : found = <<begin>>
  BY DEF V!Init
<1>2. turn = 0 /\ processed = <<>> /\ past = FALSE
  BY DEF V!Init
<1>3. found \in Seq(Vertices) /\ Len(found) = 1 /\ processed \in Seq(Vertices) /\ Len(processed) = 0
  BY <1>1, <1>2
<1>4. IsInjective(found)
  BY <1>1 DEF IsInjective
<1>5. Linked(edges, found, turn) /\ Closed(edges, found, turn)
  BY <1>2, <1>3 DEF Linked, Closed
<1>6. Ordered(V!Reach(edges, found[1]), found)
  BY <1>3 DEF Ordered
<1> QED BY <1>2, <1>3, <1>4, <1>5, <1>6 DEF VisitInv

LEMMA ExamineKeeps ==
  ASSUME V!VisitAssumption, VisitInv, V!Examine
  PROVE  VisitInv'
<1>1. /\ ~past /\ turn < Len(found) /\ turn' = turn + 1
      /\ processed' = Append(processed, found[turn + 1]) /\ UNCHANGED <<edges, past>>
      /\ \E q \in V!SetToSeqs(V!Found(found[turn + 1])) : found' = found \o q
  BY DEF V!Examine
<1>2. /\ found \in Seq(Vertices) /\ Len(found) > 0 /\ IsInjective(found) /\ turn \in Nat
      /\ processed \in Seq(Vertices) /\ Len(processed) = turn
      /\ \A k \in 1 .. turn : processed[k] = found[k]
      /\ Linked(edges, found, turn) /\ Closed(edges, found, turn)
      /\ Ordered(V!Reach(edges, found[1]), found)
  BY DEF VisitInv
<1>3. V!SetToSeqs(V!Found(found[turn + 1])) = SetToSeqs(Fresh(edges, found, turn))
  <2>1. V!Range(found) = {found[k] : k \in 1 .. Len(found)}
    BY <1>2 DEF V!Range
  <2>2. V!Found(found[turn + 1]) = Fresh(edges, found, turn)
    BY <2>1 DEF V!Found, Fresh
  <2> QED BY <2>2, SameNames
<1>4. PICK q \in SetToSeqs(Fresh(edges, found, turn)) : found' = found \o q
  BY <1>1, <1>3
<1>5. Grown(edges, found, turn, found')
  BY <1>1, <1>2, <1>4, GrownIs, SameNames DEF V!VisitAssumption
<1> DEFINE b == found[1]
           w == V!Reach(edges, b)
<1>6. b \in Vertices /\ Steps(w, edges, b)
  BY <1>2, ReachIs
<1> HIDE DEF w
<1>7. /\ IsInjective(found') /\ Linked(edges, found', turn + 1) /\ Closed(edges, found', turn + 1)
      /\ Ordered(w, found') /\ found'[1] = b
  BY <1>1, <1>2, <1>5, <1>6, GrownKeeps DEF w
<1>8. /\ found' \in Seq(Vertices) /\ Len(found') >= Len(found)
      /\ \A k \in 1 .. Len(found) : found'[k] = found[k]
  BY <1>5 DEF Grown
<1>9. found[turn + 1] \in Vertices /\ turn + 1 \in 1 .. Len(found)
  BY <1>1, <1>2
<1>10. /\ processed' \in Seq(Vertices) /\ Len(processed') = turn + 1
       /\ \A k \in 1 .. turn : processed'[k] = processed[k]
       /\ processed'[turn + 1] = found[turn + 1]
  BY <1>1, <1>2, <1>9, AppendProperties
<1>11. \A k \in 1 .. turn + 1 : processed'[k] = found'[k]
  <2> SUFFICES ASSUME NEW k \in 1 .. turn + 1 PROVE processed'[k] = found'[k]
    OBVIOUS
  <2>1. k \in 1 .. Len(found) /\ (k \in 1 .. turn \/ k = turn + 1)
    BY <1>2, <1>9
  <2> QED BY <1>2, <1>8, <1>10, <2>1
<1>12. Ordered(V!Reach(edges', found'[1]), found')
  BY <1>1, <1>7 DEF w
<1>13. turn' \in 0 .. Len(found') /\ Len(found') > 0 /\ ~past'
  BY <1>1, <1>2, <1>8, <1>9
<1>14. Linked(edges', found', turn') /\ Closed(edges', found', turn')
  BY <1>1, <1>7
<1> QED BY <1>1, <1>7, <1>8, <1>10, <1>11, <1>12, <1>13, <1>14 DEF VisitInv

LEMMA NextVisitInv ==
  ASSUME V!VisitAssumption
  PROVE  VisitInv /\ [V!Next]_(V!vars) => VisitInv'
<1> SUFFICES ASSUME VisitInv, [V!Next]_(V!vars) PROVE VisitInv'
  OBVIOUS
<1>1. CASE V!Examine
  BY <1>1, ExamineKeeps
<1>2. CASE V!Past
  BY <1>2 DEF V!Past, VisitInv
<1>3. CASE UNCHANGED V!vars
  BY <1>3 DEF V!vars, VisitInv
<1> QED BY <1>1, <1>2, <1>3 DEF V!Next

\* Each vertex in the list is reached in fewer steps than its place.
LEMMA ListReached ==
  ASSUME NEW e, NEW b, NEW w, Steps(w, e, b), NEW s \in Seq(Vertices), s[1] = b, NEW t \in 0 .. Len(s),
         Linked(e, s, t)
  PROVE  \A k \in 1 .. Len(s) : s[k] \in w[k - 1]
<1> DEFINE S == {m \in Nat : \A k \in 1 .. Len(s) : k <= m + 1 => s[k] \in w[k - 1]}
<1>1. 0 \in S
  <2> SUFFICES ASSUME NEW k \in 1 .. Len(s), k <= 1 PROVE s[k] \in w[k - 1]
    OBVIOUS
  <2>1. k = 1 /\ k - 1 = 0
    OBVIOUS
  <2>2. b \in w[0]
    BY DEF Steps
  <2> QED BY <2>1, <2>2
<1>2. ASSUME NEW m \in Nat, m \in S PROVE m + 1 \in S
  <2> SUFFICES ASSUME NEW k \in 1 .. Len(s), k <= (m + 1) + 1 PROVE s[k] \in w[k - 1]
    OBVIOUS
  <2>1. CASE k <= m + 1
    BY <1>2, <2>1
  <2>2. CASE k = m + 2
    <3>1. k \in 2 .. Len(s) /\ k - 2 \in Nat /\ (k - 2) + 1 = k - 1
      BY <2>2
    <3>2. PICK l \in 1 .. t : l < k /\ <<s[l], s[k]>> \in e
      BY <3>1 DEF Linked
    <3>3. l \in 1 .. Len(s) /\ l <= m + 1 /\ l - 1 \in Nat /\ l - 1 <= k - 2
      BY <2>2, <3>2
    <3>4. s[l] \in w[l - 1]
      BY <1>2, <3>3
    <3>5. w[l - 1] \subseteq w[k - 2]
      BY <3>1, <3>3, MoreSteps
    <3>6. s[k] \in Vertices
      OBVIOUS
    <3>7. s[k] \in w[(k - 2) + 1]
      BY <3>1, <3>2, <3>4, <3>5, <3>6, OneMore
    <3> QED BY <3>1, <3>7
  <2> QED BY <2>1, <2>2
<1>3. Nat \subseteq S
  <2> HIDE DEF S
  <2> QED BY <1>1, <1>2, SetInduction
<1> SUFFICES ASSUME NEW k \in 1 .. Len(s) PROVE s[k] \in w[k - 1]
  OBVIOUS
<1>4. k - 1 \in Nat /\ k <= (k - 1) + 1
  OBVIOUS
<1> QED BY <1>3, <1>4

\* What is reached is in the list when all in it were processed.
LEMMA ReachedListed ==
  ASSUME NEW e, NEW b, NEW w, Steps(w, e, b), NEW s \in Seq(Vertices), Len(s) > 0, s[1] = b,
         Closed(e, s, Len(s))
  PROVE  \A n \in Nat : \A v \in w[n] : \E k \in 1 .. Len(s) : s[k] = v
<1> DEFINE S == {n \in Nat : \A v \in w[n] : \E k \in 1 .. Len(s) : s[k] = v}
<1>1. 0 \in S
  <2>1. 1 \in 1 .. Len(s) /\ w[0] = {b}
    BY DEF Steps
  <2> QED BY <2>1
<1>2. ASSUME NEW n \in Nat, n \in S PROVE n + 1 \in S
  <2> SUFFICES ASSUME NEW v \in w[n + 1] PROVE \E k \in 1 .. Len(s) : s[k] = v
    OBVIOUS
  <2>1. v \in w[n] \/ v \in V!Beyond(e, w[n])
    BY DEF Steps
  <2>2. CASE v \in w[n]
    BY <1>2, <2>2
  <2>3. CASE v \in V!Beyond(e, w[n])
    <3>1. PICK u \in w[n] : <<u, v>> \in e /\ v \in Vertices
      BY <2>3 DEF V!Beyond
    <3>2. PICK l \in 1 .. Len(s) : s[l] = u
      BY <1>2
    <3> QED BY <3>1, <3>2 DEF Closed
  <2> QED BY <2>1, <2>2, <2>3
<1>3. Nat \subseteq S
  <2> HIDE DEF S
  <2> QED BY <1>1, <1>2, SetInduction
<1> QED BY <1>3

LEMMA InvVisits ==
  ASSUME V!VisitAssumption, VisitInv
  PROVE  V!VisitsInOrder
<1> DEFINE b == found[1]
           w == V!Reach(edges, b)
           c == V!Cardinality(Vertices)
<1>1. /\ found \in Seq(Vertices) /\ Len(found) > 0 /\ IsInjective(found)
      /\ turn \in 0 .. Len(found) /\ processed \in Seq(Vertices) /\ Len(processed) = turn
      /\ \A k \in 1 .. turn : processed[k] = found[k]
      /\ past => turn = Len(found)
      /\ Linked(edges, found, turn) /\ Closed(edges, found, turn) /\ Ordered(w, found)
  BY DEF VisitInv
<1>2. b \in Vertices /\ Steps(w, edges, b)
  BY <1>1, ReachIs
<1>3. c \in Nat /\ Len(found) <= c
  <2>1. IsFiniteSet(Vertices) /\ c = Cardinality(Vertices)
    BY SameNames DEF V!VisitAssumption
  <2> QED BY <1>1, <2>1, FS_CardinalityType, InjectiveLength
<1> HIDE DEF w, c
<1>4. V!IsInjective(processed)
  <2> SUFFICES ASSUME NEW k \in 1 .. turn, NEW l \in 1 .. turn, processed[k] = processed[l] PROVE k = l
    BY <1>1 DEF V!IsInjective
  <2>1. k \in DOMAIN found /\ l \in DOMAIN found /\ found[k] = found[l]
    BY <1>1
  <2> QED BY <1>1, <2>1 DEF IsInjective
<1>5. past => V!Range(processed) = w[c]
  <2> SUFFICES ASSUME past PROVE V!Range(processed) = w[c]
    OBVIOUS
  <2>1. turn = Len(found)
    BY <1>1
  <2>2. ASSUME NEW v \in w[c] PROVE v \in V!Range(processed)
    <3>1. \E k \in 1 .. Len(found) : found[k] = v
      BY <1>1, <1>2, <1>3, <2>1, ReachedListed
    <3> QED BY <1>1, <2>1, <3>1 DEF V!Range
  <2>3. ASSUME NEW k \in 1 .. turn PROVE processed[k] \in w[c]
    <3>1. found[k] \in w[k - 1]
      BY <1>1, <1>2, <2>1, ListReached
    <3>2. k - 1 \in Nat /\ k - 1 <= c
      BY <1>1, <1>3
    <3>3. w[k - 1] \subseteq w[c]
      BY <1>2, <1>3, <3>2, MoreSteps
    <3> QED BY <1>1, <3>1, <3>3
  <2> QED BY <1>1, <2>2, <2>3 DEF V!Range
<1>6. ASSUME NEW n \in 0 .. c, NEW k \in 1 .. turn, NEW j \in 1 .. k - 1, processed[k] \in w[n]
      PROVE  processed[j] \in w[n]
  <2>1. j \in 1 .. turn /\ k \in 1 .. Len(found) /\ n \in Nat
    BY <1>1, <1>3
  <2> QED BY <1>1, <1>6, <2>1 DEF Ordered
<1>7. V!NearestFirst
  BY <1>1, <1>6 DEF V!NearestFirst, w, c
<1> QED BY <1>4, <1>5, <1>7 DEF V!VisitsInOrder, V!VisitsReachable, w, c

\* On any finite map: breadth_first_search processes no vertex twice, none before
\* one that fewer steps lead to, and all that can be reached before it reads behind
\* the end of its list.
THEOREM SearchVisitsInOrder == V!Spec => []VisitsInOrder
<1>1. V!Spec => []VisitInv
  BY VisitAssumed, InitVisitInv, NextVisitInv, PTL DEF V!Spec
<1>2. VisitInv => VisitsInOrder
  BY VisitAssumed, InvVisits DEF VisitsInOrder
<1> QED BY <1>1, <1>2, PTL

------------------------------------------------------------------------------
(* The search for a move: calculateBestOperation judges the moves of a     *)
(* position by the worth and the line of the reply, which are recursive    *)
(* functions on the positions, computed from the deepest up.               *)

\* The greatest of 0 and finitely many numbers.
LEMMA GreatestValue ==
  ASSUME NEW n \in Nat, NEW f \in [1 .. n -> Nat]
  PROVE  \E m \in Nat : /\ m = 0 \/ \E j \in 1 .. n : m = f[j]
                        /\ \A j \in 1 .. n : m >= f[j]
<1> DEFINE Good(k) == \E m \in Nat : /\ m = 0 \/ \E j \in 1 .. k : m = f[j]
                                     /\ \A j \in 1 .. k : m >= f[j]
           N == {k \in Nat : k <= n => Good(k)}
<1>1. 0 \in N
  OBVIOUS
<1>2. ASSUME NEW k \in Nat, k \in N PROVE k + 1 \in N
  <2> SUFFICES ASSUME k + 1 <= n PROVE Good(k + 1)
    OBVIOUS
  <2>1. PICK m \in Nat : (m = 0 \/ \E j \in 1 .. k : m = f[j]) /\ \A j \in 1 .. k : m >= f[j]
    BY <1>2
  <2>2. f[k + 1] \in Nat
    OBVIOUS
  <2>3. CASE m >= f[k + 1]
    <3>1. \A j \in 1 .. k + 1 : m >= f[j]
      <4>1. \A j \in 1 .. k + 1 : j \in 1 .. k \/ j = k + 1
        OBVIOUS
      <4> QED BY <2>1, <2>3, <4>1
    <3>2. m = 0 \/ \E j \in 1 .. k + 1 : m = f[j]
      <4>1. \A j \in 1 .. k : j \in 1 .. k + 1
        OBVIOUS
      <4> QED BY <2>1, <4>1
    <3> QED BY <3>1, <3>2
  <2>4. CASE ~(m >= f[k + 1])
    <3>1. \A j \in 1 .. k + 1 : f[k + 1] >= f[j]
      BY <2>1, <2>2, <2>4
    <3>2. \E j \in 1 .. k + 1 : f[k + 1] = f[j]
      OBVIOUS
    <3> QED BY <2>2, <3>1, <3>2
  <2> QED BY <2>3, <2>4
<1>3. Nat \subseteq N
  <2> HIDE DEF N
  <2> QED BY <1>1, <1>2, SetInduction
<1>4. n \in N
  <2> HIDE DEF N
  <2> QED BY <1>3
<1>5. Good(n)
  BY <1>4
<1> QED BY <1>5

\* The positions, and that before any move; the moves.
Spots == K!Positions \cup {<<>>}
Played == {Moves[j] : j \in 1 .. Len(Moves)}

LEMMA SpotsAre ==
  ASSUME K!ThinkAssumption
  PROVE  /\ MaxDepth \in Nat /\ Len(Moves) \in Nat /\ MaxGain \in Nat
         /\ DOMAIN Moves = 1 .. Len(Moves)
         /\ \A p : p \in Spots <=> p \in Seq(Played) /\ Len(p) <= MaxDepth
         /\ \A p : p \in K!Positions <=> p \in Seq(Played) /\ Len(p) \in 1 .. MaxDepth
<1>1. MaxDepth \in Nat /\ Len(Moves) \in Nat /\ DOMAIN Moves = 1 .. Len(Moves) /\ MaxGain \in Nat
  BY DEF K!ThinkAssumption
<1>2. K!Range(Moves) = Played
  BY <1>1 DEF K!Range, Played
<1>3. K!Positions = UNION {[1 .. n -> Played] : n \in 1 .. MaxDepth}
  BY <1>2 DEF K!Positions
<1>4. ASSUME NEW p PROVE p \in K!Positions <=> p \in Seq(Played) /\ Len(p) \in 1 .. MaxDepth
  <2>1. p \in K!Positions <=> \E n \in 1 .. MaxDepth : p \in [1 .. n -> Played]
    BY <1>3
  <2>2. ASSUME NEW n \in 1 .. MaxDepth, p \in [1 .. n -> Played]
        PROVE  p \in Seq(Played) /\ Len(p) = n
    <3>1. n \in Nat
      BY <1>1
    <3> QED BY <2>2, <3>1
  <2>3. ASSUME p \in Seq(Played) PROVE p \in [1 .. Len(p) -> Played]
    BY <2>3
  <2> QED BY <2>1, <2>2, <2>3
<1>5. ASSUME NEW p PROVE p \in Spots <=> p \in Seq(Played) /\ Len(p) <= MaxDepth
  <2>1. p \in Seq(Played) => (Len(p) <= MaxDepth <=> Len(p) \in 1 .. MaxDepth \/ p = <<>>)
    <3>1. p \in Seq(Played) => Len(p) \in Nat /\ (Len(p) = 0 <=> p = <<>>)
      OBVIOUS
    <3> QED BY <1>1, <3>1
  <2>2. <<>> \in Seq(Played)
    OBVIOUS
  <2> QED BY <1>4, <2>1, <2>2 DEF Spots
<1> QED BY <1>1, <1>4, <1>5

GainFits == K!ThinkAssumption /\ gain \in [K!Positions -> 0 .. MaxGain]

\* How many moves a position has, and what move number j is worth when w tells what
\* the positions are worth.
MoveCount(p) == IF Len(p) = MaxDepth \/ p \in over THEN 0 ELSE Len(Moves)
After(p, j) == Append(p, Moves[j])
Value(w, p, j) == K!evaluate(After(p, j), w[After(p, j)])

LEMMA MoveCountIs ==
  ASSUME K!ThinkAssumption, NEW p \in Spots
  PROVE  /\ MoveCount(p) \in Nat /\ Len(K!possible_moves(p)) = MoveCount(p)
         /\ DOMAIN K!possible_moves(p) = 1 .. MoveCount(p)
         /\ \A j \in 1 .. MoveCount(p) : /\ K!possible_moves(p)[j] = Moves[j] /\ Moves[j] \in Played
                                       /\ After(p, j) \in K!Positions /\ After(p, j) \in Spots
                                       /\ Len(After(p, j)) = Len(p) + 1
<1>1. /\ MaxDepth \in Nat /\ Len(Moves) \in Nat /\ DOMAIN Moves = 1 .. Len(Moves)
      /\ p \in Seq(Played) /\ Len(p) <= MaxDepth /\ Len(p) \in Nat
  BY SpotsAre
<1>2. CASE MoveCount(p) = 0
  <2>1. K!possible_moves(p) = <<>> \/ (K!possible_moves(p) = Moves /\ Len(Moves) = 0)
    BY <1>2 DEF K!possible_moves, MoveCount
  <2> QED BY <1>1, <1>2, <2>1
<1>3. CASE MoveCount(p) # 0
  <2>1. MoveCount(p) = Len(Moves) /\ K!possible_moves(p) = Moves /\ Len(p) # MaxDepth
    BY <1>3 DEF K!possible_moves, MoveCount
  <2>2. ASSUME NEW j \in 1 .. MoveCount(p)
        PROVE  /\ K!possible_moves(p)[j] = Moves[j] /\ Moves[j] \in Played
               /\ After(p, j) \in K!Positions /\ After(p, j) \in Spots
               /\ Len(After(p, j)) = Len(p) + 1
    <3>1. Moves[j] \in Played
      BY <2>1 DEF Played
    <3>2. After(p, j) \in Seq(Played) /\ Len(After(p, j)) = Len(p) + 1
      BY <1>1, <3>1 DEF After
    <3>3. Len(p) + 1 \in 1 .. MaxDepth
      BY <1>1, <2>1
    <3> QED BY <2>1, <3>1, <3>2, <3>3, SpotsAre DEF Spots
  <2> QED BY <1>1, <2>1, <2>2
<1> QED BY <1>2, <1>3

LEMMA MaxIs ==
  ASSUME NEW S \in SUBSET Nat, NEW m \in S, \A x \in S : m >= x
  PROVE  K!Max(S) = m
<1>1. \A y \in S : (\A x \in S : y >= x) => y = m
  OBVIOUS
<1> QED BY <1>1 DEF K!Max

LEMMA MinIs ==
  ASSUME NEW S \in SUBSET Nat, NEW m \in S, \A x \in S : m <= x
  PROVE  K!Min(S) = m
<1>1. \A y \in S : (\A x \in S : y <= x) => y = m
  OBVIOUS
<1> QED BY <1>1 DEF K!Min

LEMMA EvaluateType ==
  ASSUME GainFits, NEW p \in K!Positions, NEW score \in Nat
  PROVE  K!evaluate(p, score) \in Nat
<1>1. gain[p] \in Nat
  BY SpotsAre DEF GainFits
<1> DEFINE g == gain[p]
           S == {score, g}
<1>2. (K!Min(S) = score /\ score <= g) \/ (K!Min(S) = g /\ g <= score)
  <2> HIDE DEF g
  <2>1. CASE score <= g
    <3>1. S \in SUBSET Nat /\ score \in S /\ \A x \in S : score <= x
      BY <1>1, <2>1 DEF g
    <3> HIDE DEF S
    <3> QED BY <2>1, <3>1, MinIs
  <2>2. CASE ~(score <= g)
    <3>1. S \in SUBSET Nat /\ g \in S /\ \A x \in S : g <= x
      BY <1>1, <2>2 DEF g
    <3>2. g <= score
      BY <1>1, <2>2 DEF g
    <3> HIDE DEF S
    <3> QED BY <3>1, <3>2, MinIs
  <2> QED BY <2>1, <2>2
<1>3. g - K!Min(S) \in Nat
  <2> HIDE DEF S
  <2> QED BY <1>1, <1>2
<1>4. g + score \in Nat
  BY <1>1
<1> QED BY <1>3, <1>4 DEF K!evaluate

\* What the recursion makes of w for one position.
WorthBy(w, p) ==
  K!Max({0} \cup {K!evaluate(Append(p, m), w[Append(p, m)]) : m \in K!Range(K!possible_moves(p))})

LEMMA WorthByIs ==
  ASSUME GainFits, NEW p \in Spots, NEW w, \A j \in 1 .. MoveCount(p) : w[After(p, j)] \in Nat
  PROVE  /\ WorthBy(w, p) \in Nat
         /\ WorthBy(w, p) = 0 \/ \E j \in 1 .. MoveCount(p) : WorthBy(w, p) = Value(w, p, j)
         /\ \A j \in 1 .. MoveCount(p) : WorthBy(w, p) >= Value(w, p, j)
<1> DEFINE n == MoveCount(p)
           f == [j \in 1 .. n |-> Value(w, p, j)]
           S == {0} \cup {K!evaluate(Append(p, m), w[Append(p, m)]) : m \in K!Range(K!possible_moves(p))}
<1>1. n \in Nat /\ K!Range(K!possible_moves(p)) = {Moves[j] : j \in 1 .. n}
  <2>1. K!ThinkAssumption
    BY DEF GainFits
  <2>2. /\ n \in Nat /\ DOMAIN K!possible_moves(p) = 1 .. n
        /\ \A j \in 1 .. n : K!possible_moves(p)[j] = Moves[j]
    BY <2>1, MoveCountIs
  <2> QED BY <2>2 DEF K!Range
<1>2. ASSUME NEW j \in 1 .. n PROVE f[j] \in Nat
  <2>1. K!ThinkAssumption
    BY DEF GainFits
  <2>2. After(p, j) \in K!Positions
    BY <2>1, MoveCountIs
  <2> QED BY <2>2, EvaluateType DEF Value
<1>3. S = {0} \cup {f[j] : j \in 1 .. n}
  <2>1. \A j \in 1 .. n : f[j] = K!evaluate(Append(p, Moves[j]), w[Append(p, Moves[j])])
    BY DEF Value, After
  <2> HIDE DEF f, n
  <2> QED BY <1>1, <2>1
<1>4. f \in [1 .. n -> Nat]
  BY <1>2
<1>5. \A j \in 1 .. n : f[j] = Value(w, p, j)
  OBVIOUS
<1> HIDE DEF f, n
<1>6. PICK m \in Nat : /\ m = 0 \/ \E j \in 1 .. n : m = f[j]
                       /\ \A j \in 1 .. n : m >= f[j]
  BY <1>1, <1>4, GreatestValue
<1>7. S \in SUBSET Nat /\ m \in S /\ \A x \in S : m >= x
  <2> HIDE DEF S
  <2> QED BY <1>2, <1>3, <1>6
<1>8. K!Max(S) = m
  <2> HIDE DEF S
  <2> QED BY <1>7, MaxIs
<1>9. WorthBy(w, p) = m
  BY <1>8 DEF WorthBy
<1> QED BY <1>5, <1>6, <1>9 DEF n

LEMMA WorthBySame ==
  ASSUME K!ThinkAssumption, NEW p \in Spots, NEW v, NEW w,
         \A j \in 1 .. MoveCount(p) : v[After(p, j)] = w[After(p, j)]
  PROVE  WorthBy(v, p) = WorthBy(w, p)
<1>1. ASSUME NEW m \in K!Range(K!possible_moves(p))
      PROVE  K!evaluate(Append(p, m), v[Append(p, m)]) = K!evaluate(Append(p, m), w[Append(p, m)])
  <2>1. \E j \in 1 .. MoveCount(p) : m = Moves[j]
    BY MoveCountIs DEF K!Range
  <2>2. v[Append(p, m)] = w[Append(p, m)]
    BY <2>1 DEF After
  <2> QED BY <2>2
<1>2. {K!evaluate(Append(p, m), v[Append(p, m)]) : m \in K!Range(K!possible_moves(p))}
      = {K!evaluate(Append(p, m), w[Append(p, m)]) : m \in K!Range(K!possible_moves(p))}
  BY <1>1, Zenon
<1> QED BY <1>2, Zenon DEF WorthBy

Depths == [p \in Spots |-> Len(p)]

LEMMA DepthsAre ==
  ASSUME K!ThinkAssumption
  PROVE  /\ Depths \in [Spots -> 0 .. MaxDepth]
         /\ \A p \in Spots : \A j \in 1 .. MoveCount(p) :
              After(p, j) \in Spots /\ Depths[After(p, j)] > Depths[p]
<1>1. \A p \in Spots : Len(p) \in 0 .. MaxDepth
  BY SpotsAre
<1>2. ASSUME NEW p \in Spots, NEW j \in 1 .. MoveCount(p)
      PROVE  After(p, j) \in Spots /\ Len(After(p, j)) > Len(p)
  BY <1>1, MoveCountIs
<1> QED BY <1>1, <1>2 DEF Depths

\* The recursion of Worth has a solution, and is a number everywhere.
LEMMA WorthIs ==
  ASSUME GainFits
  PROVE  K!Worth \in [Spots -> Nat] /\ \A p \in Spots : K!Worth[p] = WorthBy(K!Worth, p)
<1> DEFINE step == [w \in [Spots -> Nat] |-> [p \in Spots |-> WorthBy(w, p)]]
           w == K!Worth
<1>1. K!ThinkAssumption /\ MaxDepth \in Nat
  BY SpotsAre DEF GainFits
<1>2. ASSUME NEW f \in [Spots -> Nat], NEW p \in Spots PROVE WorthBy(f, p) \in Nat
  <2>1. \A j \in 1 .. MoveCount(p) : f[After(p, j)] \in Nat
    BY <1>1, DepthsAre
  <2> QED BY <2>1, WorthByIs
<1>3. step \in [[Spots -> Nat] -> [Spots -> Nat]]
  BY <1>2
<1>4. \A f \in [Spots -> Nat] : step[f] = [p \in Spots |-> WorthBy(f, p)]
  OBVIOUS
<1>5. ASSUME NEW f \in [Spots -> Nat], NEW g \in [Spots -> Nat], NEW p \in Spots,
             \A q \in Spots : Depths[q] > Depths[p] => f[q] = g[q]
      PROVE  step[f][p] = step[g][p]
  <2>1. \A j \in 1 .. MoveCount(p) : f[After(p, j)] = g[After(p, j)]
    BY <1>1, <1>5, DepthsAre
  <2>2. WorthBy(f, p) = WorthBy(g, p)
    BY <1>1, <2>1, WorthBySame
  <2> QED BY <1>4, <2>2
<1> HIDE DEF step
<1>6. Deepens(Spots, Nat, MaxDepth, Depths, step)
  BY <1>1, <1>3, <1>5, DepthsAre DEF Deepens
<1>7. PICK f \in [Spots -> Nat] : f = step[f]
  BY <1>1, <1>6, ComputedFromDeeper
<1>8. f = [p \in Spots |-> WorthBy(f, p)]
  BY <1>4, <1>7
<1>9. w = CHOOSE v : v = [p \in Spots |-> WorthBy(v, p)]
  BY DEF K!Worth, WorthBy, Spots
<1>10. w = [p \in Spots |-> WorthBy(w, p)]
  BY <1>8, <1>9
<1> HIDE DEF w
<1>11. \A p \in Spots : w[p] = WorthBy(w, p)
  BY <1>10
<1> DEFINE N == {n \in Nat : \A p \in Spots : Depths[p] + n > MaxDepth => w[p] \in Nat}
<1>12. 0 \in N
  BY <1>1, DepthsAre
<1>13. ASSUME NEW n \in Nat, n \in N PROVE n + 1 \in N
  <2> SUFFICES ASSUME NEW p \in Spots, Depths[p] + (n + 1) > MaxDepth PROVE w[p] \in Nat
    OBVIOUS
  <2>1. ASSUME NEW j \in 1 .. MoveCount(p) PROVE w[After(p, j)] \in Nat
    <3>1. After(p, j) \in Spots /\ Depths[After(p, j)] > Depths[p]
      BY <1>1, DepthsAre
    <3>2. Depths[After(p, j)] + n > MaxDepth
      BY <1>1, <3>1, DepthsAre
    <3> QED BY <1>13, <3>1, <3>2
  <2> QED BY <1>11, <2>1, WorthByIs
<1>14. Nat \subseteq N
  <2> HIDE DEF N
  <2> QED BY <1>12, <1>13, SetInduction
<1>15. ASSUME NEW p \in Spots PROVE w[p] \in Nat
  <2>1. MaxDepth + 1 \in N
    BY <1>1, <1>14
  <2>2. Depths[p] + (MaxDepth + 1) > MaxDepth
    BY <1>1, DepthsAre
  <2> QED BY <2>1, <2>2
<1>16. w \in [Spots -> Nat]
  BY <1>10, <1>15
<1> QED BY <1>11, <1>16 DEF w

\* w tells what each position is worth, and b its line of best moves.
WorthFits(w) ==
  /\ w \in [Spots -> Nat]
  /\ \A p \in Spots :
       /\ w[p] = 0 \/ \E j \in 1 .. MoveCount(p) : w[p] = Value(w, p, j)
       /\ \A j \in 1 .. MoveCount(p) : w[p] >= Value(w, p, j)

\* Move j is the first of those of p that are worth as much as p.
IsFirst(w, p, j) ==
  Value(w, p, j) = w[p] /\ \A k \in 1 .. MoveCount(p) : Value(w, p, k) = w[p] => j <= k

LineFits(w, b) ==
  \A p \in Spots :
    /\ w[p] = 0 => b[p] = <<>>
    /\ w[p] # 0 => \E j \in 1 .. MoveCount(p) : IsFirst(w, p, j) /\ b[p] = <<Moves[j]>> \o b[After(p, j)]

LEMMA WorthOfPositions == GainFits => WorthFits(K!Worth)
<1> SUFFICES ASSUME GainFits PROVE WorthFits(K!Worth)
  OBVIOUS
<1> DEFINE w == K!Worth
<1>1. w \in [Spots -> Nat] /\ \A p \in Spots : w[p] = WorthBy(w, p)
  BY WorthIs
<1> HIDE DEF w
<1>2. ASSUME NEW p \in Spots
      PROVE  /\ w[p] = 0 \/ \E j \in 1 .. MoveCount(p) : w[p] = Value(w, p, j)
             /\ \A j \in 1 .. MoveCount(p) : w[p] >= Value(w, p, j)
  <2>1. \A j \in 1 .. MoveCount(p) : w[After(p, j)] \in Nat
    BY <1>1, DepthsAre DEF GainFits
  <2> QED BY <1>1, <2>1, WorthByIs
<1> QED BY <1>1, <1>2 DEF WorthFits, w

\* What the recursion makes of b for one position.
BestMoves(p) ==
  {i \in DOMAIN K!possible_moves(p) :
     K!evaluate(Append(p, K!possible_moves(p)[i]), K!Worth[Append(p, K!possible_moves(p)[i])]) = K!Worth[p]}
LineBy(b, p) ==
  IF K!Worth[p] = 0 THEN <<>>
  ELSE <<K!possible_moves(p)[K!Min(BestMoves(p))]>>
         \o b[Append(p, K!possible_moves(p)[K!Min(BestMoves(p))])]

LEMMA LineByIs ==
  ASSUME GainFits, NEW p \in Spots, K!Worth[p] # 0
  PROVE  \E j \in 1 .. MoveCount(p) :
           IsFirst(K!Worth, p, j) /\ \A b : LineBy(b, p) = <<Moves[j]>> \o b[After(p, j)]
<1> DEFINE w == K!Worth
           j == K!Min(BestMoves(p))
           n == MoveCount(p)
<1>1. K!ThinkAssumption /\ WorthFits(w)
  BY WorthOfPositions DEF GainFits
<1>2. /\ n \in Nat /\ DOMAIN K!possible_moves(p) = 1 .. n
      /\ \A k \in 1 .. n : K!possible_moves(p)[k] = Moves[k]
  BY <1>1, MoveCountIs
<1>3. BestMoves(p) = {k \in 1 .. n : Value(w, p, k) = w[p]}
  BY <1>2 DEF BestMoves, Value, After
<1> HIDE DEF w, n
<1>4. PICK m \in BestMoves(p) : \A k \in BestMoves(p) : m <= k
  <2>1. BestMoves(p) \in SUBSET Nat /\ BestMoves(p) # {}
    <3>1. \E k \in 1 .. n : w[p] = Value(w, p, k)
      BY <1>1 DEF WorthFits, n, w
    <3> QED BY <1>2, <1>3, <3>1
  <2> QED BY <2>1, LeastNumber
<1>5. j = m
  <2>1. BestMoves(p) \in SUBSET Nat
    BY <1>2, <1>3
  <2> QED BY <1>4, <2>1, MinIs
<1>6. j \in 1 .. n /\ Value(w, p, j) = w[p] /\ \A k \in 1 .. n : Value(w, p, k) = w[p] => j <= k
  BY <1>3, <1>4, <1>5
<1>7. \A b : LineBy(b, p) = <<K!possible_moves(p)[j]>> \o b[Append(p, K!possible_moves(p)[j])]
  BY Zenon DEF LineBy
<1> HIDE DEF j
<1>8. K!possible_moves(p)[j] = Moves[j]
  BY <1>2, <1>6
<1>9. \A b : LineBy(b, p) = <<Moves[j]>> \o b[After(p, j)]
  BY <1>7, <1>8, Zenon DEF After
<1> QED BY <1>6, <1>9 DEF IsFirst, n, w

LEMMA LineIs ==
  ASSUME GainFits
  PROVE  \A p \in Spots : K!BestLine[p] = LineBy(K!BestLine, p)
<1> DEFINE T == Seq(Played)
           step == [b \in [Spots -> T] |-> [p \in Spots |-> LineBy(b, p)]]
           l == K!BestLine
<1>1. K!ThinkAssumption /\ MaxDepth \in Nat
  BY SpotsAre DEF GainFits
<1>2. ASSUME NEW f \in [Spots -> T], NEW p \in Spots PROVE LineBy(f, p) \in T
  <2>1. CASE K!Worth[p] = 0
    BY <2>1 DEF LineBy
  <2>2. CASE K!Worth[p] # 0
    <3>1. PICK j \in 1 .. MoveCount(p) : LineBy(f, p) = <<Moves[j]>> \o f[After(p, j)]
      BY <2>2, LineByIs
    <3>2. Moves[j] \in Played /\ f[After(p, j)] \in T
      BY <1>1, MoveCountIs
    <3> QED BY <3>1, <3>2
  <2> QED BY <2>1, <2>2
<1>3. step \in [[Spots -> T] -> [Spots -> T]]
  BY <1>2
<1>4. \A f \in [Spots -> T] : step[f] = [p \in Spots |-> LineBy(f, p)]
  OBVIOUS
<1>5. ASSUME NEW f \in [Spots -> T], NEW g \in [Spots -> T], NEW p \in Spots,
             \A q \in Spots : Depths[q] > Depths[p] => f[q] = g[q]
      PROVE  step[f][p] = step[g][p]
  <2>1. LineBy(f, p) = LineBy(g, p)
    <3>1. CASE K!Worth[p] = 0
      BY <3>1 DEF LineBy
    <3>2. CASE K!Worth[p] # 0
      <4>1. PICK j \in 1 .. MoveCount(p) : \A b : LineBy(b, p) = <<Moves[j]>> \o b[After(p, j)]
        BY <3>2, LineByIs
      <4>2. f[After(p, j)] = g[After(p, j)]
        BY <1>1, <1>5, DepthsAre
      <4> QED BY <4>1, <4>2
    <3> QED BY <3>1, <3>2
  <2> QED BY <1>4, <2>1
<1> HIDE DEF step
<1>6. Deepens(Spots, T, MaxDepth, Depths, step)
  BY <1>1, <1>3, <1>5, DepthsAre DEF Deepens
<1>7. PICK f \in [Spots -> T] : f = step[f]
  <2>1. <<>> \in T
    OBVIOUS
  <2> HIDE DEF T
  <2> QED BY <1>1, <1>6, <2>1, ComputedFromDeeper
<1>8. f = [p \in Spots |-> LineBy(f, p)]
  BY <1>4, <1>7
<1>9. l = CHOOSE b : b = [p \in Spots |-> LineBy(b, p)]
  BY DEF K!BestLine, LineBy, BestMoves, Spots
<1> HIDE DEF l
<1>10. l = [p \in Spots |-> LineBy(l, p)]
  BY <1>8, <1>9
<1>11. \A p \in Spots : l[p] = LineBy(l, p)
  BY <1>10
<1> QED BY <1>11 DEF l

LEMMA LineOfPositions == GainFits => LineFits(K!Worth, K!BestLine)
<1> SUFFICES ASSUME GainFits, NEW p \in Spots
             PROVE  /\ K!Worth[p] = 0 => K!BestLine[p] = <<>>
                    /\ K!Worth[p] # 0 => \E j \in 1 .. MoveCount(p) :
                         IsFirst(K!Worth, p, j) /\ K!BestLine[p] = <<Moves[j]>> \o K!BestLine[After(p, j)]
  BY DEF LineFits
<1>1. K!BestLine[p] = LineBy(K!BestLine, p)
  BY LineIs
<1>2. CASE K!Worth[p] = 0
  BY <1>1, <1>2 DEF LineBy
<1>3. CASE K!Worth[p] # 0
  <2>1. PICK j \in 1 .. MoveCount(p) :
          IsFirst(K!Worth, p, j) /\ \A b : LineBy(b, p) = <<Moves[j]>> \o b[After(p, j)]
    BY <1>3, LineByIs
  <2> QED BY <1>1, <1>3, <2>1
<1> QED BY <1>2, <1>3

\* The record of a call for p that has judged its first t moves.
Judged(w, b, p, f, t) ==
  /\ f.ops = SubSeq(K!possible_moves(p), t + 1, MoveCount(p))
  /\ \A j \in 1 .. t : f.maxScore >= Value(w, p, j)
  /\ f.maxScore = 0 => f.best = <<>>
  /\ f.maxScore # 0 => \E j \in 1 .. t :
       /\ f.maxScore = Value(w, p, j) /\ \A k \in 1 .. t : Value(w, p, k) = f.maxScore => j <= k
       /\ f.best = <<Moves[j]>> \o b[After(p, j)]

CallFits(w, b, p, f) == \E t \in 0 .. MoveCount(p) : Judged(w, b, p, f, t)

Lines(b) == {<<>>} \cup {<<m>> \o b[p] : m \in Played, p \in Spots}
Call(b) == [best : Lines(b), maxScore : Nat, ops : Seq(Played)]

LEMMA ValueType ==
  ASSUME GainFits, NEW w, WorthFits(w), NEW p \in Spots, NEW j \in 1 .. MoveCount(p)
  PROVE  Value(w, p, j) \in Nat
<1>1. After(p, j) \in K!Positions /\ After(p, j) \in Spots
  BY MoveCountIs DEF GainFits
<1>2. w[After(p, j)] \in Nat
  BY <1>1 DEF WorthFits
<1> QED BY <1>1, <1>2, EvaluateType DEF Value

LEMMA MovesOf ==
  ASSUME K!ThinkAssumption, NEW p \in Spots
  PROVE  K!possible_moves(p) \in Seq(Played)
<1>1. Moves \in Seq(Played) /\ <<>> \in Seq(Played)
  BY DEF K!ThinkAssumption, Played
<1> QED BY <1>1 DEF K!possible_moves

\* A call that has judged every move has the worth of its position and the best
\* line.
LEMMA JudgedAll ==
  ASSUME GainFits, NEW w, NEW b, WorthFits(w), LineFits(w, b), NEW p \in Spots,
         NEW f \in Call(b), CallFits(w, b, p, f), f.ops = <<>>
  PROVE  f.maxScore = w[p] /\ f.best = b[p]
<1> DEFINE n == MoveCount(p)
<1>1. n \in Nat /\ Len(K!possible_moves(p)) = n /\ K!possible_moves(p) \in Seq(Played)
  BY MoveCountIs, MovesOf DEF GainFits
<1>2. PICK t \in 0 .. n : Judged(w, b, p, f, t)
  BY DEF CallFits
<1>3. t = n
  <2> DEFINE ms == K!possible_moves(p)
             s == SubSeq(ms, t + 1, n)
  <2>1. s = <<>>
    BY <1>2 DEF Judged
  <2> HIDE DEF n, ms
  <2>2. Len(s) = n - t
    BY <1>1 DEF ms
  <2> HIDE DEF s
  <2>3. Len(s) = 0 /\ t \in Nat
    BY <1>1, <2>1
  <2> QED BY <1>1, <2>2, <2>3
<1>4. /\ \A j \in 1 .. n : f.maxScore >= Value(w, p, j)
      /\ f.maxScore = 0 => f.best = <<>>
      /\ f.maxScore # 0 => \E j \in 1 .. n :
           /\ f.maxScore = Value(w, p, j) /\ \A k \in 1 .. n : Value(w, p, k) = f.maxScore => j <= k
           /\ f.best = <<Moves[j]>> \o b[After(p, j)]
  BY <1>2, <1>3 DEF Judged
<1>5. /\ w[p] \in Nat
      /\ w[p] = 0 \/ \E j \in 1 .. n : w[p] = Value(w, p, j)
      /\ \A j \in 1 .. n : w[p] >= Value(w, p, j)
  BY DEF WorthFits
<1>6. f.maxScore \in Nat
  BY DEF Call
<1>7. \A j \in 1 .. n : Value(w, p, j) \in Nat
  BY ValueType
<1> HIDE DEF n
<1>8. f.maxScore = w[p]
  <2>1. f.maxScore = 0 \/ \E j \in 1 .. n : f.maxScore = Value(w, p, j)
    BY <1>4
  <2>2. f.maxScore <= w[p]
    BY <1>5, <1>6, <1>7, <2>1
  <2>3. w[p] <= f.maxScore
    BY <1>4, <1>5, <1>6, <1>7
  <2> QED BY <1>5, <1>6, <2>2, <2>3
<1>9. CASE w[p] = 0
  BY <1>4, <1>8, <1>9 DEF LineFits
<1>10. CASE w[p] # 0
  <2>1. PICK j \in 1 .. n : IsFirst(w, p, j) /\ b[p] = <<Moves[j]>> \o b[After(p, j)]
    BY <1>10 DEF LineFits, n
  <2>2. PICK i \in 1 .. n : /\ w[p] = Value(w, p, i) /\ \A k \in 1 .. n : Value(w, p, k) = w[p] => i <= k
                            /\ f.best = <<Moves[i]>> \o b[After(p, i)]
    BY <1>4, <1>8, <1>10
  <2>3. Value(w, p, j) = w[p] /\ \A k \in 1 .. n : Value(w, p, k) = w[p] => j <= k
    BY <2>1 DEF IsFirst, n
  <2>4. i <= j /\ j <= i
    BY <2>2, <2>3
  <2>5. i = j
    BY <1>1, <2>4 DEF n
  <2> QED BY <1>8, <2>1, <2>2, <2>5
<1> QED BY <1>9, <1>10

\* A call judges its next move by the worth and the line of the reply.
LEMMA JudgesNext ==
  ASSUME GainFits, NEW w, NEW b, WorthFits(w), LineFits(w, b), NEW p \in Spots,
         NEW f \in Call(b), CallFits(w, b, p, f), f.ops # <<>>
  PROVE  LET q == Append(p, Head(f.ops))
             g == K!Judge(f, b[q], K!evaluate(q, w[q]))
         IN  q \in K!Positions /\ g \in Call(b) /\ CallFits(w, b, p, g)
<1> DEFINE n == MoveCount(p)
           ms == K!possible_moves(p)
<1>1. /\ n \in Nat /\ Len(ms) = n /\ ms \in Seq(Played)
      /\ \A j \in 1 .. n : /\ ms[j] = Moves[j] /\ Moves[j] \in Played
                           /\ After(p, j) \in K!Positions /\ After(p, j) \in Spots
  BY MoveCountIs, MovesOf DEF GainFits
<1>2. PICK t \in 0 .. n : Judged(w, b, p, f, t)
  BY DEF CallFits
<1> HIDE DEF n, ms
<1>3. f.ops = SubSeq(ms, t + 1, n)
  BY <1>2 DEF Judged, n, ms
<1>4. t + 1 \in 1 .. n /\ Head(f.ops) = Moves[t + 1] /\ Tail(f.ops) = SubSeq(ms, t + 2, n)
      /\ Tail(f.ops) \in Seq(Played)
  <2>1. t # n
    BY <1>1, <1>3
  <2>2. t + 1 \in 1 .. n /\ t \in Nat
    BY <1>1, <2>1
  <2> DEFINE s == SubSeq(ms, t + 1, n)
             r == SubSeq(ms, t + 2, n)
  <2>3. /\ s \in Seq(Played) /\ Len(s) = n - t /\ \A i \in 1 .. n - t : s[i] = ms[i + t]
        /\ r \in Seq(Played) /\ Len(r) = n - t - 1 /\ \A i \in 1 .. n - t - 1 : r[i] = ms[i + t + 1]
    BY <1>1, <2>2
  <2> HIDE DEF s, r
  <2>4. s # <<>>
    BY <1>1, <2>2, <2>3
  <2>5. /\ Head(s) = s[1] /\ Tail(s) \in Seq(Played) /\ Len(Tail(s)) = n - t - 1
        /\ \A i \in 1 .. n - t - 1 : Tail(s)[i] = s[i + 1]
    BY <1>1, <2>2, <2>3, <2>4
  <2>6. Head(s) = Moves[t + 1]
    BY <1>1, <2>2, <2>3, <2>5
  <2>7. \A i \in 1 .. n - t - 1 : Tail(s)[i] = r[i]
    BY <1>1, <2>2, <2>3, <2>5
  <2>8. Tail(s) = r
    BY <2>3, <2>5, <2>7, SeqEqual
  <2> QED BY <1>3, <2>2, <2>5, <2>6, <2>8 DEF s, r
<1> DEFINE q == Append(p, Head(f.ops))
           v == K!evaluate(q, w[q])
           g == K!Judge(f, b[q], v)
<1>5. q = After(p, t + 1) /\ q \in K!Positions /\ q \in Spots
  BY <1>1, <1>4 DEF After
<1>6. v = Value(w, p, t + 1) /\ v \in Nat
  <2>1. v = Value(w, p, t + 1)
    BY <1>5 DEF Value
  <2> QED BY <1>4, <2>1, ValueType DEF n
<1> HIDE DEF q, v
<1>7. f.maxScore \in Nat /\ f.best \in Lines(b) /\ f.ops \in Seq(Played)
      /\ f = [best |-> f.best, maxScore |-> f.maxScore, ops |-> f.ops]
  BY DEF Call
<1>8. <<Head(f.ops)>> \o b[q] \in Lines(b)
  <2>1. Head(f.ops) \in Played
    BY <1>1, <1>4
  <2>2. \A m \in Played : \A s \in Spots : <<m>> \o b[s] \in Lines(b)
    BY DEF Lines
  <2> QED BY <1>5, <2>1, <2>2
<1> DEFINE l == <<Head(f.ops)>> \o b[q]
           rest == Tail(f.ops)
<1>9. /\ l \in Lines(b) /\ rest \in Seq(Played)
      /\ rest = SubSeq(ms, t + 2, n) /\ l = <<Moves[t + 1]>> \o b[After(p, t + 1)]
  BY <1>4, <1>5, <1>8
<1>10. CASE v > f.maxScore
  <2>1. g = [best |-> l, maxScore |-> v, ops |-> rest]
    BY <1>7, <1>10 DEF K!Judge
  <2> HIDE DEF g, l, rest
  <2>2. g \in Call(b)
    BY <1>6, <1>9, <2>1 DEF Call
  <2>3. \A j \in 1 .. t : f.maxScore >= Value(w, p, j) /\ Value(w, p, j) \in Nat
    <3>1. \A j \in 1 .. t : j \in 1 .. n
      BY <1>1
    <3> QED BY <1>2, <3>1, ValueType DEF Judged, n
  <2>4. \A j \in 1 .. t + 1 : j \in 1 .. t \/ j = t + 1
    BY <1>1
  <2>5. \A j \in 1 .. t + 1 : v >= Value(w, p, j)
    BY <1>6, <1>7, <1>10, <2>3, <2>4
  <2>6. \A k \in 1 .. t + 1 : Value(w, p, k) = v => t + 1 <= k
    BY <1>1, <1>6, <1>7, <1>10, <2>3, <2>4
  <2>7. v # 0 /\ t + 1 \in 1 .. t + 1 /\ (t + 1) + 1 = t + 2
    BY <1>1, <1>6, <1>7, <1>10
  <2>8. Judged(w, b, p, g, t + 1)
    <3>1. g.ops = SubSeq(ms, t + 2, n) /\ g.maxScore = v /\ g.best = <<Moves[t + 1]>> \o b[After(p, t + 1)]
      BY <1>9, <2>1
    <3> QED BY <1>6, <2>5, <2>6, <2>7, <3>1 DEF Judged, n, ms
  <2>9. CallFits(w, b, p, g)
    <3>1. t + 1 \in 0 .. MoveCount(p)
      BY <1>1, <1>4 DEF n
    <3> QED BY <2>8, <3>1 DEF CallFits
  <2> QED BY <1>5, <2>2, <2>9 DEF q, v, g
<1>11. CASE ~(v > f.maxScore)
  <2>1. g = [best |-> f.best, maxScore |-> f.maxScore, ops |-> rest]
    BY <1>7, <1>11 DEF K!Judge
  <2> HIDE DEF g, l, rest
  <2>2. g \in Call(b)
    BY <1>7, <1>9, <2>1 DEF Call
  <2>3. \A j \in 1 .. t + 1 : j \in 1 .. t \/ j = t + 1
    BY <1>1
  <2>4. \A j \in 1 .. t + 1 : f.maxScore >= Value(w, p, j)
    BY <1>2, <1>6, <1>7, <1>11, <2>3 DEF Judged
  <2>5. f.maxScore = 0 => f.best = <<>>
    BY <1>2 DEF Judged
  <2>6. f.maxScore # 0 => \E j \in 1 .. t + 1 :
          /\ f.maxScore = Value(w, p, j) /\ \A k \in 1 .. t + 1 : Value(w, p, k) = f.maxScore => j <= k
          /\ f.best = <<Moves[j]>> \o b[After(p, j)]
    <3> SUFFICES ASSUME f.maxScore # 0
                 PROVE  \E j \in 1 .. t + 1 :
                          /\ f.maxScore = Value(w, p, j)
                          /\ \A k \in 1 .. t + 1 : Value(w, p, k) = f.maxScore => j <= k
                          /\ f.best = <<Moves[j]>> \o b[After(p, j)]
      OBVIOUS
    <3>1. PICK j \in 1 .. t :
            /\ f.maxScore = Value(w, p, j) /\ \A k \in 1 .. t : Value(w, p, k) = f.maxScore => j <= k
            /\ f.best = <<Moves[j]>> \o b[After(p, j)]
      BY <1>2 DEF Judged
    <3>2. j \in 1 .. t + 1 /\ j <= t + 1
      BY <1>1
    <3>3. \A k \in 1 .. t + 1 : Value(w, p, k) = f.maxScore => j <= k
      BY <2>3, <3>1, <3>2
    <3> QED BY <3>1, <3>2, <3>3
  <2>7. Judged(w, b, p, g, t + 1)
    <3>1. g.ops = SubSeq(ms, (t + 1) + 1, n) /\ g.maxScore = f.maxScore /\ g.best = f.best
      <4>1. t + 2 = (t + 1) + 1
        BY <1>1
      <4> QED BY <1>9, <2>1, <4>1
    <3> QED BY <2>4, <2>5, <2>6, <3>1 DEF Judged, n, ms
  <2>8. CallFits(w, b, p, g)
    <3>1. t + 1 \in 0 .. MoveCount(p)
      BY <1>1, <1>4 DEF n
    <3> QED BY <2>7, <3>1 DEF CallFits
  <2> QED BY <1>5, <2>2, <2>8 DEF q, v, g
<1> QED BY <1>10, <1>11

LEMMA NewCall ==
  ASSUME GainFits, NEW w, NEW b, NEW p \in Spots
  PROVE  K!Frame(p) \in Call(b) /\ CallFits(w, b, p, K!Frame(p))
<1> DEFINE f == K!Frame(p)
           ms == K!possible_moves(p)
<1>1. ms \in Seq(Played) /\ Len(ms) = MoveCount(p) /\ MoveCount(p) \in Nat
  BY MoveCountIs, MovesOf DEF GainFits
<1>2. f = [best |-> <<>>, maxScore |-> 0, ops |-> ms]
  BY DEF K!Frame
<1> HIDE DEF f
<1>3. f \in Call(b)
  BY <1>1, <1>2 DEF Call, Lines
<1>4. Judged(w, b, p, f, 0)
  <2>1. ms = SubSeq(ms, 0 + 1, MoveCount(p))
    <3> HIDE DEF ms
    <3> QED BY <1>1
  <2>2. f.ops = ms /\ f.maxScore = 0 /\ f.best = <<>>
    BY <1>2
  <2> QED BY <2>1, <2>2 DEF Judged
<1>5. 0 \in 0 .. MoveCount(p)
  BY <1>1
<1> QED BY <1>3, <1>4, <1>5 DEF CallFits, f

\* Each call has judged moves of the position the status had when it was called,
\* and the one that it is trying is the next move of the history.
CallsFit(w, b) ==
  /\ frames \in Seq(Call(b))
  /\ Len(history) = IF frames = <<>> THEN 0 ELSE Len(frames) - 1
  /\ \A i \in 1 .. Len(frames) : CallFits(w, b, SubSeq(history, 1, i - 1), frames[i])
  /\ \A i \in 1 .. Len(frames) - 1 : frames[i].ops # <<>> /\ history[i] = Head(frames[i].ops)
  /\ frames = <<>> => result = b[<<>>]

SearchInv ==
  /\ gain \in [K!Positions -> 0 .. MaxGain]
  /\ history \in Spots /\ marks = [i \in 1 .. Len(history) |-> i - 1]
  /\ \A w, b : WorthFits(w) /\ LineFits(w, b) => CallsFit(w, b)

LEMMA InitSearchInv == K!ThinkAssumption /\ K!Init => SearchInv
<1> SUFFICES ASSUME K!ThinkAssumption, K!Init PROVE SearchInv
  OBVIOUS
<1>1. /\ gain \in [K!Positions -> 0 .. MaxGain] /\ history = <<>> /\ marks = <<>>
      /\ frames = <<K!Frame(<<>>)>>
  BY DEF K!Init
<1>2. GainFits /\ <<>> \in Spots
  BY <1>1 DEF GainFits, Spots
<1>3. ASSUME NEW w, NEW b, WorthFits(w), LineFits(w, b) PROVE CallsFit(w, b)
  <2> DEFINE f == K!Frame(<<>>)
  <2>1. f \in Call(b) /\ CallFits(w, b, <<>>, f)
    BY <1>2, NewCall
  <2> HIDE DEF f
  <2>2. frames = <<f>> /\ frames \in Seq(Call(b)) /\ Len(frames) = 1 /\ frames # <<>>
    BY <1>1, <2>1 DEF f
  <2>3. Len(history) = 0 /\ SubSeq(history, 1, 0) = <<>>
    BY <1>1
  <2>4. \A i \in 1 .. Len(frames) : i - 1 = 0 /\ frames[i] = f
    BY <2>2
  <2>5. \A i \in 1 .. Len(frames) : CallFits(w, b, SubSeq(history, 1, i - 1), frames[i])
    BY <2>1, <2>3, <2>4
  <2> QED BY <2>2, <2>3, <2>5 DEF CallsFit
<1>4. marks = [i \in 1 .. Len(history) |-> i - 1]
  <2>1. 1 .. Len(history) = {}
    BY <1>1
  <2> QED BY <1>1, <2>1
<1> QED BY <1>1, <1>2, <1>3, <1>4 DEF SearchInv

\* The AI and the ends of the game do not change.
LEMMA SameGame ==
  ASSUME UNCHANGED <<gain, rival, over>>
  PROVE  /\ \A p : MoveCount(p)' = MoveCount(p) /\ K!possible_moves(p)' = K!possible_moves(p)
         /\ \A w, p, j : Value(w, p, j)' = Value(w, p, j)
         /\ \A w : WorthFits(w)' <=> WorthFits(w)
         /\ \A w, b : LineFits(w, b)' <=> LineFits(w, b)
         /\ \A w, b, p, f : CallFits(w, b, p, f)' <=> CallFits(w, b, p, f)
<1>1. \A p : MoveCount(p)' = MoveCount(p) /\ K!possible_moves(p)' = K!possible_moves(p)
  BY DEF MoveCount, K!possible_moves
<1>2. \A w, p, j : Value(w, p, j)' = Value(w, p, j)
  BY DEF Value, K!evaluate
<1>3. \A w : WorthFits(w)' <=> WorthFits(w)
  BY <1>1, <1>2 DEF WorthFits
<1>4. \A w, b : LineFits(w, b)' <=> LineFits(w, b)
  <2>1. \A w, p, j : IsFirst(w, p, j)' <=> IsFirst(w, p, j)
    BY <1>1, <1>2 DEF IsFirst
  <2> QED BY <1>1, <2>1 DEF LineFits, After
<1>5. ASSUME NEW w, NEW b, NEW p, NEW f PROVE CallFits(w, b, p, f)' <=> CallFits(w, b, p, f)
  <2>1. \A t : Judged(w, b, p, f, t)' <=> Judged(w, b, p, f, t)
    BY <1>1, <1>2 DEF Judged, After
  <2> QED BY <1>1, <2>1 DEF CallFits
<1> QED BY <1>1, <1>2, <1>3, <1>4, <1>5

LEMMA SuffixIs ==
  ASSUME NEW S, NEW s \in Seq(S), NEW t \in 0 .. Len(s)
  PROVE  K!IsSuffix(SubSeq(s, t + 1, Len(s)), s)
<1> DEFINE n == Len(s)
           r == SubSeq(s, t + 1, n)
           u == K!Reverse(r)
           v == K!Reverse(s)
<1>1. n \in Nat /\ t \in Nat /\ r \in Seq(S) /\ Len(r) = n - t /\ \A i \in 1 .. n - t : r[i] = s[i + t]
  OBVIOUS
<1> HIDE DEF r, n
<1>2. u \in Seq(S) /\ Len(u) = n - t /\ \A i \in 1 .. n - t : u[i] = r[n - t - i + 1]
  BY <1>1 DEF K!Reverse
<1>3. v \in Seq(S) /\ Len(v) = n /\ \A i \in 1 .. n : v[i] = s[n - i + 1]
  BY <1>1 DEF K!Reverse, n
<1> HIDE DEF u, v
<1>4. ASSUME NEW i \in 1 .. n - t PROVE u[i] = v[i]
  <2>1. n - t - i + 1 \in 1 .. n - t /\ (n - t - i + 1) + t = n - i + 1 /\ i \in 1 .. n
    BY <1>1
  <2>2. u[i] = s[n - i + 1]
    BY <1>1, <1>2, <2>1
  <2>3. v[i] = s[n - i + 1]
    BY <1>3, <2>1
  <2> QED BY <2>2, <2>3
<1>5. SubSeq(u, 1, n - t) = SubSeq(v, 1, n - t)
  <2> DEFINE x == SubSeq(u, 1, n - t)
             y == SubSeq(v, 1, n - t)
  <2>1. x \in Seq(S) /\ Len(x) = n - t /\ \A i \in 1 .. n - t : x[i] = u[i]
    BY <1>1, <1>2
  <2>2. y \in Seq(S) /\ Len(y) = n - t /\ \A i \in 1 .. n - t : y[i] = v[i]
    BY <1>1, <1>3
  <2> HIDE DEF x, y
  <2>3. x = y
    BY <1>4, <2>1, <2>2, SeqEqual
  <2> QED BY <2>3 DEF x, y
<1>6. Len(u) <= Len(v)
  BY <1>1, <1>2, <1>3
<1> QED BY <1>2, <1>5, <1>6 DEF K!IsSuffix, K!IsPrefix, r, n, u, v

LEMMA SearchInvSuffices == K!ThinkAssumption /\ SearchInv => K!ThinkCorrect
<1> SUFFICES ASSUME K!ThinkAssumption, SearchInv PROVE K!ThinkCorrect
  OBVIOUS
<1> DEFINE w == K!Worth
           b == K!BestLine
<1>1. GainFits
  BY DEF GainFits, SearchInv
<1>2. WorthFits(w) /\ LineFits(w, b)
  BY <1>1, WorthOfPositions, LineOfPositions
<1> HIDE DEF w, b
<1>3. CallsFit(w, b)
  BY <1>2 DEF SearchInv
<1>4. K!AnswersBestLine
  BY <1>3 DEF K!AnswersBestLine, CallsFit, b
<1>5. ASSUME NEW i \in DOMAIN frames
      PROVE  /\ i <= Len(history) + 1
             /\ K!IsSuffix(frames[i].ops, K!possible_moves(SubSeq(history, 1, i - 1)))
  <2>1. i \in 1 .. Len(frames) /\ frames # <<>> /\ Len(frames) \in Nat /\ Len(history) = Len(frames) - 1
    BY <1>3 DEF CallsFit
  <2> DEFINE p == SubSeq(history, 1, i - 1)
             ms == K!possible_moves(p)
  <2>2. p \in Spots
    <3>1. history \in Seq(Played) /\ Len(history) <= MaxDepth /\ MaxDepth \in Nat
      BY SpotsAre DEF SearchInv
    <3>2. p \in Seq(Played) /\ Len(p) = i - 1
      BY <2>1, <3>1
    <3>3. Len(p) <= MaxDepth
      BY <2>1, <3>1, <3>2
    <3> QED BY <3>2, <3>3, SpotsAre
  <2>3. CallFits(w, b, p, frames[i])
    BY <1>3, <2>1 DEF CallsFit
  <2> HIDE DEF p
  <2>4. ms \in Seq(Played) /\ Len(ms) = MoveCount(p) /\ MoveCount(p) \in Nat
    BY <2>2, MoveCountIs, MovesOf
  <2>5. PICK t \in 0 .. Len(ms) : frames[i].ops = SubSeq(ms, t + 1, Len(ms))
    BY <2>3, <2>4 DEF CallFits, Judged
  <2> HIDE DEF ms
  <2>6. K!IsSuffix(frames[i].ops, ms)
    BY <2>4, <2>5, SuffixIs
  <2> QED BY <2>1, <2>6 DEF ms, p
<1>6. K!StatusRestored
  BY <1>3, <1>5 DEF K!StatusRestored, CallsFit
<1> QED BY <1>4, <1>6 DEF K!ThinkCorrect

LEMMA CallsAre ==
  ASSUME K!ThinkAssumption, SearchInv, NEW w, NEW b, WorthFits(w), LineFits(w, b)
  PROVE  /\ GainFits /\ CallsFit(w, b)
         /\ history \in Seq(Played) /\ Len(history) \in Nat
         /\ frames \in Seq(Call(b)) /\ Len(frames) \in Nat
         /\ \A i \in 1 .. Len(frames) : /\ frames[i] \in Call(b) /\ SubSeq(history, 1, i - 1) \in Spots
                                        /\ CallFits(w, b, SubSeq(history, 1, i - 1), frames[i])
         /\ Len(frames) > 0 => /\ Len(history) = Len(frames) - 1
                               /\ SubSeq(history, 1, Len(frames) - 1) = history
<1>1. GainFits /\ CallsFit(w, b)
  BY DEF GainFits, SearchInv
<1>2. /\ history \in Seq(Played) /\ Len(history) \in Nat /\ Len(history) <= MaxDepth /\ MaxDepth \in Nat
      /\ frames \in Seq(Call(b)) /\ Len(frames) \in Nat
  BY <1>1, SpotsAre DEF SearchInv, CallsFit
<1>3. Len(frames) > 0 => Len(history) = Len(frames) - 1
  BY <1>1, <1>2 DEF CallsFit
<1>4. ASSUME NEW i \in 1 .. Len(frames) PROVE SubSeq(history, 1, i - 1) \in Spots
  <2> DEFINE p == SubSeq(history, 1, i - 1)
  <2>1. i - 1 \in 0 .. Len(history)
    BY <1>2, <1>3
  <2>2. p \in Seq(Played) /\ Len(p) = i - 1
    BY <1>2, <2>1
  <2>3. Len(p) <= MaxDepth
    BY <1>2, <2>1, <2>2
  <2> QED BY <2>2, <2>3, SpotsAre
<1>5. SubSeq(history, 1, Len(history)) = history
  BY <1>2
<1>6. \A i \in 1 .. Len(frames) : frames[i] \in Call(b)
  BY <1>2
<1> QED BY <1>1, <1>2, <1>3, <1>4, <1>5, <1>6 DEF CallsFit

\* The beginning of a history does not depend on what follows it.
LEMMA SameStart ==
  ASSUME NEW S, NEW h \in Seq(S), NEW g \in Seq(S), NEW n \in Nat, n <= Len(h), n <= Len(g),
         \A i \in 1 .. n : h[i] = g[i]
  PROVE  SubSeq(h, 1, n) = SubSeq(g, 1, n)
<1> DEFINE x == SubSeq(h, 1, n)
           y == SubSeq(g, 1, n)
<1>1. x \in Seq(S) /\ Len(x) = n /\ \A i \in 1 .. n : x[i] = h[i]
  OBVIOUS
<1>2. y \in Seq(S) /\ Len(y) = n /\ \A i \in 1 .. n : y[i] = g[i]
  OBVIOUS
<1> HIDE DEF x, y
<1>3. x = y
  BY <1>1, <1>2, SeqEqual
<1> QED BY <1>3 DEF x, y

LEMMA TryKeeps == K!ThinkAssumption /\ SearchInv /\ K!Try => SearchInv'
<1> SUFFICES ASSUME K!ThinkAssumption, SearchInv, K!Try PROVE SearchInv'
  OBVIOUS
<1> DEFINE n == Len(frames)
           top == frames[n]
           q == Append(history, Head(top.ops))
<1>1. /\ frames # <<>> /\ top.ops # <<>>
      /\ marks' = Append(marks, Len(history)) /\ history' = q /\ frames' = Append(frames, K!Frame(q))
      /\ UNCHANGED <<gain, rival, over, result>>
  BY DEF K!Try, K!Last
<1>2. ASSUME NEW w, NEW b, WorthFits(w), LineFits(w, b)
      PROVE  /\ n \in Nat \ {0} /\ Len(history) = n - 1 /\ history \in Seq(Played) /\ GainFits
             /\ Head(top.ops) \in Played /\ q \in Spots
             /\ frames \in Seq(Call(b)) /\ CallsFit(w, b)
  <2>1. /\ n \in Nat /\ n > 0 /\ Len(history) = n - 1 /\ history \in Seq(Played) /\ GainFits
        /\ top \in Call(b) /\ history \in Spots /\ CallFits(w, b, history, top)
        /\ frames \in Seq(Call(b)) /\ CallsFit(w, b)
    <3>1. frames \in Seq(Call(b)) /\ n \in Nat
      BY <1>2, CallsAre
    <3>2. n > 0
      BY <1>1, <3>1
    <3>3. n \in 1 .. n
      BY <3>1, <3>2
    <3> HIDE DEF n
    <3> QED BY <1>2, <3>1, <3>2, <3>3, CallsAre DEF n
  <2>2. q \in K!Positions
    <3> HIDE DEF n, top
    <3> QED BY <1>1, <1>2, <2>1, JudgesNext
  <2>3. Head(top.ops) \in Played
    <3>1. top.ops \in Seq(Played)
      BY <2>1 DEF Call
    <3> QED BY <1>1, <3>1
  <2> QED BY <2>1, <2>2, <2>3 DEF Spots
<1>3. WorthFits(K!Worth) /\ LineFits(K!Worth, K!BestLine)
  BY WorthOfPositions, LineOfPositions DEF GainFits, SearchInv
<1>4. /\ n \in Nat \ {0} /\ Len(history) = n - 1 /\ history \in Seq(Played) /\ GainFits
      /\ Head(top.ops) \in Played /\ q \in Spots
  BY <1>2, <1>3
<1> HIDE DEF n
<1>5. /\ q \in Seq(Played) /\ Len(q) = n /\ q[n] = Head(top.ops)
      /\ \A i \in 1 .. n - 1 : q[i] = history[i]
  BY <1>4
<1>6. marks' = [i \in 1 .. Len(history') |-> i - 1]
  <2>1. marks = [i \in 1 .. n - 1 |-> i - 1]
    BY <1>4 DEF SearchInv
  <2>2. marks' = Append(marks, n - 1)
    BY <1>1, <1>4
  <2> DEFINE x == [i \in 1 .. n |-> i - 1]
  <2>3. marks \in Seq(Int) /\ Len(marks) = n - 1
    BY <1>4, <2>1
  <2>4. marks' \in Seq(Int) /\ Len(marks') = n
    BY <1>4, <2>2, <2>3
  <2>5. ASSUME NEW i \in 1 .. n PROVE marks'[i] = x[i]
    BY <1>4, <2>1, <2>2, <2>3, <2>5
  <2>6. x \in Seq(Int) /\ Len(x) = n
    BY <1>4
  <2> HIDE DEF x
  <2>7. marks' = x
    BY <2>4, <2>5, <2>6, SeqEqual
  <2> QED BY <1>1, <1>5, <2>7 DEF x
<1> HIDE DEF top, q
<1>7. ASSUME NEW w, NEW b, WorthFits(w)', LineFits(w, b)' PROVE CallsFit(w, b)'
  <2>1. WorthFits(w) /\ LineFits(w, b)
    BY <1>1, <1>7, SameGame
  <2>2. frames \in Seq(Call(b)) /\ CallsFit(w, b)
    BY <1>2, <2>1
  <2> DEFINE f == K!Frame(q)
  <2>3. f \in Call(b) /\ CallFits(w, b, q, f)
    BY <1>4, NewCall
  <2> HIDE DEF f
  <2>4. /\ frames' \in Seq(Call(b)) /\ Len(frames') = n + 1 /\ frames' # <<>>
        /\ frames'[n + 1] = f /\ \A i \in 1 .. n : frames'[i] = frames[i]
    BY <1>1, <1>4, <2>2, <2>3 DEF n, f
  <2>5. ASSUME NEW i \in 1 .. n + 1
        PROVE  CallFits(w, b, SubSeq(history', 1, i - 1), frames'[i])
    <3>1. CASE i = n + 1
      <4>1. SubSeq(q, 1, n) = q /\ i - 1 = n
        BY <1>4, <1>5, <3>1
      <4> QED BY <1>1, <2>3, <2>4, <3>1, <4>1
    <3>2. CASE i # n + 1
      <4>1. i \in 1 .. n /\ i - 1 \in Nat /\ i - 1 <= n - 1
        BY <1>4, <3>2
      <4>2. \A j \in 1 .. i - 1 : q[j] = history[j]
        BY <1>4, <1>5, <4>1
      <4>3. SubSeq(q, 1, i - 1) = SubSeq(history, 1, i - 1)
        BY <1>4, <1>5, <4>1, <4>2, SameStart
      <4>4. CallFits(w, b, SubSeq(history, 1, i - 1), frames[i])
        BY <2>2, <4>1 DEF CallsFit, n
      <4> QED BY <1>1, <2>4, <4>1, <4>3, <4>4
    <3> QED BY <3>1, <3>2
  <2>6. ASSUME NEW i \in 1 .. n PROVE frames'[i].ops # <<>> /\ history'[i] = Head(frames'[i].ops)
    <3>1. CASE i = n
      BY <1>1, <1>5, <2>4, <3>1 DEF top
    <3>2. CASE i # n
      <4>1. i \in 1 .. n - 1
        BY <1>4, <3>2
      <4>2. frames[i].ops # <<>> /\ history[i] = Head(frames[i].ops)
        BY <2>2, <4>1 DEF CallsFit, n
      <4> QED BY <1>1, <1>5, <2>4, <4>1, <4>2
    <3> QED BY <3>1, <3>2
  <2>7. ASSUME NEW i \in 1 .. n + 1 PROVE CallFits(w, b, SubSeq(history, 1, i - 1), frames[i])'
    BY <1>1, <2>5, SameGame
  <2>8. Len(history') = n /\ Len(frames') - 1 = n
    BY <1>1, <1>4, <1>5, <2>4
  <2>9. (frames \in Seq(Call(b)))'
    BY <2>4
  <2>10. (\A i \in 1 .. Len(frames) : CallFits(w, b, SubSeq(history, 1, i - 1), frames[i]))'
    BY <2>4, <2>7
  <2>11. (\A i \in 1 .. Len(frames) - 1 : frames[i].ops # <<>> /\ history[i] = Head(frames[i].ops))'
    BY <2>6, <2>8
  <2>12. /\ (Len(history) = IF frames = <<>> THEN 0 ELSE Len(frames) - 1)'
         /\ (frames = <<>> => result = b[<<>>])'
    BY <2>4, <2>8
  <2> QED BY <2>9, <2>10, <2>11, <2>12 DEF CallsFit
<1>8. history' \in Spots' /\ gain' \in [K!Positions' -> 0 .. MaxGain]
  BY <1>1, <1>4 DEF SearchInv, Spots, K!Positions
<1> QED BY <1>6, <1>7, <1>8 DEF SearchInv

LEMMA ReturnKeeps == K!ThinkAssumption /\ SearchInv /\ K!Return => SearchInv'
<1> SUFFICES ASSUME K!ThinkAssumption, SearchInv, K!Return PROVE SearchInv'
  OBVIOUS
<1> DEFINE n == Len(frames) - 1
           callee == frames[n + 1]
           caller == frames[n]
           p == SubSeq(history, 1, n - 1)
           g == K!Judge(caller, callee.best, K!evaluate(history, callee.maxScore))
<1>1. WorthFits(K!Worth) /\ LineFits(K!Worth, K!BestLine)
  BY WorthOfPositions, LineOfPositions DEF GainFits, SearchInv
<1>2. n \in Nat \ {0} /\ Len(history) = n /\ history \in Seq(Played) /\ GainFits
  <2>1. Len(frames) \in Nat /\ n > 0
    BY <1>1, CallsAre DEF K!Return
  <2> QED BY <1>1, <2>1, CallsAre
<1>3. /\ callee.ops = <<>>
      /\ frames' = [SubSeq(frames, 1, n) EXCEPT ![n] = g]
      /\ history' = SubSeq(history, 1, marks[Len(marks)]) /\ marks' = SubSeq(marks, 1, Len(marks) - 1)
      /\ UNCHANGED <<gain, rival, over, result>>
  <2>1. /\ frames[Len(frames)].ops = <<>>
        /\ frames' = [SubSeq(frames, 1, n) EXCEPT
              ![n] = K!Judge(@, frames[Len(frames)].best, K!evaluate(history, frames[Len(frames)].maxScore))]
        /\ history' = SubSeq(history, 1, marks[Len(marks)]) /\ marks' = SubSeq(marks, 1, Len(marks) - 1)
        /\ UNCHANGED <<gain, rival, over, result>>
    BY DEF K!Return, K!Last, K!Front
  <2>2. Len(frames) = n + 1
    BY <1>1, <1>2, CallsAre
  <2>3. frames \in Seq(Call(K!BestLine))
    BY <1>1, CallsAre
  <2>4. SubSeq(frames, 1, n)[n] = caller
    <3> HIDE DEF n
    <3> QED BY <1>2, <2>2, <2>3
  <2> HIDE DEF n
  <2> QED BY <1>2, <2>1, <2>2, <2>3, <2>4
<1>4. history' = p /\ marks' = [i \in 1 .. n - 1 |-> i - 1]
  <2>1. marks = [i \in 1 .. n |-> i - 1]
    BY <1>2 DEF SearchInv
  <2> HIDE DEF n
  <2>2. marks \in Seq(Int) /\ Len(marks) = n /\ marks[n] = n - 1
    BY <1>2, <2>1
  <2> DEFINE x == [i \in 1 .. n - 1 |-> i - 1]
             y == SubSeq(marks, 1, n - 1)
  <2>3. x \in Seq(Int) /\ Len(x) = n - 1
    BY <1>2
  <2>4. y \in Seq(Int) /\ Len(y) = n - 1 /\ \A i \in 1 .. n - 1 : y[i] = marks[i]
    BY <1>2, <2>2
  <2>5. \A i \in 1 .. n - 1 : x[i] = y[i]
    BY <1>2, <2>1, <2>4
  <2> HIDE DEF x
  <2>6. x = y
    <3> HIDE DEF y
    <3> QED BY <2>3, <2>4, <2>5, SeqEqual
  <2> QED BY <1>3, <2>2, <2>6 DEF x
<1>5. ASSUME NEW w, NEW b, WorthFits(w), LineFits(w, b)
      PROVE  /\ Len(frames) = n + 1 /\ frames \in Seq(Call(b)) /\ CallsFit(w, b)
             /\ p \in Spots /\ g \in Call(b) /\ CallFits(w, b, p, g)
  <2>1. Len(frames) = n + 1 /\ frames \in Seq(Call(b)) /\ CallsFit(w, b)
    BY <1>2, <1>5, CallsAre
  <2> HIDE DEF n
  <2>2. n \in 1 .. Len(frames) /\ n + 1 \in 1 .. Len(frames) /\ (n + 1) - 1 = n /\ n \in 1 .. Len(frames) - 1
    BY <1>2, <2>1
  <2>3. /\ callee \in Call(b) /\ caller \in Call(b) /\ p \in Spots /\ history \in Spots
        /\ CallFits(w, b, history, callee) /\ CallFits(w, b, p, caller)
    <3>1. SubSeq(history, 1, n) = history
      BY <1>2
    <3> QED BY <1>5, <2>2, <3>1, CallsAre DEF SearchInv
  <2>4. caller.ops # <<>> /\ history[n] = Head(caller.ops)
    BY <2>1, <2>2 DEF CallsFit
  <2>5. history = Append(p, history[n])
    <3> DEFINE h == Append(p, history[n])
    <3>1. p \in Seq(Played) /\ Len(p) = n - 1 /\ \A i \in 1 .. n - 1 : p[i] = history[i]
      BY <1>2
    <3> HIDE DEF p
    <3>2. history[n] \in Played
      BY <1>2
    <3>3. h \in Seq(Played) /\ Len(h) = n /\ \A i \in 1 .. n : h[i] = history[i]
      BY <1>2, <3>1, <3>2
    <3> HIDE DEF h
    <3>4. history = h
      BY <1>2, <3>3, SeqEqual
    <3> QED BY <3>4 DEF h
  <2> DEFINE q == Append(p, Head(caller.ops))
  <2>6. callee.maxScore = w[history] /\ callee.best = b[history]
    <3> HIDE DEF callee
    <3> QED BY <1>2, <1>3, <1>5, <2>3, JudgedAll
  <2>7. q = history /\ g = K!Judge(caller, b[q], K!evaluate(q, w[q]))
    BY <2>4, <2>5, <2>6
  <2> HIDE DEF p, caller, g
  <2>8. g \in Call(b) /\ CallFits(w, b, p, g)
    BY <1>2, <1>5, <2>3, <2>4, <2>7, JudgesNext
  <2> QED BY <2>1, <2>3, <2>8
<1>6. p \in Spots
  BY <1>1, <1>5
<1> HIDE DEF n, g
<1>7. p \in Seq(Played) /\ Len(p) = n - 1 /\ \A i \in 1 .. n - 1 : p[i] = history[i]
  BY <1>2
<1> HIDE DEF p, caller, callee
<1>8. ASSUME NEW w, NEW b, WorthFits(w)', LineFits(w, b)' PROVE CallsFit(w, b)'
  <2>1. WorthFits(w) /\ LineFits(w, b)
    BY <1>3, <1>8, SameGame
  <2>2. /\ Len(frames) = n + 1 /\ frames \in Seq(Call(b)) /\ CallsFit(w, b)
        /\ g \in Call(b) /\ CallFits(w, b, p, g)
    BY <1>5, <2>1
  <2>3. /\ frames' \in Seq(Call(b)) /\ Len(frames') = n /\ frames' # <<>>
        /\ frames'[n] = g /\ \A i \in 1 .. n - 1 : frames'[i] = frames[i]
    <3> DEFINE s == SubSeq(frames, 1, n)
    <3>1. s \in Seq(Call(b)) /\ Len(s) = n /\ \A i \in 1 .. n : s[i] = frames[i]
      BY <1>2, <2>2
    <3>2. frames' = [s EXCEPT ![n] = g]
      BY <1>3
    <3> HIDE DEF s
    <3>3. frames' \in Seq(Call(b)) /\ Len(frames') = n
      BY <1>2, <2>2, <3>1, <3>2
    <3>4. DOMAIN s = 1 .. n /\ n \in 1 .. n
      BY <1>2, <3>1
    <3>5. frames'[n] = g /\ \A i \in 1 .. n - 1 : frames'[i] = frames[i]
      BY <1>2, <3>1, <3>2, <3>4
    <3>6. frames' # <<>>
      BY <1>2, <3>3
    <3> QED BY <3>3, <3>5, <3>6
  <2>4. ASSUME NEW i \in 1 .. n PROVE CallFits(w, b, SubSeq(history', 1, i - 1), frames'[i])
    <3>1. i - 1 \in Nat /\ i - 1 <= n - 1 /\ i - 1 <= Len(history) /\ \A j \in 1 .. i - 1 : j \in 1 .. n - 1
      BY <1>2
    <3>2. SubSeq(p, 1, i - 1) = SubSeq(history, 1, i - 1)
      BY <1>2, <1>7, <3>1, SameStart
    <3>3. CASE i = n
      <4>1. SubSeq(p, 1, n - 1) = p
        BY <1>2, <1>7
      <4> QED BY <1>4, <2>2, <2>3, <3>3, <4>1
    <3>4. CASE i # n
      <4>1. i \in 1 .. n - 1 /\ i \in 1 .. Len(frames)
        BY <1>2, <2>2, <3>4
      <4>2. CallFits(w, b, SubSeq(history, 1, i - 1), frames[i])
        BY <2>2, <4>1 DEF CallsFit
      <4> QED BY <1>4, <2>3, <3>2, <4>1, <4>2
    <3> QED BY <3>3, <3>4
  <2>5. ASSUME NEW i \in 1 .. n PROVE CallFits(w, b, SubSeq(history, 1, i - 1), frames[i])'
    BY <1>3, <2>4, SameGame
  <2>6. (\A i \in 1 .. Len(frames) : CallFits(w, b, SubSeq(history, 1, i - 1), frames[i]))'
    BY <2>3, <2>5
  <2>7. ASSUME NEW i \in 1 .. n - 1 PROVE frames'[i].ops # <<>> /\ history'[i] = Head(frames'[i].ops)
    <3>1. i \in 1 .. Len(frames) - 1
      BY <1>2, <2>2
    <3>2. frames[i].ops # <<>> /\ history[i] = Head(frames[i].ops)
      BY <2>2, <3>1 DEF CallsFit
    <3> QED BY <1>4, <1>7, <2>3, <3>2
  <2>8. (\A i \in 1 .. Len(frames) - 1 : frames[i].ops # <<>> /\ history[i] = Head(frames[i].ops))'
    BY <2>3, <2>7
  <2>9. (Len(history) = IF frames = <<>> THEN 0 ELSE Len(frames) - 1)' /\ (frames = <<>> => result = b[<<>>])'
    BY <1>4, <1>7, <2>3
  <2>10. (frames \in Seq(Call(b)))'
    BY <2>3
  <2> QED BY <2>6, <2>8, <2>9, <2>10 DEF CallsFit
<1>9. marks' = [i \in 1 .. Len(history') |-> i - 1]
  BY <1>4, <1>7
<1>10. history' \in Spots' /\ gain' \in [K!Positions' -> 0 .. MaxGain]
  BY <1>3, <1>4, <1>6 DEF SearchInv, Spots, K!Positions
<1> QED BY <1>8, <1>9, <1>10 DEF SearchInv

LEMMA AnswerKeeps == K!ThinkAssumption /\ SearchInv /\ K!Answer => SearchInv'
<1> SUFFICES ASSUME K!ThinkAssumption, SearchInv, K!Answer PROVE SearchInv'
  OBVIOUS
<1>1. /\ Len(frames) = 1 /\ frames[1].ops = <<>> /\ frames' = <<>> /\ result' = frames[1].best
      /\ UNCHANGED <<gain, rival, over, history, marks>>
  BY DEF K!Answer
<1>2. ASSUME NEW w, NEW b, WorthFits(w)', LineFits(w, b)' PROVE CallsFit(w, b)'
  <2>1. WorthFits(w) /\ LineFits(w, b)
    BY <1>1, <1>2, SameGame
  <2>2. /\ history \in Seq(Played) /\ Len(history) = 0 /\ GainFits
        /\ frames[1] \in Call(b) /\ SubSeq(history, 1, 1 - 1) \in Spots
        /\ CallFits(w, b, SubSeq(history, 1, 1 - 1), frames[1])
    <3>1. 1 \in 1 .. Len(frames) /\ Len(frames) > 0 /\ Len(frames) - 1 = 0
      BY <1>1
    <3> QED BY <2>1, <3>1, CallsAre
  <2>3. SubSeq(history, 1, 1 - 1) = <<>>
    BY <2>2
  <2> DEFINE f == frames[1]
             root == <<>>
  <2>4. f \in Call(b) /\ root \in Spots /\ CallFits(w, b, root, f) /\ f.ops = <<>>
    BY <1>1, <2>2, <2>3
  <2>5. f.best = b[root]
    <3> HIDE DEF f, root
    <3>1. GainFits
      BY <2>2
    <3> QED BY <2>1, <2>4, <3>1, JudgedAll DEF root
  <2>6. frames' = <<>> /\ result' = b[<<>>] /\ Len(history') = 0
    BY <1>1, <2>2, <2>5
  <2>7. frames' \in Seq(Call(b)) /\ Len(frames') = 0
    BY <2>6
  <2>8. (frames \in Seq(Call(b)))' /\ (frames = <<>> => result = b[<<>>])'
        /\ (Len(history) = IF frames = <<>> THEN 0 ELSE Len(frames) - 1)'
    BY <2>6, <2>7
  <2>9. (\A i \in 1 .. Len(frames) : CallFits(w, b, SubSeq(history, 1, i - 1), frames[i]))'
        /\ (\A i \in 1 .. Len(frames) - 1 : frames[i].ops # <<>> /\ history[i] = Head(frames[i].ops))'
    <3>1. 1 .. Len(frames') = {} /\ 1 .. Len(frames') - 1 = {}
      BY <2>7
    <3> QED BY <3>1
  <2> QED BY <2>8, <2>9 DEF CallsFit
<1>3. history' \in Spots' /\ gain' \in [K!Positions' -> 0 .. MaxGain]
  BY <1>1 DEF SearchInv, Spots, K!Positions
<1>4. marks' = [i \in 1 .. Len(history') |-> i - 1]
  BY <1>1 DEF SearchInv
<1> QED BY <1>2, <1>3, <1>4 DEF SearchInv

LEMMA SearchStays == K!ThinkAssumption /\ SearchInv /\ UNCHANGED K!vars => SearchInv'
<1> SUFFICES ASSUME K!ThinkAssumption, SearchInv, UNCHANGED K!vars PROVE SearchInv'
  OBVIOUS
<1>1. UNCHANGED <<gain, rival, over, history, marks, frames, result>>
  BY DEF K!vars
<1>2. ASSUME NEW w, NEW b, WorthFits(w)', LineFits(w, b)' PROVE CallsFit(w, b)'
  <2>1. CallsFit(w, b)
    BY <1>1, <1>2, SameGame DEF SearchInv
  <2>2. ASSUME NEW i \in 1 .. Len(frames) PROVE CallFits(w, b, SubSeq(history', 1, i - 1), frames'[i])
    BY <1>1, <2>1 DEF CallsFit
  <2>3. ASSUME NEW i \in 1 .. Len(frames) PROVE CallFits(w, b, SubSeq(history, 1, i - 1), frames[i])'
    BY <1>1, <2>2, SameGame
  <2>4. (\A i \in 1 .. Len(frames) : CallFits(w, b, SubSeq(history, 1, i - 1), frames[i]))'
    BY <1>1, <2>3
  <2>5. (frames \in Seq(Call(b)))' /\ (frames = <<>> => result = b[<<>>])'
        /\ (Len(history) = IF frames = <<>> THEN 0 ELSE Len(frames) - 1)'
        /\ (\A i \in 1 .. Len(frames) - 1 : frames[i].ops # <<>> /\ history[i] = Head(frames[i].ops))'
    BY <1>1, <2>1 DEF CallsFit
  <2> QED BY <2>4, <2>5 DEF CallsFit
<1>3. history' \in Spots' /\ gain' \in [K!Positions' -> 0 .. MaxGain]
  BY <1>1 DEF SearchInv, Spots, K!Positions
<1>4. marks' = [i \in 1 .. Len(history') |-> i - 1]
  BY <1>1 DEF SearchInv
<1> QED BY <1>2, <1>3, <1>4 DEF SearchInv

\* For any moves and any depth, whatever the AI gives for the positions and
\* wherever the game ends: think() answers with the line of best moves, of two that
\* are worth the same the earlier, and has taken back every move in the end.
THEOREM BestLineIsFound == K!Spec => []ThinkCorrect
<1>1. K!Init => SearchInv
  BY ThinkAssumed, InitSearchInv
<1>2. SearchInv /\ [K!Next]_(K!vars) => SearchInv'
  BY ThinkAssumed, TryKeeps, ReturnKeeps, AnswerKeeps, SearchStays DEF K!Next
<1>3. SearchInv => ThinkCorrect
  BY ThinkAssumed, SearchInvSuffices DEF ThinkCorrect
<1> QED BY <1>1, <1>2, <1>3, PTL DEF K!Spec
==============================================================================
