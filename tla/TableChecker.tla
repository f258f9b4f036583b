---------------------------- MODULE TableChecker ----------------------------
(***************************************************************************)
(* The checker of the spreadsheet tool (tools/excel_tool/excel_tool:       *)
(* checker.py, constraint.py, type2.py, loader.py): tables are defined,    *)
(* loaded when they are first asked for, and checked record by record,     *)
(* field by field, in the order a Python dictionary happens to have.       *)
(*                                                                         *)
(* A type is [kind, items, c]: of a list, items has the type of any item,  *)
(* of a tuple that of each.  A constraint is [op, ...]; see MCTools       .*)
(***************************************************************************)
EXTENDS Naturals, Sequences, FiniteSets, SequencesExt

CONSTANTS
  Table,      \* names of tables
  Definable,  \* Definable[t]: the fields t may be defined with
  Files,      \* what the files may hold: Table -> records, or Bad
  Bad,        \* a file that cannot be loaded or converted
  None,
  MaxCalls    \* bound on the calls of the checker

VARIABLES
  file,      \* what the loader finds
  tpls,      \* the fields a table is defined with, or None
  seen,      \* the data of the Unique constraints: <<path, value>>, where a path
             \* starts with the table
  stack,     \* the table and record each element belongs to; record 0 is none
  todo,      \* the tables still to be checked
  at,        \* the table and record being checked, and its fields still to do
  verdict,   \* history: the last result for a table, since it was defined
  passes,    \* history: how often a table was found right since then
  begun,     \* history: how often its check was begun since then
  report,    \* history: the record the last report names, the one that was
             \* checked, and whether no check of a field had raised before
  failed,    \* history: a check of a field has raised
  calls

vars == <<file, tpls, seen, stack, todo, at, verdict, passes, begun, report, failed, calls>>

Init ==
  /\ file \in Files
  /\ tpls = [t \in Table |-> None]
  /\ seen = {}
  /\ stack = <<>>
  /\ todo = {}
  /\ at = None
  /\ verdict = [t \in Table |-> None]
  /\ passes = [t \in Table |-> 0]
  /\ begun = [t \in Table |-> 0]
  /\ report = None
  /\ failed = FALSE
  /\ calls = 0

Idle == at = None /\ todo = {}

------------------------------------------------------------------------------
(* Constraints and types.                                                  *)

RECURSIVE Eval(_, _, _, _, _)

\* Fault: Unique does not keep what it saw.
EvalForgets(c, v, hashable, p, s) ==
  CASE c.op = "unique" -> [raised |-> <<p, v>> \in s, seen |-> s]
    [] c.op = "in" -> [raised |-> v \notin c.set, seen |-> s]
    [] OTHER -> [raised |-> FALSE, seen |-> s]

\* Whether check() of constraint c raises for v, and what Unique has then seen.
\* Lists cannot be looked up in a set; Foreign iterates over a TplInfo.
Eval(c, v, hashable, p, s) ==
  LET l == Eval(c.l, v, hashable, p \o <<0, 0>>, s)
      r == Eval(c.r, v, hashable, p \o <<0, 1>>, l.seen)
  IN  CASE c.op = "in" -> [raised |-> ~hashable \/ v \notin c.set, seen |-> s]
        [] c.op = "unique" -> [raised |-> ~hashable \/ <<p, v>> \in s,
                               seen |-> IF hashable THEN s \cup {<<p, v>>} ELSE s]
        [] c.op = "and" -> IF l.raised THEN l ELSE r
        [] c.op = "or" -> IF l.raised THEN r ELSE l
        [] c.op = "not" -> [l EXCEPT !.raised = ~@]
        [] c.op = "foreign" -> [raised |-> TRUE, seen |-> s]

\* What the constraint of a type itself says: as Constraint.check returns None,
\* a constrained value is never found right by push_check_pop.
SelfCheck(ty, v, p, s) ==
  IF ty.c = None THEN [raised |-> FALSE, value |-> TRUE, seen |-> s, left |-> 0]
  ELSE LET e == Eval(ty.c, v, ty.kind # "list", p, s)
       IN  [raised |-> e.raised, value |-> FALSE, seen |-> e.seen, left |-> 0]

RECURSIVE Check(_, _, _, _)

\* push_check_pop of an item, unless the loop has ended.
CheckItem(acc, item, v, p) ==
  IF acc.raised \/ ~acc.value THEN acc
  ELSE LET r == Check(item, v, p, acc.seen)
       IN  [r EXCEPT !.left = IF r.raised THEN @ + 1 ELSE 0]

\* check() of a type: whether it raises, what it returns, and how many elements
\* a raise leaves on the stack.
Check(ty, v, p, s) ==
  LET k(i) == IF ty.kind = "list" THEN 1 ELSE i
      n == IF ty.kind = "list" THEN Len(v) ELSE Len(ty.items)
      loop == FoldLeftDomain(LAMBDA acc, i : CheckItem(acc, ty.items[k(i)], v[i], Append(p, k(i))),
                [raised |-> FALSE, value |-> TRUE, seen |-> s, left |-> 0], [i \in 1 .. n |-> i])
  IN  IF loop.raised \/ ~loop.value THEN loop ELSE SelfCheck(ty, v, p, loop.seen)

------------------------------------------------------------------------------
(* The checker.                                                            *)

\* Fault: the types are not cloned.
DefineShared(t, fields) ==
  /\ Idle
  /\ calls < MaxCalls
  /\ calls' = calls + 1
  /\ tpls' = [tpls EXCEPT ![t] = fields]
  /\ verdict' = [verdict EXCEPT ![t] = None]
  /\ passes' = [passes EXCEPT ![t] = 0]
  /\ begun' = [begun EXCEPT ![t] = 0]
  /\ UNCHANGED <<file, seen, stack, todo, at, report, failed>>

\* Every field's type is cloned, so that its Unique constraints start empty.
DefineTpl(t, fields) ==
  /\ Idle
  /\ calls < MaxCalls
  /\ calls' = calls + 1
  /\ tpls' = [tpls EXCEPT ![t] = fields]
  /\ seen' = {e \in seen : e[1][1] # t}
  /\ verdict' = [verdict EXCEPT ![t] = None]
  /\ passes' = [passes EXCEPT ![t] = 0]
  /\ begun' = [begun EXCEPT ![t] = 0]
  /\ UNCHANGED <<file, stack, todo, at, report, failed>>

\* check_tpl(), or check_all().
Call(tables) ==
  /\ Idle
  /\ calls < MaxCalls
  /\ calls' = calls + 1
  /\ todo' = tables
  /\ UNCHANGED <<file, tpls, seen, stack, at, verdict, passes, begun, report, failed>>

\* The exception leaves check_tpl and check_all; nothing is popped.
Raise(t) ==
  /\ at' = None
  /\ todo' = {}
  /\ verdict' = [verdict EXCEPT ![t] = "raised"]
  /\ UNCHANGED <<file, tpls, passes, calls>>

\* Fault: the last record is not popped.
RecordKept(t, i, st) ==
  IF i <= Len(file[t])
  THEN /\ stack' = Append(st, <<t, i>>)
       /\ at' = [t |-> t, i |-> i, left |-> DOMAIN file[t][i]]
       /\ UNCHANGED <<todo, verdict, passes>>
  ELSE /\ stack' = st
       /\ at' = None
       /\ todo' = todo \ {t}
       /\ verdict' = [verdict EXCEPT ![t] = "ok"]
       /\ passes' = [passes EXCEPT ![t] = @ + 1]

\* Record i of t, or the end of t: pop the last record, push the next.
Record(t, i, st) ==
  IF i <= Len(file[t])
  THEN /\ stack' = Append(st, <<t, i>>)
       /\ at' = [t |-> t, i |-> i, left |-> DOMAIN file[t][i]]
       /\ UNCHANGED <<todo, verdict, passes>>
  ELSE /\ stack' = Front(st)
       /\ at' = None
       /\ todo' = todo \ {t}
       /\ verdict' = [verdict EXCEPT ![t] = "ok"]
       /\ passes' = [passes EXCEPT ![t] = @ + 1]

\* get_tpl() raises for a table that is not defined or cannot be loaded.
GetTplRaises(t) == tpls[t] = None \/ file[t] = Bad

CheckTpl(t) ==
  /\ at = None
  /\ t \in todo
  /\ begun' = [begun EXCEPT ![t] = @ + 1]
  /\ IF GetTplRaises(t)
     THEN Raise(t) /\ UNCHANGED <<seen, stack, report, failed>>
     ELSE /\ Record(t, 1, Append(stack, <<t, 0>>))
          /\ UNCHANGED <<file, tpls, seen, report, failed, calls>>

\* push_check_pop of a field of the record.  The report takes the record from
\* the second element of the stack.
CheckField(f) ==
  /\ at # None
  /\ f \in at.left
  /\ LET t == at.t
         r == IF f \in DOMAIN tpls[t] THEN Check(tpls[t][f], file[t][at.i][f], <<t, f>>, seen)
              ELSE [raised |-> FALSE, seen |-> seen]
     IN  /\ seen' = r.seen
         /\ UNCHANGED begun
         /\ IF r.raised
            THEN /\ stack' = stack \o [i \in 1 .. r.left + 1 |-> <<t, 0>>]
                 /\ report' = [named |-> stack[2], was |-> <<t, at.i>>, first |-> ~failed]
                 /\ failed' = TRUE
                 /\ Raise(t)
            ELSE /\ IF at.left = {f} THEN Record(t, at.i + 1, Front(stack))
                    ELSE /\ at' = [at EXCEPT !.left = @ \ {f}]
                         /\ UNCHANGED <<stack, todo, verdict, passes>>
                 /\ UNCHANGED <<file, tpls, report, failed, calls>>

Next ==
  \/ \E t \in Table : \E fields \in Definable[t] : DefineTpl(t, fields)
  \/ \E t \in Table : Call({t})
  \/ Call({t \in Table : tpls[t] # None})
  \/ \E t \in Table : CheckTpl(t)
  \/ \E f \in {"id", "f"} : CheckField(f)

Spec == Init /\ [][Next]_vars

------------------------------------------------------------------------------
(* Properties.                                                             *)

\* What a constraint asks of the i-th of the values it is put on.
RECURSIVE Holds(_, _, _)
Holds(c, values, i) ==
  CASE c.op = "in" -> values[i] \in c.set
    [] c.op = "unique" -> \A j \in 1 .. i - 1 : values[j] # values[i]
    [] c.op = "and" -> Holds(c.l, values, i) /\ Holds(c.r, values, i)
    [] c.op = "or" -> Holds(c.l, values, i) \/ Holds(c.r, values, i)
    [] c.op = "not" -> ~Holds(c.l, values, i)

\* Constraints checked for every value: no Foreign, and no Unique that is only
\* asked when something else holds or fails.
RECURSIVE Plain(_)
Plain(c) ==
  CASE c.op \in {"in", "unique"} -> TRUE
    [] c.op = "and" -> Plain(c.l) /\ Plain(c.r)
    [] c.op = "or" -> c.l.op = "in" /\ c.r.op = "in"
    [] c.op = "not" -> c.l.op = "in"
    [] OTHER -> FALSE

PlainScalar(ty) == ty.kind = "scalar" /\ (ty.c = None \/ Plain(ty.c))
Column(t, f) == [i \in DOMAIN file[t] |-> file[t][i][f]]
AllHold(c, values) == \A i \in DOMAIN values : Holds(c, values, i)

\* A table found right when it is checked for the first time is right: every
\* scalar field, and of every list field the first items, which is all that is
\* looked at.
OkMeansValid ==
  \A t \in Table : verdict[t] = "ok" /\ begun[t] = 1 =>
    \A f \in DOMAIN tpls[t] :
      LET ty == tpls[t][f]
      IN  /\ PlainScalar(ty) /\ ty.c # None => AllHold(ty.c, Column(t, f))
          /\ ty.kind = "list" /\ ty.items[1].c # None =>
               AllHold(ty.items[1].c, [i \in DOMAIN file[t] |-> file[t][i][f][1]])

\* A table with plain constraints only that fails its first check is wrong,
\* however often others were checked or it was checked before it was defined.
FailMeansInvalid ==
  \A t \in Table :
    /\ verdict[t] = "raised" /\ begun[t] = 1 /\ file[t] # Bad /\ tpls[t] # None
    /\ \A f \in DOMAIN tpls[t] : PlainScalar(tpls[t][f])
    => \E f \in DOMAIN tpls[t] : tpls[t][f].c # None /\ ~AllHold(tpls[t][f].c, Column(t, f))

\* A table with records and unique ids passes once: the values seen in one check
\* are still there in the next.
PassesOnce ==
  \A t \in Table : passes[t] > 1 /\ tpls[t].id.c = [op |-> "unique"] => file[t] = <<>>

\* A report names the record that was being checked, unless a check raised
\* before: what that one left on the stack is named instead.
ReportNamesRecord ==
  /\ report # None /\ report.first => report.named = report.was
  /\ Idle /\ ~failed => stack = <<>>

\* A verdict "ok" can be relied on, for a first check.
PassesRight == OkMeansValid /\ PassesOnce

\* So can a failure and the record it is reported for, until a check has raised.
FailuresRight == FailMeansInvalid /\ ReportNamesRecord
==============================================================================
