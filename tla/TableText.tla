------------------------------ MODULE TableText ------------------------------
(***************************************************************************)
(* How the spreadsheet tool reads the text of a cell (excel_tool/type2.py, *)
(* convert and convert_toplevel) and rewrites it for Python (parse.py).    *)
(* The state is the text; what is checked is what the functions make of    *)
(* it, against the grammar.                                                *)
(*                                                                         *)
(* A type is [kind, items]; a number is represented by its literal.        *)
(***************************************************************************)
EXTENDS Naturals, Sequences, FiniteSets, SequencesExt

CONSTANTS
  Chunk,      \* what the text is put together from
  MaxChunks,  \* bound on their number
  Types       \* types of lists and tuples

VARIABLES text, chunks

Digits == {"0", "1", "."}
Quotes == {"'", "\""}

------------------------------------------------------------------------------
(* type2.py.                                                               *)

Failed == [ok |-> FALSE]
Read(v, i) == [ok |-> TRUE, value |-> v, next |-> i]
At(s, i) == IF i <= Len(s) THEN s[i] ELSE "end"

\* The first position from i on that is past s, or whose character is not in C.
Skip(s, i, C) == CHOOSE j \in i .. Len(s) + 1 : At(s, j) \notin C /\ \A k \in i .. j - 1 : s[k] \in C

EatBlank(s, i) == Skip(s, i, {" "})

ConvertBool(s, i) ==
  LET b == EatBlank(s, i)
  IN  IF At(s, b) \in {"0", "1"} THEN Read(s[b], b + 1) ELSE Failed

\* float() takes digits with at most one point among them.
IsNumber(w) ==
  /\ \E i \in DOMAIN w : w[i] \in {"0", "1"}
  /\ Cardinality({i \in DOMAIN w : w[i] = "."}) <= 1

ConvertNumber(s, i) ==
  LET b == EatBlank(s, i)
      d == IF At(s, b) = "-" THEN b + 1 ELSE b
      e == Skip(s, d, Digits)
  IN  IF b <= Len(s) /\ IsNumber(SubSeq(s, d, e - 1)) THEN Read(SubSeq(s, b, e - 1), e) ELSE Failed

RECURSIVE StringEnd(_, _, _)

\* Where the string that goes on at i ends; past s if it does not.
StringEnd(s, i, end) ==
  CASE i > Len(s) -> Len(s) + 1
    [] i <= Len(s) /\ s[i] = end -> i
    [] i <= Len(s) /\ s[i] # end -> StringEnd(s, IF s[i] = "\\" THEN i + 2 ELSE i + 1, end)

ConvertString(s, i) ==
  LET b == EatBlank(s, i)
      e == StringEnd(s, b + 1, s[b])
  IN  IF At(s, b) \in Quotes /\ e <= Len(s) THEN Read(SubSeq(s, b + 1, e - 1), e + 1) ELSE Failed

RECURSIVE Convert(_, _, _), ConvertItems(_, _, _, _)

\* Fault: a list may end after a comma.
ConvertItemsLoose(ty, s, i, vs) ==
  LET r == Convert(ty.items[1], s, i)
      j == EatBlank(s, IF r.ok THEN r.next ELSE i)
  IN  CASE At(s, j) = "]" -> Read(IF r.ok THEN Append(vs, r.value) ELSE vs, j + 1)
        [] At(s, j) = "," /\ r.ok -> ConvertItems(ty, s, j + 1, Append(vs, r.value))
        [] OTHER -> Failed

\* The items of a list, from i on, after vs; there must be one more.
ConvertItems(ty, s, i, vs) ==
  LET r == Convert(ty.items[1], s, i)
      j == EatBlank(s, r.next)
  IN  CASE ~r.ok -> Failed
        [] r.ok /\ At(s, j) = "]" -> Read(Append(vs, r.value), j + 1)
        [] r.ok /\ At(s, j) = "," -> ConvertItems(ty, s, j + 1, Append(vs, r.value))
        [] OTHER -> Failed

ConvertList(ty, s, i) ==
  LET b == EatBlank(s, i)
  IN  IF At(s, b) = "[" THEN ConvertItems(ty, s, b + 1, <<>>) ELSE Failed

\* One item of each type, a comma before each but the first.
ConvertTuple(ty, s, i) ==
  LET b == EatBlank(s, i)
      item(acc, j) ==
        LET c == IF j = 1 THEN acc.next ELSE EatBlank(s, acc.next)
            r == Convert(ty.items[j], s, IF j = 1 THEN c ELSE c + 1)
        IN  IF acc.ok /\ (j = 1 \/ At(s, c) = ",") /\ r.ok
            THEN Read(Append(acc.value, r.value), r.next) ELSE [acc EXCEPT !.ok = FALSE]
      all == FoldLeftDomain(item, Read(<<>>, b + 1), ty.items)
      e == EatBlank(s, all.next)
  IN  IF At(s, b) = "{" /\ all.ok /\ At(s, e) = "}" THEN Read(all.value, e + 1) ELSE Failed

Convert(ty, s, i) ==
  CASE ty.kind = "bool" -> ConvertBool(s, i)
    [] ty.kind = "number" -> ConvertNumber(s, i)
    [] ty.kind = "string" -> ConvertString(s, i)
    [] ty.kind = "list" -> ConvertList(ty, s, i)
    [] ty.kind = "tuple" -> ConvertTuple(ty, s, i)

\* convert_toplevel of a list or a tuple: nothing but blanks may follow.
ConvertToplevel(ty, s) ==
  LET r == Convert(ty, s, 1)
  IN  IF r.ok /\ EatBlank(s, r.next) > Len(s) THEN r ELSE Failed

------------------------------------------------------------------------------
(* parse.py.                                                               *)

RECURSIVE Rewrite(_, _, _)

\* Fault: strings are not looked for.
RewriteAll(s, i, out) ==
  IF i > Len(s) THEN Read(out, i)
  ELSE Rewrite(s, i + 1, Append(out, CASE s[i] = "{" -> "tuple([" [] s[i] = "}" -> "])" [] OTHER -> s[i]))

\* erlang_to_python from i on: tuples become calls, strings stay as they are.
Rewrite(s, i, out) ==
  LET e == StringEnd(s, i + 1, s[i])
  IN  CASE i > Len(s) -> Read(out, i)
        [] At(s, i) = "{" -> Rewrite(s, i + 1, Append(out, "tuple(["))
        [] At(s, i) = "}" -> Rewrite(s, i + 1, Append(out, "])"))
        [] At(s, i) \in Quotes -> IF e > Len(s) THEN Failed ELSE Rewrite(s, e + 1, out \o SubSeq(s, i, e))
        [] OTHER -> Rewrite(s, i + 1, Append(out, s[i]))

------------------------------------------------------------------------------
Init == text = <<>> /\ chunks = 0

Next ==
  /\ chunks < MaxChunks
  /\ chunks' = chunks + 1
  /\ \E c \in Chunk : text' = text \o c

Spec == Init /\ [][Next]_<<text, chunks>>

------------------------------------------------------------------------------
(* The grammar: the value a text denotes, in a set, or the empty set.      *)

TrimLeft(s) ==
  LET n == CHOOSE m \in 0 .. Len(s) : (\A i \in 1 .. m : s[i] = " ") /\ (m = Len(s) \/ s[m + 1] # " ")
  IN  SubSeq(s, n + 1, Len(s))
TrimRight(s) == Reverse(TrimLeft(Reverse(s)))

\* A character is escaped when an odd number of backslashes precede it.
Escaped(w, i) ==
  \E j \in 1 .. i - 1 : /\ \A k \in j .. i - 1 : w[k] = "\\"
                        /\ (j = 1 \/ w[j - 1] # "\\")
                        /\ (i - j) % 2 = 1

RECURSIVE Denotes(_, _)

\* The items between the brackets of t, cut at some of its commas.
Parts(ty, t) ==
  LET commas == {i \in 2 .. Len(t) - 1 : t[i] = ","}
      pieces(C) == LET c == SetToSortSeq(C \cup {1, Len(t)}, <)
                   IN  [k \in 1 .. Cardinality(C) + 1 |-> TrimRight(SubSeq(t, c[k] + 1, c[k + 1] - 1))]
      type(k) == IF ty.kind = "list" THEN ty.items[1] ELSE ty.items[k]
      cuts == {C \in SUBSET commas : ty.kind = "tuple" => Cardinality(C) + 1 = Len(ty.items)}
      good == {C \in cuts : LET p == pieces(C) IN \A k \in DOMAIN p : Denotes(type(k), p[k]) # {}}
  IN  {LET p == pieces(C) IN [k \in DOMAIN p |-> CHOOSE v \in Denotes(type(k), p[k]) : TRUE] : C \in good}

Denotes(ty, s) ==
  LET t == TrimLeft(s)
      n == Len(t)
      between(o, c) == n >= 2 /\ t[1] = o /\ t[n] = c
      w == IF n > 0 /\ t[1] = "-" THEN Tail(t) ELSE t
  IN  CASE ty.kind = "bool" -> IF t \in {<<"0">>, <<"1">>} THEN {t[1]} ELSE {}
        [] ty.kind = "number" -> IF (\A i \in DOMAIN w : w[i] \in Digits) /\ IsNumber(w) THEN {t} ELSE {}
        [] ty.kind = "string" ->
             IF /\ \E q \in Quotes : between(q, q)
                /\ \A i \in 2 .. n : t[i] = t[1] => (i = n <=> ~Escaped(Tail(t), i - 1))
             THEN {SubSeq(t, 2, n - 1)} ELSE {}
        [] ty.kind = "list" -> IF between("[", "]") THEN Parts(ty, t) ELSE {}
        [] ty.kind = "tuple" -> IF between("{", "}") THEN Parts(ty, t) ELSE {}

(* Properties.                                                             *)

\* convert_toplevel reads the texts that denote a value, as that value, and
\* no others, whatever is nested, escaped or blank.  No text is an empty list.
ReadsTheGrammar ==
  \A ty \in Types :
    LET r == ConvertToplevel(ty, text)
    IN  Denotes(ty, TrimRight(text)) = IF r.ok THEN {r.value} ELSE {}

\* Where a text is, one character after the other: outside of strings, or in
\* one that began with some quote, perhaps after a backslash.
Where(s) ==
  FoldLeft(LAMBDA w, c : CASE w.quote = "" -> [quote |-> IF c \in Quotes THEN c ELSE "", escape |-> FALSE]
                           [] w.quote # "" /\ w.escape -> [w EXCEPT !.escape = FALSE]
                           [] OTHER -> [quote |-> IF c = w.quote THEN "" ELSE w.quote, escape |-> c = "\\"],
           [quote |-> "", escape |-> FALSE], s)

\* erlang_to_python rewrites the braces outside of strings, and fails for the
\* texts that end in one.
RewritesOutsideStrings ==
  LET r == Rewrite(text, 1, <<>>)
      plain(i) == Where(SubSeq(text, 1, i - 1)).quote = ""
  IN  /\ r.ok = (Where(text).quote = "")
      /\ r.ok => r.value = [i \in DOMAIN text |-> CASE text[i] = "{" /\ plain(i) -> "tuple(["
                                                    [] text[i] = "}" /\ plain(i) -> "])"
                                                    [] OTHER -> text[i]]

\* Both readers of a cell's text keep to the grammar.
CellsRight == ReadsTheGrammar /\ RewritesOutsideStrings
==============================================================================
