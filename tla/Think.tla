-------------------------------- MODULE Think --------------------------------
(***************************************************************************)
(* The search of an AI for its next move (src/logic/visitor.h, think and   *)
(* calculateBestOperation): a recursion over the moves of every position,  *)
(* which plays a move on the status, asks for the best reply to it, has    *)
(* the AI evaluate both, and takes the move back.  A frame of the          *)
(* recursion is a record of its locals.  The AI and the status are         *)
(* declared and not written: the status keeps a history, push() marks it   *)
(* and pop() goes back to the mark.                                        *)
(***************************************************************************)
EXTENDS Integers, SequencesExt, FiniteSetsExt

CONSTANTS
  Moves,      \* the moves of a position, in the order of possible_moves()
  MaxGain,    \* bound on what the AI gives for a position
  MaxDepth    \* bound on the depth of the game

ThinkAssumption == Moves \in Seq(STRING) /\ MaxGain \in Nat /\ MaxDepth \in Nat

Positions == UNION {[1 .. n -> Range(Moves)] : n \in 1 .. MaxDepth}

VARIABLES
  gain,      \* what the AI gives for each position
  rival,     \* whether a good reply makes a move worse for the AI, or better
  over,      \* positions without moves
  history,   \* status::_history
  marks,     \* what status::push() saved
  frames,    \* calls of calculateBestOperation, the innermost last
  result     \* what think() gives, once it returns

vars == <<gain, rival, over, history, marks, frames, result>>

possible_moves(position) ==
  IF Len(position) = MaxDepth \/ position \in over THEN <<>> ELSE Moves

\* A size_t: the reply of a rival leaves nothing of a move, and no less.
evaluate(position, score) ==
  IF rival THEN gain[position] - Min({score, gain[position]}) ELSE gain[position] + score

Frame(position) == [best |-> <<>>, maxScore |-> 0, ops |-> possible_moves(position)]

Init ==
  /\ gain \in [Positions -> 0 .. MaxGain]
  /\ rival \in BOOLEAN
  /\ over \in SUBSET {p \in Positions : Len(p) < MaxDepth}
  /\ history = <<>>
  /\ marks = <<>>
  /\ frames = <<Frame(<<>>)>>
  /\ result = <<>>

\* The next move of the innermost call: push, apply, and the call for the reply.
Try ==
  LET top == Last(frames)
      played == Append(history, Head(top.ops))
  IN  /\ frames # <<>> /\ top.ops # <<>>
      /\ marks' = Append(marks, Len(history))
      /\ history' = played
      /\ frames' = Append(frames, Frame(played))
      /\ UNCHANGED <<gain, rival, over, result>>

\* Fault: a later move of the same score takes the place of an earlier one.
JudgeAtLeast(caller, reply, score) ==
  LET rest == [caller EXCEPT !.ops = Tail(@)]
  IN  IF score >= caller.maxScore
      THEN [rest EXCEPT !.maxScore = score, !.best = <<Head(caller.ops)>> \o reply]
      ELSE rest

\* The caller's frame once it has the reply and the score of its move.
Judge(caller, reply, score) ==
  LET rest == [caller EXCEPT !.ops = Tail(@)]
  IN  IF score > caller.maxScore
      THEN [rest EXCEPT !.maxScore = score, !.best = <<Head(caller.ops)>> \o reply]
      ELSE rest

\* Fault: a move that is no better than the best is not taken back.
ReturnOnlyBest ==
  LET callee == Last(frames)
      n == Len(frames) - 1
      score == evaluate(history, callee.maxScore)
      better == score > frames[n].maxScore
  IN  /\ n > 0 /\ callee.ops = <<>>
      /\ frames' = [SubSeq(frames, 1, n) EXCEPT ![n] = Judge(@, callee.best, score)]
      /\ history' = IF better THEN SubSeq(history, 1, Last(marks)) ELSE history
      /\ marks' = IF better THEN Front(marks) ELSE marks
      /\ UNCHANGED <<gain, rival, over, result>>

\* A call for a reply has tried every move: its caller judges, and takes back.
Return ==
  LET callee == Last(frames)
      n == Len(frames) - 1
      score == evaluate(history, callee.maxScore)
  IN  /\ n > 0 /\ callee.ops = <<>>
      /\ frames' = [SubSeq(frames, 1, n) EXCEPT ![n] = Judge(@, callee.best, score)]
      /\ history' = SubSeq(history, 1, Last(marks))
      /\ marks' = Front(marks)
      /\ UNCHANGED <<gain, rival, over, result>>

\* think() has its answer.
Answer ==
  /\ Len(frames) = 1 /\ frames[1].ops = <<>>
  /\ frames' = <<>>
  /\ result' = frames[1].best
  /\ UNCHANGED <<gain, rival, over, history, marks>>

Next == Try \/ Return \/ Answer

Spec == Init /\ [][Next]_vars

------------------------------------------------------------------------------
(* Properties.                                                             *)

\* What the moves of a position are worth, looking as far ahead as there are any.
Worth[p \in Positions \cup {<<>>}] ==
  Max({0} \cup {evaluate(Append(p, m), Worth[Append(p, m)]) : m \in Range(possible_moves(p))})

\* The line of best moves: of two that are worth the same the first is taken, and
\* no move at all where none is worth more than nothing.
BestLine[p \in Positions \cup {<<>>}] ==
  LET ms == possible_moves(p)
      best == {i \in DOMAIN ms : evaluate(Append(p, ms[i]), Worth[Append(p, ms[i])]) = Worth[p]}
  IN  IF Worth[p] = 0 THEN <<>> ELSE <<ms[Min(best)]>> \o BestLine[Append(p, ms[Min(best)])]

\* think() answers with the line of best moves, for an AI that adds up what both
\* sides gain and for one that plays against the other.
AnswersBestLine == frames = <<>> => result = BestLine[<<>>]

\* While the search goes on every call still has to try moves of the position the
\* status had when it was called, and in the end the status is as it was.
StatusRestored ==
  /\ \A i \in DOMAIN frames :
       /\ i <= Len(history) + 1
       /\ IsSuffix(frames[i].ops, possible_moves(SubSeq(history, 1, i - 1)))
  /\ Len(history) = (IF frames = <<>> THEN 0 ELSE Len(frames) - 1)

\* The answer is the best line, and finding it leaves no trace on the status.
ThinkCorrect == AnswersBestLine /\ StatusRestored
==============================================================================
