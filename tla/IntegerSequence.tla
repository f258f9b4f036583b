--------------------------- MODULE IntegerSequence ---------------------------
(***************************************************************************)
(* The compile-time integer sequences of the RPC library                   *)
(* (common/rrpc/old/integer_sequence.hpp): seq<T, Elms...> and the         *)
(* recursive templates over it.  A step is the instantiation of one        *)
(* template; "inst" is what has to be instantiated next, and an instance   *)
(* that needs itself is an incomplete type: the program does not compile.  *)
(***************************************************************************)
EXTENDS Integers, Sequences, Functions

CONSTANTS
  MaxSize,   \* bound on the size of the first sequence
  MaxDist,   \* bound on the arguments
  Width      \* width of a size_t

SequenceAssumption ==
  /\ MaxSize \in Nat \ {0} /\ MaxDist \in Nat
  /\ Width \in Nat \ {0} /\ MaxDist + MaxSize < 2 ^ Width

VARIABLES
  goal,    \* the template the program names, its sequence and its arguments
  inst,    \* the instance wanted now
  seen,    \* the instances it is wanted by
  type,    \* ::type of the goal, once known
  state    \* "instantiating", "done" or "circular"

vars == <<goal, inst, seen, type, state>>

Wrap(n) == n % 2 ^ Width
Ladder(n, begin, step) == [i \in 1 .. n |-> begin + (i - 1) * step]

\* seq_pop_front, push_back, and select_value: element n, from 0, with which at,
\* front and back are made.
PopFront(seq) == Tail(seq)
PushBack(seq, value) == Append(seq, value)
SelectValue(seq, n) == seq[n + 1]
FrontValue(seq) == SelectValue(seq, 0)
BackValue(seq) == SelectValue(seq, Len(seq) - 1)

\* seq_shift_left<seq, 1>
RotateOne(seq) == PushBack(PopFront(seq), FrontValue(seq))

ShiftLeft(seq, dist) == [of |-> "shift_left", seq |-> seq, dist |-> dist]

ShiftRight(seq, dist) == ShiftLeft(seq, Wrap(Len(seq) - (dist % Len(seq))))

\* Fault: the distance keeps its sign.
ShiftBySigned(seq, dist) == IF dist > 0 THEN ShiftRight(seq, dist) ELSE ShiftLeft(seq, Wrap(dist))
\* The alias that is not chosen is named and never instantiated.
ShiftBy(seq, dist) == IF dist > 0 THEN ShiftRight(seq, dist) ELSE ShiftLeft(seq, -dist)

PushLadder(seq, n, begin, step) ==
  [of |-> "push_ladder", seq |-> seq, n |-> n, begin |-> begin, step |-> step]

PartialSum(out, in, cnt) == [of |-> "partial_sum", seq |-> out, in |-> in, cnt |-> cnt]

Init ==
  /\ \E size \in 0 .. MaxSize, d \in -MaxDist .. MaxDist, e \in 1 .. 2 :
       LET s == Ladder(size, e, 2)
       IN  \/ /\ size > 0 /\ d >= 0
              /\ goal = [of |-> "shift_left", seq |-> s, by |-> -d] /\ inst = ShiftLeft(s, d)
           \/ /\ size > 0 /\ d >= 0
              /\ goal = [of |-> "shift_right", seq |-> s, by |-> d] /\ inst = ShiftRight(s, d)
           \/ /\ size > 0
              /\ goal = [of |-> "shift", seq |-> s, by |-> d] /\ inst = ShiftBy(s, d)
           \/ /\ d >= 0
              /\ goal = [of |-> "push_ladder", seq |-> s, add |-> Ladder(d, e, e)]
              /\ inst = PushLadder(s, d, e, e)
           \/ /\ d >= 0
              /\ goal = [of |-> "push_ladder", seq |-> <<>>, add |-> Ladder(d, 0, 1)]
              /\ inst = PushLadder(<<>>, d, 0, 1)   \* make_integer_sequence
           \/ /\ size > 0
              /\ goal = [of |-> "partial_sum", seq |-> s]
              /\ inst = PartialSum(<<FrontValue(s)>>, PopFront(s), size - 1)
  /\ seen = {}
  /\ type = <<>>
  /\ state = "instantiating"

Is(template) == state = "instantiating" /\ inst \notin seen /\ inst.of = template

Needs(next) ==
  /\ inst' = next
  /\ seen' = seen \cup {inst}
  /\ UNCHANGED <<goal, type, state>>

Ends(result) ==
  /\ type' = result
  /\ state' = "done"
  /\ UNCHANGED <<goal, inst, seen>>

\* Fault: the step that was taken is not subtracted.
ShiftMoreSame ==
  /\ Is("shift_left") /\ inst.dist \notin {0, 1}
  /\ Needs(ShiftLeft(RotateOne(inst.seq), inst.dist % Len(inst.seq)))

\* seq_shift_left: one rotation, and the rest of the distance; a multiple of the
\* size leaves 0, and one less is the greatest size_t.
ShiftMore ==
  /\ Is("shift_left") /\ inst.dist \notin {0, 1}
  /\ Needs(ShiftLeft(RotateOne(inst.seq), Wrap((inst.dist % Len(inst.seq)) - 1)))

\* Its specialisations.
ShiftOne == Is("shift_left") /\ inst.dist = 1 /\ Ends(RotateOne(inst.seq))
ShiftNone == Is("shift_left") /\ inst.dist = 0 /\ Ends(inst.seq)

\* push_back<begin>, and the ladder of what it gives.
LadderMore ==
  /\ Is("push_ladder") /\ inst.n > 0
  /\ Needs(PushLadder(PushBack(inst.seq, inst.begin), inst.n - 1, inst.begin + inst.step, inst.step))

LadderEnd == Is("push_ladder") /\ inst.n = 0 /\ Ends(inst.seq)

\* Fault: the element is added to the first sum.
SumMoreFront ==
  /\ Is("partial_sum") /\ inst.cnt > 0
  /\ Needs(PartialSum(PushBack(inst.seq, FrontValue(inst.seq) + FrontValue(inst.in)), PopFront(inst.in),
                      inst.cnt - 1))

\* partial_sum::detail: the last sum and the next element.
SumMore ==
  /\ Is("partial_sum") /\ inst.cnt > 0
  /\ Needs(PartialSum(PushBack(inst.seq, BackValue(inst.seq) + FrontValue(inst.in)), PopFront(inst.in),
                      inst.cnt - 1))

SumEnd == Is("partial_sum") /\ inst.cnt = 0 /\ Ends(inst.seq)

\* The instance is wanted by itself.
Incomplete ==
  /\ state = "instantiating" /\ inst \in seen
  /\ state' = "circular"
  /\ UNCHANGED <<goal, inst, seen, type>>

Next ==
  \/ ShiftMore \/ ShiftOne \/ ShiftNone
  \/ LadderMore \/ LadderEnd
  \/ SumMore \/ SumEnd
  \/ Incomplete

Spec == Init /\ [][Next]_vars

------------------------------------------------------------------------------
(* Properties.                                                             *)

\* A shift that compiles moves every element by the distance, around the end, to
\* the right when it is positive.  Not so when the distance is a multiple of the
\* size: it may wrap, and then the elements are moved by 2^Width to the left, which
\* is nowhere only when the size is a power of two.
ShiftsRotate ==
  "by" \in DOMAIN goal /\ state = "done" =>
    /\ Len(type) = Len(goal.seq)
    /\ \E by \in IF goal.by % Len(type) = 0 THEN {0, -(2 ^ Width)} ELSE {goal.by} :
         \A i \in DOMAIN type : type[((i - 1 + by) % Len(type)) + 1] = goal.seq[i]

\* It does not compile only when there is nothing to move: the distance is a
\* multiple of the size.
ShiftsCompile ==
  state = "circular" => "by" \in DOMAIN goal /\ goal.by % Len(goal.seq) = 0

\* push_ladder<n, begin, step> puts n steps behind the sequence, and partial_sum
\* gives the sum of every prefix.
LaddersAndSums ==
  state = "done" =>
    /\ goal.of = "push_ladder" => type = goal.seq \o goal.add
    /\ goal.of = "partial_sum" =>
         /\ Len(type) = Len(goal.seq)
         /\ \A i \in DOMAIN type : type[i] = SumFunctionOnSet(goal.seq, 1 .. i)

\* What compiles is what its name says, and all compiles but whole turns.
SequencesRight == ShiftsRotate /\ ShiftsCompile /\ LaddersAndSums
==============================================================================
