-------------------------------- MODULE Tools --------------------------------
(***************************************************************************)
(* The parts of the programs beside the library that the proofs are about: *)
(* the types of a sheet, the search over a map and the search for a move.  *)
(***************************************************************************)
EXTENDS SheetTypes

CONSTANT Vertices                                                \* Visit
CONSTANTS Moves, MaxGain, MaxDepth                               \* Think

VARIABLES
  edges, found, turn, processed, past,
  gain, rival, over, history, marks, frames, result

V == INSTANCE Visit WITH stack <- found, i <- turn
K == INSTANCE Think

ASSUME VisitAssumed == V!VisitAssumption
ASSUME ThinkAssumed == K!ThinkAssumption

\* breadth_first_search of visitor.h has processed all that can be reached, once
\* and the nearest first, when its loop reads behind the end.
VisitsInOrder == V!VisitsInOrder

\* calculateBestOperation of visitor.h answers with the line of best moves and
\* takes back every move it plays on the status.
ThinkCorrect == K!ThinkCorrect
==============================================================================
