---------------------------- MODULE MCTurnProofs ----------------------------
(* What one request does to a project, put together: a behaviour of MCTurn  *)
(* is one of the turn, of the undo and of the generation, so that what is    *)
(* proved of each of them alone holds of it.                                *)
EXTENDS MCTurn, UndoProofs, TurnProofs, ToolProofs

\* A behaviour of the three side by side is a behaviour of each of them.
LEMMA AnyIsEach == AnySpec => Spec /\ TurnSpec /\ GenSpec
<1>0. AnyInit => Init /\ TurnInit /\ GenInit
  BY DEF AnyInit
<1>1. [AnyNext]_<<which, vars, turnVars, genVars>> => [Next]_vars
  BY DEF AnyNext
<1>2. [AnyNext]_<<which, vars, turnVars, genVars>> => [TurnNext]_turnVars
  BY DEF AnyNext
<1>3. [AnyNext]_<<which, vars, turnVars, genVars>> => [GenNext]_genVars
  BY DEF AnyNext
<1> QED
  BY <1>0, <1>1, <1>2, <1>3, PTL DEF AnySpec, Spec, TurnSpec, GenSpec

\* Put together, the undo, the turn and the generation keep the types of their
\* variables.
THEOREM RequestTyped == ASSUME LoopBounds PROVE AnySpec => []TypesOK
<1>1. GenInv => GenTypeOK
  BY DEF GenInv, GenTypeOK
<1>2. TurnSpec => []TurnTypeOK
  BY TurnTyped
<1> QED
  BY <1>1, <1>2, AnyIsEach, UndoTyped, GenInductive, PTL DEF TypesOK
=============================================================================
