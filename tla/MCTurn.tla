------------------------------- MODULE MCTurn -------------------------------
(* Small instances for TLC of what one request does to a project: the       *)
(* rounds of its turn, the undo of what it wrote, and the restore points of *)
(* a generation. The three share no state here: a behaviour is a behaviour  *)
(* of the one that "which" names.                                           *)
EXTENDS Undo, TurnLoop, GenRun, TLC

VARIABLE which

AnyInit ==
    /\ which \in {"turn", "undo", "gen"} /\ Init /\ TurnInit /\ GenInit
    /\ which # "undo" => hidden = {} /\ project = Nowhere
    /\ which # "turn" => ask = "plain"
    /\ which # "gen" => tree = Empty

AnyNext ==
    /\ which' = which
    /\ \/ which = "undo" /\ Next /\ UNCHANGED <<turnVars, genVars>>
       \/ which = "turn" /\ TurnNext /\ UNCHANGED <<vars, genVars>>
       \/ which = "gen" /\ GenNext /\ UNCHANGED <<vars, turnVars>>

AnySpec == AnyInit /\ [][AnyNext]_<<which, vars, turnVars, genVars>>

MCSymmetry == Permutations(Series)

-----------------------------------------------------------------------------
\* The variables keep their types.
TypesOK == TypeOK /\ TurnTypeOK /\ GenTypeOK
=============================================================================
