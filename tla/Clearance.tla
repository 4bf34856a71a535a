----------------------------- MODULE Clearance -----------------------------
(***************************************************************************)
(* What the scheduler promises about clearance, without saying how it      *)
(* decides: who may hold which block, and under what condition a holding   *)
(* may grow.  Scheduler is the detailed specification that implements it.  *)
(*                                                                         *)
(* cleared[t] is the set of blocks train t holds; held[t] says that its    *)
(* position is in doubt (block_reason = 'unknown_topology').               *)
(***************************************************************************)
EXTENDS Track

CONSTANT Train
VARIABLES cleared, held

clearanceVars == <<cleared, held>>

TypeOK ==
    /\ cleared \in [Train -> SUBSET EdgeRef]
    /\ held \in [Train -> BOOLEAN]

(* No other train holds a block that touches e. *)
Free(t, e) == \A u \in Train \ {t} : ~AnyEdgeSharesMarker(cleared[u], e)

OthersKeep(t) == \A u \in Train \ {t} : cleared'[u] = cleared[u] /\ held'[u] = held[u]

Init ==
    /\ cleared = [t \in Train |-> {}]
    /\ held = [t \in Train |-> FALSE]

(* Blocks are added to a train's holding only while no other train touches them. *)
Claim(t) ==
    /\ cleared[t] \subseteq cleared'[t]
    /\ \A e \in cleared'[t] \ cleared[t] : Free(t, e)
    /\ held'[t] = held[t]

(* Any part of a holding may be given back. *)
Release(t) ==
    /\ cleared'[t] \subseteq cleared[t]
    /\ held'[t] = held[t]

(* A report that contradicts the graph: the train is held, and the span    *)
(* between the last certain marker and the reported one counts as occupied *)
(* whoever else touches it.                                                *)
Suspect(t) ==
    /\ \E e \in EdgeRef : cleared'[t] = cleared[t] \cup {e}
    /\ held'[t]

(* Doubt about a train ends only together with everything it holds. *)
Recover(t) ==
    /\ cleared'[t] = {}
    /\ ~held'[t]

(* The scheduler forgets everything. *)
Forget ==
    /\ cleared' = [t \in Train |-> {}]
    /\ held' = [t \in Train |-> FALSE]

TrainNext ==
    \E t \in Train :
        /\ TypeOK'
        /\ OthersKeep(t)
        /\ \/ Claim(t)
           \/ Release(t)
           \/ Suspect(t)
           \/ Recover(t)

Next == TrainNext \/ Forget

Spec == Init /\ [][Next]_clearanceVars

-----------------------------------------------------------------------------
(* Block exclusivity (ADR-011): blocks of two different trains share no    *)
(* marker, unless the position of one of the two is in doubt.              *)
Exclusive ==
    \A t, u \in Train :
        t # u /\ ~held[t] /\ ~held[u] =>
            \A e \in cleared[t] : ~AnyEdgeSharesMarker(cleared[u], e)
=============================================================================
