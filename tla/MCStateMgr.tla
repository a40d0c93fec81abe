---------------------------- MODULE MCStateMgr ----------------------------
(* A tree with all that a transition distinguishes: a concurrent state with *)
(* two regions, one of them a super state with history, and a state beside  *)
(* it to come from and to go to.                                            *)
EXTENDS StateMgr, TLC

MCParent ==
    "X" :> "none" @@ "P" :> "X" @@ "C" :> "X" @@
    "R" :> "C" @@ "R1" :> "R" @@ "R2" :> "R" @@ "D" :> "C"

MCOrder == <<"X", "P", "C", "R", "R1", "R2", "D">>

MCType ==
    [s \in {"P", "R1", "R2", "D"} |-> "eSub"] @@
    [s \in {"X", "R"} |-> "eSuper"] @@ "C" :> "eConc"
=============================================================================
