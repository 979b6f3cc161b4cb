-------------------------------- MODULE Rosca --------------------------------
(***************************************************************************)
(* What a circle promises: a rotating savings club.  People enrol, some of *)
(* them lose or regain their standing, everybody pays into the pot of the  *)
(* round in progress at most once, and the pot of each round is awarded to *)
(* a person in standing who has not been awarded a pot before.  A patient  *)
(* club waits until everybody in standing has paid; one with a deadline    *)
(* need not, and may drop the absent in the step that awards the pot.      *)
(***************************************************************************)
EXTENDS Naturals, FiniteSets

CONSTANTS Person, Round, Patient

VARIABLES
    roster,      \* everybody who ever enrolled
    standing,    \* those in good standing
    pots,        \* who has paid into the pot of each round
    round,       \* the round in progress
    winners      \* who has been awarded a pot

vars == <<roster, standing, pots, round, winners>>

Init ==
    /\ roster = {} /\ standing = {} /\ winners = {}
    /\ pots = [r \in Round |-> {}]
    /\ round = 0

Enrol(P) ==
    /\ P \cap roster = {}
    /\ roster' = roster \cup P
    /\ standing' = standing \cup P
    /\ UNCHANGED <<pots, round, winners>>

Restand ==
    /\ standing' \in SUBSET roster
    /\ UNCHANGED <<roster, pots, round, winners>>

Pay(p) ==
    /\ p \in roster /\ round \in Round /\ p \notin pots[round]
    /\ pots' = [pots EXCEPT ![round] = @ \cup {p}]
    /\ UNCHANGED <<roster, standing, round, winners>>

Award(w) ==
    /\ Patient => standing \subseteq pots[round]
    /\ standing' \in SUBSET standing
    /\ w \in standing' \ winners
    /\ winners' = winners \cup {w}
    /\ round' = round + 1
    /\ UNCHANGED <<roster, pots>>

Next ==
    \/ \E P \in SUBSET Person : Enrol(P)
    \/ Restand
    \/ \E p \in Person : Pay(p) \/ Award(p)

Spec == Init /\ [][Next]_vars

\* There have been as many rounds as winners, who enrolled: so a club has no
\* more rounds than people.
OneRoundPerWinner ==
    /\ IsFiniteSet(winners) /\ winners \subseteq roster /\ standing \subseteq roster
    /\ round = Cardinality(winners)
=============================================================================
