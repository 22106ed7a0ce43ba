---------------------------- MODULE EffectLicense ---------------------------
(***************************************************************************)
(* What the ledgers of ordin.swarm promise about one-shot effects.  Each   *)
(* item of work is held, licensed at most once, and run at most once under *)
(* its license.  Units are given back only before the license, or after it *)
(* when the license is dead and nothing was run.                           *)
(***************************************************************************)
EXTENDS Naturals

CONSTANT Items

VARIABLES
    phase,   \* "free", "held", "licensed", "charged" or "refunded"
    permit,  \* items whose holder was told to run them and has not
    runs     \* how often an item's effect was run

licenseVars == <<phase, permit, runs>>

Init ==
    /\ phase = [x \in Items |-> "free"]
    /\ permit = {}
    /\ runs = [x \in Items |-> 0]

\* The moves of one item's accounting.
Moves(x) ==
    \/ phase'[x] = phase[x]
    \/ phase[x] = "free" /\ phase'[x] = "held"
    \/ phase[x] = "held" /\ phase'[x] \in {"refunded", "licensed"}
    \/ phase[x] = "licensed" /\ phase'[x] = "charged"
    \/ /\ phase[x] \in {"licensed", "charged"} /\ phase'[x] = "refunded"
       /\ x \notin permit /\ runs[x] = 0

\* A license is handed out in the very step that takes the item out of "held".
Licenses(x) ==
    x \in permit' \ permit => phase[x] = "held" /\ phase'[x] = "licensed"

\* An effect uses up the license.
Runs(x) ==
    \/ runs'[x] = runs[x]
    \/ x \in permit \ permit' /\ runs'[x] = runs[x] + 1

Next == \A x \in Items : Moves(x) /\ Licenses(x) /\ Runs(x)

Spec == Init /\ [][Next]_licenseVars
=============================================================================
