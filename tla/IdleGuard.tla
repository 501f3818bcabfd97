------------------------------ MODULE IdleGuard ------------------------------
(***************************************************************************)
(* What the idle timer promises to the code that retries and switches      *)
(* models, without locks, generations or goroutines: a request has one     *)
(* idle budget and a row of attempts, one open at a time.                  *)
(*                                                                         *)
(* An open attempt may be charged for one idle period; the charge comes    *)
(* with a verdict that aborts it, or without one (after the first token).  *)
(* A line from upstream restores the budget and withdraws a verdict that   *)
(* was not yet read.  An attempt opened on an empty budget is dead at once *)
(* and has no verdict.                                                     *)
(***************************************************************************)
EXTENDS Naturals

CONSTANTS MaxAttempts, PerIdle, InitialBudget

Attempts == 1..MaxAttempts

VARIABLES
    budget,   \* idle budget left
    attempt,  \* number of the attempt in progress or last made
    phase,    \* phase[a]: "new", "open", "stopped"
    verdict   \* verdict[a]: "none", "per_idle", "total"

gvars == <<budget, attempt, phase, verdict>>

GInit ==
    /\ budget = InitialBudget
    /\ attempt = 0
    /\ phase = [a \in Attempts |-> "new"]
    /\ verdict = [a \in Attempts |-> "none"]

Open(a) ==
    /\ a = attempt + 1
    /\ attempt # 0 => phase[attempt] = "stopped"
    /\ attempt' = a
    /\ phase' = [phase EXCEPT ![a] = "open"]
    /\ UNCHANGED <<budget, verdict>>

Progress(a) ==
    /\ phase[a] = "open"
    /\ budget' = InitialBudget
    /\ verdict' = [verdict EXCEPT ![a] = "none"]
    /\ UNCHANGED <<attempt, phase>>

Charged == IF budget > PerIdle THEN budget - PerIdle ELSE 0

LogIdle(a) ==
    /\ phase[a] = "open"
    /\ verdict[a] = "none"
    /\ budget' = Charged
    /\ UNCHANGED <<attempt, phase, verdict>>

Abort(a) ==
    /\ phase[a] = "open"
    /\ budget' = Charged
    /\ verdict' = [verdict EXCEPT ![a] = IF Charged = 0 THEN "total" ELSE "per_idle"]
    /\ UNCHANGED <<attempt, phase>>

Close(a) ==
    /\ phase[a] = "open"
    /\ phase' = [phase EXCEPT ![a] = "stopped"]
    /\ UNCHANGED <<budget, attempt, verdict>>

GNext ==
    \E a \in Attempts :
        Open(a) \/ Progress(a) \/ LogIdle(a) \/ Abort(a) \/ Close(a)

GSpec == GInit /\ [][GNext]_gvars
=============================================================================
