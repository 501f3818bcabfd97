--------------------------- MODULE PriorityStrategy ---------------------------
(***************************************************************************)
(* The priority strategy of the automatic model selection, as operators:   *)
(* internal/router/strategies/priority.  Which candidates a user sees,     *)
(* which group the request goes to, the smooth weighted round robin inside *)
(* it, and the list of models that degradation walks through.              *)
(*                                                                         *)
(* A candidate is a record with the fields of config.PriorityCandidate.  A *)
(* user is [vip, expired]; a request without an identity is that of a user *)
(* with vip 0, for whom isCandidateVisible answers the same.               *)
(***************************************************************************)
EXTENDS Candidates

(* validateConfig. *)
IsValid(candidates) ==
    /\ \A i \in DOMAIN candidates :
         /\ candidates[i].model # NoModel
         /\ candidates[i].priority \in 0..999
         /\ candidates[i].weight \in 1..100
         /\ candidates[i].minVipLevel >= 0
    /\ \E i \in DOMAIN candidates : candidates[i].enabled

-----------------------------------------------------------------------------
(* Visibility and the selected group.                                      *)

IsVisible(c, user) ==
    \/ c.minVipLevel = 0
    \/ user.vip >= c.minVipLevel /\ ~user.expired

(* Only enabled candidates are put into groups. *)
Usable(user, candidates) ==
    {c \in Range(candidates) : c.enabled /\ IsVisible(c, user)}

VisibleTo(user, candidates) == Among(candidates, Usable(user, candidates))

(* The group with the lowest number of those with a visible candidate. *)
SelectedPriority(user, candidates) == Min({c.priority : c \in Usable(user, candidates)})

SelectedVisible(user, candidates) ==
    Among(candidates, {c \in Usable(user, candidates) :
                         c.priority = SelectedPriority(user, candidates)})

-----------------------------------------------------------------------------
(* The round robin of one group.                                           *)

(* Mutant: all sets of visible models of a group share their weights. *)
KeyOfGroup(group) == group[1].priority

(* The group, and buildVisibleSetKey: the names in their order. *)
KeyOf(group) == <<group[1].priority, ModelsOf(group)>>

Weights(group) == [i \in DOMAIN group |-> group[i].weight]

TotalWeight(group) == SumFunction(Weights(group))

NoWeights(group) == [i \in DOMAIN group |-> 0]

Raised(group, weights) == [i \in DOMAIN group |-> weights[i] + group[i].weight]

(* The first of the heaviest; the first of all when none is above -1. *)
Heaviest(group, weights) ==
    LET raised == Raised(group, weights)
        best == Max(Range(raised))
    IN  IF best > -1 THEN Min({i \in DOMAIN group : raised[i] = best}) ELSE 1

Charged(group, weights) ==
    [Raised(group, weights) EXCEPT ![Heaviest(group, weights)] = @ - TotalWeight(group)]

-----------------------------------------------------------------------------
(* The list for degradation.                                               *)

GoesBefore(c, d) ==
    \/ c.priority < d.priority
    \/ c.priority = d.priority /\ c.weight > d.weight

(* buildOrderedCandidates. *)
OrderedCandidates(selected, visible) ==
    LET sorted == StableSort(visible, {p \in Pairs(visible) : GoesBefore(p[1], p[2])})
    IN  <<selected>> \o Among(ModelsOf(sorted), Range(ModelsOf(sorted)) \ {selected})

(* Mutant: the fallback is appended whether the user sees it or not. *)
AppendFallback(ordered, visible, fallback) ==
    IF fallback = NoModel \/ fallback \in Range(ordered) THEN ordered
    ELSE Append(ordered, fallback)

(* appendVisibleFallback. *)
AppendVisibleFallback(ordered, visible, fallback) ==
    IF \/ fallback = NoModel
       \/ fallback \in Range(ordered)
       \/ fallback \notin Range(ModelsOf(visible))
    THEN ordered
    ELSE Append(ordered, fallback)
==============================================================================
