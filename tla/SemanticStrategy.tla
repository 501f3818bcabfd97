--------------------------- MODULE SemanticStrategy ---------------------------
(***************************************************************************)
(* The semantic strategy of the automatic model selection, as operators:   *)
(* internal/router/strategies/semantic.  The rules filter the candidates,  *)
(* the analyzer, a model of its own, gives the request a label, and the    *)
(* scores for that label order them.  What the rules let pass and what the *)
(* analyzer answers is open: both depend on the text of the request.       *)
(*                                                                         *)
(* A routing is a record with the fields of config.RoutingConfig, and      *)
(* ruled: whether there are rules.  A label that the scores of a candidate *)
(* leave out has a score of zero.                                          *)
(***************************************************************************)
EXTENDS Candidates

CONSTANTS
    Labels,     \* the labels that the analyzer may answer with
    NoLabel,    \* no label: it failed, or answered with none of them
    Alphabet    \* the names of the models in alphabetical order

(* filterEnabled. *)
FilterEnabled(candidates) == Among(candidates, {c \in Range(candidates) : c.enabled})

(* order[name] of indexMap: the last position, and zero for a name that is *)
(* not in the list, like for the first name of it.                         *)
Position(name, order) ==
    LET at == {i \in DOMAIN order : order[i] = name}
    IN  IF at = {} THEN 0 ELSE Max(at) - 1

BreaksTie(c, d, tieBreakOrder) ==
    Position(c.model, tieBreakOrder) < Position(d.model, tieBreakOrder)

IsNamedBefore(c, d) == Position(c.model, Alphabet) < Position(d.model, Alphabet)

Dedup(names) ==
    EntriesAt(names, Ascending({i \in DOMAIN names : \A j \in 1..(i - 1) : names[j] # names[i]}))

(* selectFallback, for a request whose model is "auto". *)
SelectFallback(routing) ==
    IF routing.fallbackModelName = NoModel THEN "auto" ELSE routing.fallbackModelName

(* The fallback is the last to be tried. *)
WithFallback(names, routing) ==
    IF routing.fallbackModelName \in Range(names) \union {NoModel} THEN names
    ELSE Append(names, routing.fallbackModelName)

Scores(c, label) == IF label = NoLabel THEN 0 ELSE c.scores[label]

(* Mutant: the tie-break list comes first, and only then the scores. *)
TieBreakFirst(label, candidates, routing) ==
    LET GoesBefore(c, d) ==
            \/ BreaksTie(c, d, routing.tieBreakOrder)
            \/ ~BreaksTie(d, c, routing.tieBreakOrder) /\ Scores(c, label) > Scores(d, label)
    IN  WithFallback(Dedup(ModelsOf(StableSort(candidates,
                           {p \in Pairs(candidates) : GoesBefore(p[1], p[2])}))), routing)

(* The code sorts by score and then, within equal scores, by the tie-break *)
(* list; without a label by that list, or by name if there is none.        *)
Outranks(label, routing, c, d) ==
    \/ Scores(c, label) > Scores(d, label)
    \/ /\ Scores(c, label) = Scores(d, label)
       /\ \/ BreaksTie(c, d, routing.tieBreakOrder)
          \/ label = NoLabel /\ routing.tieBreakOrder = <<>> /\ IsNamedBefore(c, d)

(* orderCandidatesByLabel: the list for degradation. *)
OrderCandidatesByLabel(label, candidates, routing) ==
    LET sorted == StableSort(candidates,
                             {p \in Pairs(candidates) : Outranks(label, routing, p[1], p[2])})
    IN  WithFallback(Dedup(ModelsOf(sorted)), routing)

(* The best score, if one is not negative, and the candidates that have it. *)
BestScore(label, candidates) ==
    Max({-1} \union {Scores(c, label) : c \in Range(candidates)})

Winners(label, candidates) ==
    Among(candidates, {c \in Range(candidates) :
                         Scores(c, label) = BestScore(label, candidates)})

WinsTie(routing, c, d) ==
    IF routing.tieBreakOrder # <<>> THEN BreaksTie(c, d, routing.tieBreakOrder)
    ELSE IsNamedBefore(c, d)

(* selectByLabelFromCandidates: the model that the client is told of. *)
SelectByLabel(label, candidates, routing) ==
    LET best == BestScore(label, candidates)
        winners == Winners(label, candidates)
    IN  IF best < 0 \/ best < routing.minScore THEN SelectFallback(routing)
        ELSE StableSort(winners, {p \in Pairs(winners) : WinsTie(routing, p[1], p[2])})[1].model

-----------------------------------------------------------------------------
(* applyRuleEngine: what may come of the rules.  Any of the models         *)
(* qualify, in any order.  When none does, or the rules fail, the analyzer *)
(* is left out if there is a fallback; all candidates are kept and it is   *)
(* asked when no rule can be read, or when those that qualify, which the   *)
(* request may list itself, are no candidates.                             *)
Passed(candidates, names) ==
    Among(candidates, {c \in Range(candidates) : c.model \in Range(names)})

ByPlace(names, candidates) ==
    {p \in Pairs(candidates) : Position(p[1].model, names) < Position(p[2].model, names)}

Qualified(candidates) ==
    {[candidates |-> StableSort(Passed(candidates, names),
                                ByPlace(names, Passed(candidates, names))),
      analyzed |-> TRUE] :
        names \in SetToAllKPermutations(Range(ModelsOf(candidates))) \ {<<>>}}

ApplyRuleEngine(candidates, routing) ==
    IF ~routing.ruled THEN {[candidates |-> candidates, analyzed |-> TRUE]}
    ELSE Qualified(candidates)
           \union {[candidates |-> candidates, analyzed |-> analyzed] :
                     analyzed \in {TRUE, routing.fallbackModelName = NoModel}}

(* The analyzer is asked until a label is found in its answer, four times  *)
(* at most and no longer than totalTimeoutMs.                              *)
Answers(outcome) == IF outcome.analyzed THEN Labels \union {NoLabel} ELSE {NoLabel}

(* Run: the model, and the list for degradation. *)
SelectedModel(label, candidates, routing) ==
    IF label = NoLabel THEN SelectFallback(routing)
    ELSE SelectByLabel(label, candidates, routing)
==============================================================================
