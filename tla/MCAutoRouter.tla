----------------------------- MODULE MCAutoRouter -----------------------------
(* Configurations and users for model checking AutoRouter. *)
EXTENDS AutoRouter

Candidate(m, p, w, vip) ==
    [model |-> m, enabled |-> TRUE, priority |-> p, weight |-> w, minVipLevel |-> vip]

NoRouting == [candidates |-> <<>>, minScore |-> 0, tieBreakOrder |-> <<>>,
              fallbackModelName |-> NoModel, ruled |-> FALSE]

Configuration(strategy, candidates, fallback) ==
    [enabled |-> TRUE, strategy |-> strategy, idleTimeoutMs |-> [s \in Sections |-> 0],
     candidates |-> candidates, fallback |-> fallback, routing |-> NoRouting]

Disabled(m) == [Candidate(m, 0, 1, 0) EXCEPT !.enabled = FALSE]

Scored(m, plan, code) ==
    [model |-> m, enabled |-> TRUE, scores |-> [plan |-> plan, code |-> code]]

Unscored(m) == [Scored(m, 0, 0) EXCEPT !.enabled = FALSE]

(* "shared": one group for all users, in which a member sees one model     *)
(* more, nobody another one, and two weights tie; a second group, a        *)
(* disabled candidate, and a fallback for members only.  "members": one    *)
(* model, for members only, with a timeout of its own.  "unnamed": no      *)
(* strategy is named, which means the semantic one; rules, a candidate     *)
(* listed twice, equal scores, and scores for "code" that are too low.     *)
(* "off": the router is off and nothing in it is enabled.                  *)
MCTable == [
    shared   |-> Configuration("priority",
                     <<Disabled("e"), Candidate("a", 1, 1, 0), Candidate("b", 1, 1, 0),
                       Candidate("v", 1, 1, 2), Candidate("c", 1, 2, 1),
                       Candidate("d", 2, 1, 0)>>, "c"),
    members  |-> [Configuration("priority", <<Candidate("b", 0, 3, 1)>>, NoModel)
                     EXCEPT !.idleTimeoutMs["priority"] = 5000],
    unnamed  |-> [Configuration("", <<>>, NoModel) EXCEPT
                     !.routing = [candidates |-> <<Unscored("d"), Scored("a", 3, 1),
                                                   Scored("b", 3, 0), Scored("b", 1, 0)>>,
                                  minScore |-> 2, tieBreakOrder |-> <<"b", "a">>,
                                  fallbackModelName |-> "e", ruled |-> TRUE]],
    off      |-> [Configuration("priority", <<Disabled("a")>>, NoModel)
                     EXCEPT !.enabled = FALSE]]

MCConfigs == {"shared", "members", "unnamed", "off"}
MCLabels == {"plan", "code"}
MCAlphabet == <<"a", "b", "c", "d", "e", "v">>

MCUsers == {[vip |-> 1, expired |-> FALSE], [vip |-> 1, expired |-> TRUE]}

Symmetric == Permutations(Requests)
==============================================================================
