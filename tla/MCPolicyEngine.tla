--------------------------- MODULE MCPolicyEngine ---------------------------
(* TLC instances of PolicyEngine *)
EXTENDS PolicyEngine

Name(w, up) == [word |-> w, upper |-> up]

Call == [org |-> "o1", agent |-> "a1", tool |-> Name("bash", TRUE), group |-> "exec"]

\* The same call without a tool group.
BareCall == [Call EXCEPT !.group = ""]

Scope(tools, groups) == [orgs |-> {}, agents |-> {}, tools |-> tools, groups |-> groups]

Scopes == {Scope({}, {}),                                    \* everything
           Scope({Name("bash", FALSE)}, {}),                 \* another casing
           Scope({Name("read", TRUE)}, {"exec"}),            \* by group
           [Scope({}, {}) EXCEPT !.orgs = {"o2"}],           \* another org
           [Scope({}, {}) EXCEPT !.agents = {"a2"}]}         \* another agent

ARule(on, fires, effect) == [enabled |-> on, fires |-> fires, effect |-> effect]

Triggered == {ARule("unset", TRUE, e) : e \in Effect}
Quiet == {ARule("unset", FALSE, "deny"), ARule("false", TRUE, "deny")}

APolicy(status, m, prio, scope, rules) ==
    [status |-> status, mode |-> m, priority |-> prio, scope |-> scope, rules |-> rules]

\* One rule that triggers, of every effect, mode and priority; two such rules; rules
\* that are quiet or disabled; policies that do not apply.
MCPolicy ==
    LET all == Scope({}, {})
    IN  {APolicy("approved", m, p, all, <<r>>) :
            m \in {"shadow", "enforcement"}, p \in {0, 50, 101}, r \in Triggered}
        \cup {APolicy("approved", "typo", 0, all, <<r>>) : r \in Triggered}
        \cup {APolicy("approved", m, 0, all, <<q, r>>) :
                 m \in {"shadow", "enforcement"}, q \in Quiet,
                 r \in {ARule("true", TRUE, "flag"), ARule("true", TRUE, "escalate")}}
        \cup {APolicy("approved", m, 0, all, <<q, r>>) :
                 m \in {"shadow", "enforcement"}, q \in Triggered, r \in Triggered}
        \cup {APolicy("approved", "enforcement", 0, sc, <<ARule("unset", TRUE, "deny")>>) :
                 sc \in Scopes}
        \cup {APolicy("draft", "enforcement", 0, all, <<ARule("unset", TRUE, "deny")>>)}

MCEnvelope == {Call, BareCall}
=============================================================================
