------------------------------ MODULE Condition ------------------------------
(***************************************************************************)
(* Policy conditions: how a tree is validated when a policy is loaded      *)
(* (pkg/engine/validate.go) and what it makes of a call (condition.go,     *)
(* http_classify.go, the SQL guard's predicates).  A text is a sequence of *)
(* tokens, a pattern a literal one; what a SQL dialect's parser or         *)
(* url.Parse returns is part of the value.                                 *)
(***************************************************************************)
EXTENDS PathGuard, LLMGuard, Integers

CONSTANTS MaxConditionDepth,    \* levels of a tree below its root
          MaxDeepGlobs,         \* "**" components in one prefix
          FunctionClasses       \* the SQL function registry; <<>> when none is loaded

-----------------------------------------------------------------------------
(* Values of fields and of rules. *)

Missing == [kind |-> "missing"]
Num(n) == [kind |-> "num", n |-> n]
NumText(n) == [kind |-> "numtext", n |-> n]
NaNText == [kind |-> "nan"]
Text(s) == [kind |-> "text", s |-> s]
List(items) == [kind |-> "list", items |-> items]
Object == [kind |-> "object"]
Bool(b) == [kind |-> "bool", b |-> b]
PathText(p) == [kind |-> "path", p |-> p]
Argv(words) == [kind |-> "argv", words |-> words]
SQLText(class) == [kind |-> "sql", class |-> class]
URL(host, scheme, port) == [kind |-> "url", host |-> host, scheme |-> scheme, port |-> port]

\* toFloat64 accepts numbers and texts that parse as one; "NaN" parses.
Numeric(v) == v.kind \in {"num", "numtext", "nan"}

\* fmt's %v: a float of a million or more is written with an exponent.
Million == 1000000

RECURSIVE Rendered(_)
Rendered(v) ==
    CASE v.kind = "num" -> IF v.n < Million THEN <<ToString(v.n)>> ELSE <<"1", "e+06">>
      [] v.kind = "numtext" -> <<ToString(v.n)>>
      [] v.kind = "nan" -> <<"NaN">>
      [] v.kind = "text" -> v.s
      [] v.kind = "bool" -> <<ToString(v.b)>>
      [] v.kind = "list" -> <<"[">> \o FlattenSeq([i \in DOMAIN v.items |-> Rendered(v.items[i])]) \o <<"]">>
      [] OTHER -> <<v.kind>>

compareEq(a, b) ==
    IF Numeric(a) /\ Numeric(b)
    THEN "nan" \notin {a.kind, b.kind} /\ a.n = b.n
    ELSE Rendered(a) = Rendered(b)

\* The signs the comparison may have: none when a side is not a number, and
\* equal when one is not a number in the IEEE sense.
compareNumeric(a, b) ==
    CASE ~(Numeric(a) /\ Numeric(b)) -> {}
      [] "nan" \in {a.kind, b.kind} -> {0}
      [] a.n < b.n -> {-1}
      [] a.n > b.n -> {1}
      [] OTHER -> {0}

compareIn(v, list) == list.kind = "list" /\ \E i \in DOMAIN list.items : compareEq(v, list.items[i])

Holds(s, part) == \E i \in 0..(Len(s) - Len(part)) : SubSeq(s, i + 1, i + Len(part)) = part

compareContains(v, w) == Holds(Rendered(v), Rendered(w))

compareAffix(v, w, prefix) ==
    IF prefix THEN IsPrefix(Rendered(w), Rendered(v)) ELSE IsSuffix(Rendered(w), Rendered(v))

\* compiledRegex memoises what compiles; an open parenthesis does not.
Compiles(pattern) == ~Contains(pattern, "(")

compareRegex(v, w) == Compiles(Rendered(w)) /\ Holds(Rendered(v), Rendered(w))

-----------------------------------------------------------------------------
(* Leaves. *)

\* The amount conditions compare: an absent one is zero, one that is negative,
\* not finite or no number is above every cap.
InvalidAmount == 1000 * Million

EvaluatedAmount(v) ==
    CASE v.kind = "missing" \/ v = Text(<<>>) -> 0
      [] v.kind \in {"num", "numtext"} /\ v.n >= 0 -> v.n
      [] OTHER -> InvalidAmount

\* The fields of a call: the amount is always there.
FlattenEnvelope(params) ==
    [params EXCEPT !["amount"] = Num(EvaluatedAmount(params["amount"]))]

Relational == {"gt", "gte", "lt", "lte"}

Wanted(op) == CASE op = "gt" -> {1} [] op = "gte" -> {0, 1} [] op = "lt" -> {-1} [] op = "lte" -> {-1, 0}

\* A relational operator fires on what it cannot compare; a missing field
\* fires only the negative list and text operators.
Fires(signs, op) == signs \subseteq Wanted(op)

OtherField(w, fields) ==
    IF w.kind = "text" /\ w.s # <<>> /\ w.s[1] \in DOMAIN fields THEN fields[w.s[1]] ELSE Missing

evalPresent(op, v, w, fields) ==
    CASE op = "eq" -> compareEq(v, w)
      [] op = "neq" -> ~compareEq(v, w)
      [] op \in Relational -> Fires(compareNumeric(v, w), op)
      [] op = "in" -> compareIn(v, w)
      [] op = "not_in" -> ~compareIn(v, w)
      [] op = "contains" -> compareContains(v, w)
      [] op = "not_contains" -> ~compareContains(v, w)
      [] op \in {"starts_with", "ends_with"} -> compareAffix(v, w, op = "starts_with")
      [] op = "regex" -> compareRegex(v, w)
      [] op = "gt_field" -> OtherField(w, fields) # Missing /\ Fires(compareNumeric(v, OtherField(w, fields)), "gt")
      [] op = "lt_field" -> OtherField(w, fields) # Missing /\ Fires(compareNumeric(v, OtherField(w, fields)), "lt")
      [] OTHER -> FALSE

evalLeaf(leaf, fields) ==
    LET v == fields[leaf.field]
    IN IF leaf.op = "exists" THEN (v # Missing) = (leaf.value.kind = "bool" => leaf.value.b)
       ELSE IF v = Missing THEN leaf.op \in {"not_in", "not_contains"}
       ELSE evalPresent(leaf.op, v, leaf.value, fields)

Stringish == {"text", "numtext", "nan"}

\* Anything is taken for a list.
AnyValue(value) == TRUE

IsList(value) == value.kind = "list"

validateOperatorValue(op, value) ==
    CASE op \in Relational -> Numeric(value)
      [] op = "regex" -> value.kind \in Stringish /\ Compiles(Rendered(value))
      [] op \in {"in", "not_in"} -> IsList(value)
      [] op \in {"gt_field", "lt_field", "contains", "not_contains", "starts_with", "ends_with"} ->
            value.kind \in Stringish
      [] op = "exists" -> value.kind \in {"missing", "bool"}
      [] op \in {"eq", "neq"} -> value # Missing
      [] OTHER -> FALSE

-----------------------------------------------------------------------------
(* The SQL and HTTP classifiers. *)

FunctionInClass(fn, class) == class \in DOMAIN FunctionClasses /\ fn \in FunctionClasses[class]

HasDeniedTable(c, denied) == \E t \in c.tables, d \in denied : IsPrefix(d, t)

HasTableOutsideAllowed(c, allowed) == allowed # {} /\ ~(c.tables \subseteq allowed)

HasDisallowedFunction(c, allowed) == allowed # {} /\ ~(c.functions \subseteq allowed)

\* sql_classify: what the dialect's parser made of the text, against the
\* rule's requirements.
evalSQLClassify(req, v) ==
    LET c == v.class
    IN \/ v.kind # "sql"
       \/ Range(c.kinds) \cap req.deniedKinds # {}
       \/ /\ req.kinds # {}
          /\ \/ Len(c.kinds) # 1
             \/ c.kinds[1] \notin req.kinds
             \/ c.mutatesViaCTE /\ req.kinds \subseteq {"SELECT"}
       \/ req.noDynamic /\ c.dynamic
       \/ req.noProgram /\ c.program
       \/ HasDisallowedFunction(c, req.functions)
       \/ req.noFunctions /\ c.functions # {}
       \/ HasDeniedTable(c, req.deniedTables)
       \/ HasTableOutsideAllowed(c, req.tables)
       \/ /\ req.deniedClasses \cup req.classes # {}
          /\ \/ FunctionClasses = <<>>
             \/ \E f \in c.functions, k \in req.deniedClasses : FunctionInClass(f, k)
             \/ req.classes # {} /\ \E f \in c.functions : ~\E k \in req.classes : FunctionInClass(f, k)

\* A host without its root dot against an entry; a suffix entry also matches
\* the bare domain.
hostMatches(host, entry) ==
    LET bare == SelectSeq(host, LAMBDA label : label # ".")
    IN /\ entry.labels # <<>>
       /\ IF entry.suffix THEN IsSuffix(entry.labels, bare) ELSE entry.labels = bare

explicitPort(u) ==
    CASE u.port > 0 -> u.port
      [] u.scheme = "https" -> 443
      [] u.scheme = "http" -> 80
      [] OTHER -> 0

HasAllowList(req) == req.hosts # {} \/ req.schemes # {} \/ req.methods # {} \/ req.ports # {}

\* The field is missing, no string, or empty.
NoURL(v) == v.kind \notin Stringish \cup {"url"} \/ v = Text(<<>>)

\* http_classify: only an allow-list makes a missing URL count against the call.
evalHTTPClassify(req, v, method) ==
    CASE NoURL(v) -> HasAllowList(req)
      [] ~NoURL(v) /\ v.kind # "url" -> TRUE
      [] OTHER ->
           \/ v.scheme = "" /\ HasAllowList(req)
           \/ \E d \in req.deniedHosts : hostMatches(v.host, d)
           \/ method \in req.deniedMethods
           \/ explicitPort(v) > 0 /\ explicitPort(v) \in req.deniedPorts
           \/ req.hosts # {} /\ ~\E a \in req.hosts : hostMatches(v.host, a)
           \/ req.schemes # {} /\ v.scheme \notin req.schemes
           \/ req.methods # {} /\ method \notin req.methods
           \/ req.ports # {} /\ explicitPort(v) \notin req.ports \ {0}

-----------------------------------------------------------------------------
(* Trees.  A node has one sequence for each form; more than one may be set. *)

EmptyNode == [and |-> <<>>, or |-> <<>>, not |-> <<>>, leaf |-> <<>>, sql |-> <<>>, path |-> <<>>,
              shell |-> <<>>, llm |-> <<>>, write |-> <<>>, http |-> <<>>]

Node(form, body) == [EmptyNode EXCEPT ![form] = body]

Classifiers == {"sql", "path", "shell", "llm", "write", "http"}

Populated(c) == {form \in DOMAIN c : c[form] # <<>>}

capWildcardCount(parts) == Len(SelectSeq(parts, LAMBDA part : part = "**")) <= MaxDeepGlobs

\* mutant: an llm_classify block is taken as it is
validateClassifier_SkipsLLM(form, body) ==
    CASE form = "shell" -> /\ \A q \in body.require.patterns : Compiles(<<q>>)
                           /\ \A q \in body.require.denied : capWildcardCount(q)
      [] form = "path" -> \A q \in body.require.denied \cup body.require.allowed : capWildcardCount(q)
      [] form = "write" -> /\ \A q \in body.require.denied \cup body.require.allowed :
                                q # Path(FALSE, <<>>) /\ capWildcardCount(q.parts)
                           /\ body.require.compiles
      [] OTHER -> TRUE

validateClassifier(form, body) ==
    CASE form = "llm" -> validateLLM(body)
      [] form = "shell" -> /\ \A q \in body.require.patterns : Compiles(<<q>>)
                           /\ \A q \in body.require.denied : capWildcardCount(q)
      [] form = "path" -> \A q \in body.require.denied \cup body.require.allowed : capWildcardCount(q)
      [] form = "write" -> /\ \A q \in body.require.denied \cup body.require.allowed :
                                q # Path(FALSE, <<>>) /\ capWildcardCount(q.parts)
                           /\ body.require.compiles
      [] OTHER -> TRUE

\* Only a direct child of "not" counts as negated.
UnderNotDirectly(form, underNot) == form = "not"

UnderNot(form, underNot) == form = "not" \/ underNot

\* Exactly one form, no classifier below a "not", every part well formed.
RECURSIVE validateCondition(_, _, _)
validateCondition(c, depth, underNot) ==
    /\ depth <= MaxConditionDepth
    /\ Cardinality(Populated(c)) = 1
    /\ underNot => Populated(c) \cap Classifiers = {}
    /\ \A form \in Classifiers : c[form] # <<>> => validateClassifier(form, c[form][1])
    /\ \A form \in {"and", "or", "not"} : \A i \in DOMAIN c[form] :
            validateCondition(c[form][i], depth + 1, UnderNot(form, underNot))
    /\ c.leaf # <<>> => validateOperatorValue(c.leaf[1].op, c.leaf[1].value)

\* A classifier's leaf; what cannot be read counts against the call.
evalClassifier(form, body, call, judged) ==
    LET v == call.params[body.field]
    IN CASE form = "sql" -> evalSQLClassify(body.require, v)
         [] form = "path" -> v.kind # "path" \/ evalPathClassify(body.require, v.p)
         [] form = "shell" -> v.kind # "argv" \/ v.words = <<>> \/ evalShellClassify(body.require, v.words)
         [] form = "write" -> evalWriteClassify(body.require, call.paths, call.content)
         [] form = "http" -> evalHTTPClassify(body.require, v, call.method)
         [] form = "llm" -> judged

\* The first populated form decides, in this order; a node with none fires.
\* judged is what an llm_classify leaf comes to.
RECURSIVE EvalCondition(_, _, _)
EvalCondition(c, call, judged) ==
    LET forms == SelectSeq(<<"and", "or", "not", "sql", "path", "shell", "llm", "write", "http", "leaf">>,
                           LAMBDA form : c[form] # <<>>)
    IN forms # <<>> =>
        CASE forms[1] = "and" -> \A i \in DOMAIN c.and : EvalCondition(c.and[i], call, judged)
          [] forms[1] = "or" -> \E i \in DOMAIN c.or : EvalCondition(c.or[i], call, judged)
          [] forms[1] = "not" -> ~EvalCondition(c.not[1], call, judged)
          [] forms[1] = "leaf" -> evalLeaf(c.leaf[1], FlattenEnvelope(call.params))
          [] OTHER -> evalClassifier(forms[1], c[forms[1]][1], call, judged)

\* The llm_classify leaf evaluation comes to, if any: a branch stops at the
\* first child that decides it.
RECURSIVE Asked(_, _)
Asked(c, call) ==
    LET decides(form, d) == EvalCondition(d, call, TRUE) = (form = "or") /\ Asked(d, call) = {}
        upTo(form) == {i \in DOMAIN c[form] : \A j \in 1..(i - 1) : ~decides(form, c[form][j])}
    IN UNION {UNION {Asked(c[form][i], call) : i \in upTo(form)} : form \in {"and", "or", "not"}}
         \cup {c.llm[i] : i \in DOMAIN c.llm}

=============================================================================
