----------------------------- MODULE MCRuleEval -----------------------------
(***************************************************************************)
(* Small instances of RuleEval.  Every world is aimed at one part of it.   *)
(***************************************************************************)
EXTENDS RuleEval

MCExisting == {<<>>, <<"p">>, <<"p", "s">>, <<"w">>}
MCCwd == <<"w">>
MCFunctionClasses == [risky |-> {"drop_all"}]

\* Links into the protected directory, over another link, in a ring, and to a
\* file that is not there.
L0 == <<>>
L1 == <<"w", "l">> :> <<"p">>
L2 == (<<"w", "l">> :> <<"p", "s">>) @@ (<<"a">> :> <<"w">>)
L3 == (<<"a">> :> <<"b">>) @@ (<<"b">> :> <<"a">>)
L4 == <<"w", "l">> :> <<"p", "new">>

Dir(a) == Abs(<<a>>)

Fields == {"f", "g", "amount", "in", "image"}
NoParams == [x \in Fields |-> Missing]
With(x, v) == [NoParams EXCEPT ![x] = v]

Call(tool, paths, params) ==
    [tool |-> tool, paths |-> paths, command |-> <<>>, script |-> <<>>, substituted |-> <<>>,
     params |-> params, content |-> "fine", method |-> "GET"]

Leaf(field, op, value) == Node("leaf", <<[field |-> field, op |-> op, value |-> value]>>)

AnyTool == Leaf("f", "exists", Bool(TRUE))

-----------------------------------------------------------------------------
(* File tools against protected paths. *)

Parts == {"p", "s", "w", "l", "a", "new", ".."}

SomePaths ==
    {Path(abs, parts) : abs \in BOOLEAN, parts \in UNION {[1..n -> Parts] : n \in 1..2}}
        \cup {Abs(<<"a", "l", x>>) : x \in {"s", "new"}}

FileWorld(protected) ==
    [links |-> {L0, L1, L2, L3, L4}, protected |-> protected, trees |-> {AnyTool},
     calls |-> {Call("write", {p}, NoParams) : p \in SomePaths} \cup {Call("read", {Dir("p")}, NoParams)}]

-----------------------------------------------------------------------------
(* Shell commands. *)

Command(assigns, prog, args, redirects) ==
    [assigns |-> assigns, prog |-> prog, args |-> args, redirects |-> redirects]

Removal == Command(<<>>, "mutator", <<Word("path", Abs(<<"p", "s">>))>>, <<>>)
Harmless == Command(<<>>, "plain", <<Word("path", Abs(<<"p", "s">>))>>, <<>>)

Substituting(cmd) == Expansion(Tokens(cmd))

Here == Path(FALSE, <<"x">>)

ArgWords == {Word("path", Abs(<<"w", "l", "x">>)), Word("plain", Here), Word("option", OptionFile),
             Word("glued", Dir("p")), Word("dashdash", Path(FALSE, <<"--">>)), Substituting(Harmless)}

RedirectWords == {Word("path", Abs(<<"p", "x">>)), Word("path", Here), Word("fd", Path(FALSE, <<"1">>)),
                  Substituting(Harmless)}

Redirects ==
    {<<[op |-> op, word |-> w, place |-> place]>> :
        op \in Redirections, w \in RedirectWords, place \in {"front", "middle", "end"}}

Assignment == Word("assignment", Path(FALSE, <<"v=1">>))

ShellCommands ==
    {Command(assigns, prog, args, redirects) :
        assigns \in {<<>>, <<Assignment>>}, prog \in {"mutator", "plain"},
        args \in {<<>>, <<Word("plain", Here)>>}, redirects \in Redirects}
    \cup {Command(assigns, "mutator", args, <<>>) :
            assigns \in {<<>>, <<Assignment>>}, args \in UNION {[1..n -> ArgWords] : n \in 0..2}}
    \cup {Command(<<>>, "sed", <<a, Word("path", Dir("p"))>>, <<>>) :
            a \in {Word("inplace", OptionFile), Word("option", OptionFile)}}

Shell(script, substituted) ==
    [Call("bash", {}, NoParams) EXCEPT !.command = ScriptTokens(script), !.script = script,
                                       !.substituted = substituted]

\* A program with a command substituted for its argument.
Around(prog, cmd) == Command(<<>>, prog, <<Substituting(cmd)>>, <<>>)

ShellCalls ==
    {Shell(<<cmd>>, <<>>) : cmd \in ShellCommands}
    \cup {Shell(<<first, Removal>>, <<>>) : first \in {Harmless, Command(<<>>, "plain", <<>>, <<>>)}}
    \cup {Shell(<<Command(<<>>, "mutator", <<Word("plain", Here)>>, <<>>), Harmless>>, <<>>)}
    \cup {Shell(<<Around(prog, sub)>>, <<{sub}>>) : prog \in {"plain", "mutator"}, sub \in {Removal, Harmless}}
    \cup {Shell(<<Around("plain", Around(prog, sub))>>, <<{Around(prog, sub)}, {sub}>>) :
            prog \in {"plain", "mutator"}, sub \in {Removal, Harmless}}
    \cup {Shell(<<Around("plain", Around("plain", Around("plain", Removal)))>>,
                <<{Around("plain", Around("plain", Removal))}, {Around("plain", Removal)}, {Removal}>>)}

ShellWorld(protected) ==
    [links |-> {L0, L1}, protected |-> protected, trees |-> {AnyTool}, calls |-> ShellCalls]

-----------------------------------------------------------------------------
(* Path rules. *)

PathReq == [absoluteOnly |-> FALSE, denyMetas |-> FALSE, clean |-> TRUE, maxLength |-> 0, resolve |-> TRUE,
            denyOnFailure |-> TRUE, denied |-> {}, allowed |-> {}]

PathRule(req) == Node("path", <<[field |-> "in", require |-> req]>>)

PathRules ==
    {PathRule([PathReq EXCEPT !.clean = c, !.resolve = r, !.denyOnFailure = d, !.allowed = a]) :
        c \in BOOLEAN, r \in BOOLEAN, d \in BOOLEAN, a \in {{<<"w">>}, {<<"*", "s">>, <<"**", "l">>}}}
    \cup {PathRule([PathReq EXCEPT !.absoluteOnly = TRUE, !.denied = {<<"p">>}, !.maxLength = 2]),
          PathRule([PathReq EXCEPT !.denyMetas = TRUE, !.resolve = FALSE]),
          PathRule([PathReq EXCEPT !.allowed = {<<"**", "**", "**">>}])}

WriteReq == [denied |-> {}, allowed |-> {}, content |-> FALSE, compiles |-> TRUE]

WriteRule(req) == Node("write", <<[require |-> req]>>)

WriteRules ==
    {WriteRule([WriteReq EXCEPT !.allowed = {Dir("w")}]),
     WriteRule([WriteReq EXCEPT !.allowed = {Abs(<<"w", "l">>)}, !.content = TRUE]),
     WriteRule([WriteReq EXCEPT !.denied = {Dir("p")}]),
     WriteRule([WriteReq EXCEPT !.allowed = {Dir("w"), Path(FALSE, <<>>)}]),
     WriteRule([WriteReq EXCEPT !.content = TRUE, !.compiles = FALSE])}

RulePaths == SomePaths \cup {Abs(<<"w", Meta>>), Abs(<<"w", "", "l">>), Abs(<<"w", "l", "..", "s">>)}

PathWorld ==
    [links |-> {L0, L2, L3, L4}, protected |-> {}, trees |-> PathRules,
     calls |-> {Call("write", {}, With("in", PathText(p))) : p \in RulePaths}]

WriteWorld ==
    [links |-> {L1, L2, L3, L4}, protected |-> {}, trees |-> WriteRules,
     calls |-> {[Call("write", paths, NoParams) EXCEPT !.content = content] :
                    paths \in {{}, {Abs(<<"w", "new">>), Dir("p")}}, content \in {"fine", "missing"}}
               \cup {Call("write", {p}, NoParams) : p \in SomePaths}]

-----------------------------------------------------------------------------
(* Operators and trees. *)

Operators == Relational \cup {"eq", "neq", "in", "not_in", "contains", "not_contains", "starts_with",
                              "ends_with", "regex", "gt_field", "lt_field", "exists", "like"}

RuleValues == {Missing, Num(5), NumText(5), NaNText, Num(Million), Text(<<"a", "b">>), Text(<<>>), Text(<<"(">>),
               Text(<<"g">>), List(<<Num(5), Text(<<"a">>)>>), List(<<>>), Bool(FALSE), Object}

LeafWorld ==
    [links |-> {L0}, protected |-> {},
     trees |-> {Leaf(field, op, v) : field \in {"f", "amount"}, op \in Operators, v \in RuleValues}
                \cup {Node("not", <<Leaf("f", "gt", Num(5))>>)},
     calls |-> {Call("write", {}, [NoParams EXCEPT !.f = v, !.g = Num(3), !.amount = v]) :
                    v \in RuleValues \cup {Num(-1), Num(7)}}]

SQLReq == [deniedKinds |-> {}, kinds |-> {}, noDynamic |-> FALSE, noProgram |-> FALSE, functions |-> {},
           noFunctions |-> FALSE, deniedTables |-> {}, tables |-> {}, deniedClasses |-> {}, classes |-> {}]

HTTPReq == [hosts |-> {}, schemes |-> {}, methods |-> {}, ports |-> {}, deniedHosts |-> {},
            deniedMethods |-> {}, deniedPorts |-> {}]

ShellReq == [maxArgc |-> 0, programs |-> {}, patterns |-> {}, denied |-> {}, resolve |-> TRUE, envPatterns |-> {}]

Rule(form, req) == Node(form, <<[field |-> "in", require |-> req]>>)

Domain(suffix) == [suffix |-> suffix, labels |-> <<"example", "com">>]

ClassifierRules ==
    {Rule("sql", [SQLReq EXCEPT !.kinds = {"SELECT"}]),
     Rule("sql", [SQLReq EXCEPT !.deniedKinds = {"DROP"}, !.noDynamic = TRUE, !.noProgram = TRUE]),
     Rule("sql", [SQLReq EXCEPT !.deniedTables = {<<"pg">>}, !.deniedClasses = {"risky"}]),
     Rule("sql", [SQLReq EXCEPT !.functions = {"now"}, !.classes = {"risky"}]),
     Rule("sql", [SQLReq EXCEPT !.tables = {<<"app", "t">>}, !.noFunctions = TRUE]),
     Rule("http", [HTTPReq EXCEPT !.hosts = {Domain(TRUE)}, !.methods = {"GET"}, !.ports = {443}]),
     Rule("http", [HTTPReq EXCEPT !.deniedHosts = {Domain(FALSE)}, !.deniedPorts = {80}, !.deniedMethods = {"PUT"}]),
     Rule("http", [HTTPReq EXCEPT !.hosts = {Domain(FALSE)}, !.schemes = {"https"}]),
     Rule("shell", [ShellReq EXCEPT !.programs = {"plain", "sudo"}, !.maxArgc = 2, !.envPatterns = {"option"}]),
     Rule("shell", [ShellReq EXCEPT !.patterns = {"glued"}, !.denied = {<<"p">>}]),
     Rule("shell", [ShellReq EXCEPT !.patterns = {"("}]),
     PathRule([PathReq EXCEPT !.allowed = {<<"w">>}]),
     WriteRule([WriteReq EXCEPT !.allowed = {Dir("w")}])}

Shapes(r) ==
    LET quiet == Leaf("g", "eq", Num(3))
    IN {r, Node("not", <<r>>), Node("not", <<Node("and", <<quiet, r>>)>>), Node("and", <<quiet, r>>),
        Node("or", <<Node("not", <<quiet>>), r>>), Node("and", <<Node("or", <<Node("or", <<r>>)>>)>>),
        [r EXCEPT !.leaf = quiet.leaf]}

Class(kinds) == [kinds |-> kinds, mutatesViaCTE |-> FALSE, dynamic |-> FALSE, program |-> FALSE,
                 functions |-> {}, tables |-> {<<"app", "t">>}]

ClassifierInputs ==
    {Missing, Object, Text(<<"a">>), Text(<<>>), PathText(Dir("w")), PathText(Dir("p")),
     SQLText(Class(<<"SELECT">>)), SQLText(Class(<<"SELECT", "DROP">>)),
     SQLText([Class(<<"SELECT">>) EXCEPT !.mutatesViaCTE = TRUE]),
     SQLText([Class(<<"SELECT">>) EXCEPT !.functions = {"drop_all"}, !.tables = {<<"pg", "user">>}]),
     URL(<<"api", "example", "com">>, "https", 0), URL(<<"example", "com", ".">>, "http", 0),
     URL(<<"example", "com">>, "", 8080),
     Argv(<<>>), Argv(<<Word("plain", Here)>>), Argv(<<Word("sudo", Here), Word("option", OptionFile)>>),
     Argv(<<Word("plain", Here), Word("path", Abs(<<"w", "l">>))>>)}

ClassifierWorld ==
    [links |-> {L1}, protected |-> {}, trees |-> UNION {Shapes(r) : r \in ClassifierRules},
     calls |-> {Call("write", {Dir("w")}, [With("in", v) EXCEPT !.g = Num(3)]) : v \in ClassifierInputs}
               \cup {[Call("write", {}, [With("in", v) EXCEPT !.g = Num(3)]) EXCEPT !.method = ""] :
                        v \in {Missing, URL(<<"api", "example", "com">>, "https", 0)}}
               \cup {Call("write", paths, [NoParams EXCEPT !.g = Num(3)]) : paths \in {{}, {Dir("p")}}}]

-----------------------------------------------------------------------------
(* Asking the model. *)

LLM(backend, timeout, forbidden) ==
    [prompt |-> "in", backend |-> backend, url |-> "", image |-> "", timeout |-> timeout, forbidden |-> forbidden]

TwoLabels == <<Label("weapons", "plain"), Label("nudity", "padded")>>

LLMRules ==
    {Node("llm", <<LLM("systemone", 4, TwoLabels)>>),
     Node("llm", <<LLM("systemone", 0, TwoLabels)>>),
     Node("llm", <<LLM("ollama", 4, TwoLabels)>>),
     Node("llm", <<[LLM("", 1, TwoLabels) EXCEPT !.image = "image"]>>),
     Node("or", <<Leaf("g", "eq", Num(3)), Node("llm", <<LLM("systemone", 1, TwoLabels)>>)>>),
     Node("llm", <<LLM("systemone", 4, <<Label("safe", "padded")>>)>>),
     Node("llm", <<LLM("systemone", 4, <<Label("weapons", "plain"), Label("weapons", "padded")>>)>>),
     Node("llm", <<LLM("cloud", 4, TwoLabels)>>),
     Node("not", <<Node("or", <<Node("llm", <<LLM("systemone", 4, TwoLabels)>>)>>)>>)}

Offered == {"safe", "weapons", "nudity"}

MCAnswers ==
    {[type |-> "choice", choice |-> c, confidence |-> 10, probs |-> d] :
        c \in {"safe", "weapons", "other", ""},
        d \in [Offered -> {0, 4, 5, 6, 10}] \cup [{"safe", "weapons"} -> {4, 6}]}
    \cup {[type |-> "choice", choice |-> c, confidence |-> n, probs |-> <<>>] :
            c \in {"safe", "weapons", "nudity", "model_refused", ""}, n \in {0, 5, 6, 10}}
    \cup {[type |-> t, choice |-> "none", confidence |-> 0, probs |-> <<>>] : t \in {"refused", "malformed"}}

LLMWorld ==
    [links |-> {L0}, protected |-> {}, trees |-> LLMRules,
     calls |-> {Call("write", {}, [With("in", v) EXCEPT !.g = Num(g), !.image = image]) :
                    v \in {Missing, Text(<<"a">>)}, g \in {3, 4},
                    image \in {Missing, URL(<<"example", "com">>, "https", 0)}}]

MCWorlds ==
    [directory |-> FileWorld({Dir("p")}), link |-> FileWorld({Abs(<<"w", "l">>)}),
     pattern |-> FileWorld({Abs(<<"**", "s">>), Abs(<<"*", "new">>)}),
     relative |-> FileWorld({Path(FALSE, <<"..", "a">>)}),
     shell |-> ShellWorld({Dir("p")}),
     path |-> PathWorld, write |-> WriteWorld, leaf |-> LeafWorld, classifier |-> ClassifierWorld,
     model |-> LLMWorld]

=============================================================================
