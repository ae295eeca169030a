------------------------------ MODULE RuleEval ------------------------------
(***************************************************************************)
(* One rule and one call at a time: a condition is validated when it is    *)
(* loaded, a call is checked against the protected paths and then against  *)
(* the condition, asking the model where evaluation comes to one.  The     *)
(* file system may change between calls.                                   *)
(***************************************************************************)
EXTENDS Condition

CONSTANT Worlds     \* by name, what a behaviour draws on: links, prefixes, conditions, calls

VARIABLES world,    \* the one this behaviour has
          tree,     \* the condition in force
          call,     \* the call under evaluation
          pc,       \* where its evaluation is
          fired     \* what the condition came to

vars == <<links, ask, world, tree, call, pc, fired>>

NoCall == [tool |-> "none"]

Init ==
    /\ world \in DOMAIN Worlds
    /\ links \in Worlds[world].links
    /\ tree = EmptyNode
    /\ call = NoCall
    /\ pc = "idle"
    /\ fired = FALSE
    /\ ask = NoQuestion

\* A condition that does not validate leaves the one in force.
Load(c) ==
    /\ c # tree
    /\ validateCondition(c, 0, FALSE)
    /\ tree' = c
    /\ UNCHANGED <<links, ask, world, call, pc, fired>>

Relink(to) ==
    /\ to # links
    /\ links' = to
    /\ UNCHANGED <<ask, world, tree, call, pc, fired>>

Arrive(c) ==
    /\ tree # EmptyNode
    /\ call' = c
    /\ pc' = "arrived"
    /\ UNCHANGED <<links, ask, world, tree, fired>>

\* The operator's protected paths come before, and whatever the policy says.
CheckProtected ==
    /\ pc = "arrived"
    /\ pc' = IF ViolatesProtectedPaths(call, Worlds[world].protected) THEN "refused" ELSE "rule"
    /\ UNCHANGED <<links, ask, world, tree, call, fired>>

Decide ==
    /\ pc = "rule"
    /\ Asked(tree, call) = {}
    /\ fired' = EvalCondition(tree, call, TRUE)
    /\ pc' = "done"
    /\ UNCHANGED <<links, ask, world, tree, call>>

\* The prompt must be a string; an image field that is none counts as absent.
Readable(cfg) == call.params[cfg.prompt].kind \in Stringish
HasImage(cfg) == cfg.image # "" /\ call.params[cfg.image].kind \in Stringish \cup {"url"}

Ask ==
    /\ pc = "rule"
    /\ \E cfg \in Asked(tree, call), endpointOK \in BOOLEAN :
            AskModel(cfg, Readable(cfg), HasImage(cfg), endpointOK)
    /\ pc' = "asking"
    /\ UNCHANGED <<links, world, tree, call, fired>>

Wait ==
    /\ pc = "asking"
    /\ \/ \E addresses \in SUBSET {"public", "private"}, good \in BOOLEAN : FetchImage(addresses, good)
       \/ ask.phase = "calling" /\ \E a \in Answers : Answered(a)
       \/ Busy
       \/ CallFails
    /\ UNCHANGED <<links, world, tree, call, pc, fired>>

Elapse ==
    /\ pc = "asking"
    /\ TickModel \/ Expire \/ Retry
    /\ UNCHANGED <<links, world, tree, call, pc, fired>>

DecideAnswered ==
    /\ pc = "asking"
    /\ ask.phase = "done"
    /\ fired' = EvalCondition(tree, call, ask.fired)
    /\ pc' = "done"
    /\ UNCHANGED <<links, ask, world, tree, call>>

Finish ==
    /\ pc \in {"done", "refused"}
    /\ pc' = "idle"
    /\ call' = NoCall
    /\ fired' = FALSE
    /\ ask' = NoQuestion
    /\ UNCHANGED <<links, world, tree>>

Next ==
    \/ /\ pc = "idle"
       /\ \/ \E c \in Worlds[world].trees : Load(c)
          \/ \E to \in Worlds[world].links : Relink(to)
          \/ \E c \in Worlds[world].calls : Arrive(c)
    \/ CheckProtected
    \/ Decide
    \/ Ask
    \/ Wait
    \/ Elapse
    \/ DecideAnswered
    \/ Finish

\* The evaluating goroutine runs on and the clock and its timers advance; the
\* endpoint owes nothing.
Spec ==
    /\ Init
    /\ [][Next]_vars
    /\ WF_vars(CheckProtected \/ Decide \/ Ask \/ DecideAnswered)
    /\ WF_vars(Elapse)

-----------------------------------------------------------------------------
(* Where a write really goes. *)

\* The kernel's walk: links are followed, a component that does not exist is
\* created where the walk has come to; {} when the links go round.
Walk[at \in Seq(STRING), rest \in Seq(STRING), hops \in 0..MaxHops] ==
    IF rest = <<>> THEN {at}
    ELSE LET next == Append(at, Head(rest))
         IN IF next \notin DOMAIN links THEN Walk[next, Tail(rest), hops]
            ELSE IF hops = 0 THEN {}
            ELSE Walk[<<>>, links[next] \o Tail(rest), hops - 1]

Location(p) == Walk[<<>>, Absolute(p), MaxHops]

\* The links on that walk.
LinksOn[at \in Seq(STRING), rest \in Seq(STRING), hops \in 0..MaxHops] ==
    IF rest = <<>> THEN {}
    ELSE LET next == Append(at, Head(rest))
         IN IF next \notin DOMAIN links THEN LinksOn[next, Tail(rest), hops]
            ELSE IF hops = 0 THEN {}
            ELSE {next} \cup LinksOn[<<>>, links[next] \o Tail(rest), hops - 1]

\* Some link on it leads to what does not exist yet.
Dangles(p) == \E l \in LinksOn[<<>>, Absolute(p), MaxHops] : EvalSymlinks(l) = {}

\* A path as written and, unless it goes through a dangling link, where it
\* leads.
Forms(p) == {Absolute(p)} \cup IF Dangles(p) THEN {} ELSE Location(p)

\* A location is covered by a pattern when the pattern's components can be laid
\* along it in order, "**" over any stretch.
Covers(pattern, at) ==
    \E end \in [0..Len(pattern) -> 0..Len(at)] :
        /\ end[0] = 0
        /\ \A i \in 1..Len(pattern) :
            IF pattern[i] = "**" THEN end[i] >= end[i - 1]
            ELSE /\ end[i] = end[i - 1] + 1
                 /\ pattern[i] \in {"*", at[end[i]]}

\* A script is a list of commands.  A command changes the files it names, or
\* does so under an option.
Changes(cmd) ==
    \/ cmd.prog = "mutator"
    \/ cmd.prog = "sed" /\ \E i \in DOMAIN cmd.args : cmd.args[i].form = "inplace"

\* The files a command writes as far as its words say so.
Targets(cmd) ==
    LET before(i) == {j \in 1..(i - 1) : cmd.args[j].form = "dashdash"}
        asFile(i) == CASE cmd.args[i].form = "dashdash" /\ before(i) = {} -> {}
                       [] cmd.args[i].form \in {"option", "inplace"} ->
                            IF before(i) = {} THEN {} ELSE {OptionFile}
                       [] OTHER -> {cmd.args[i].path}
    IN (IF Changes(cmd) THEN UNION {asFile(i) : i \in DOMAIN cmd.args} ELSE {})
         \cup {cmd.redirects[i].word.path :
                    i \in {j \in DOMAIN cmd.redirects : /\ cmd.redirects[j].op # "read"
                                                        /\ cmd.redirects[j].word.form # "fd"}}

\* It writes a file whose name an expansion will tell.
Unknown(cmd) ==
    \/ Changes(cmd) /\ \E i \in DOMAIN cmd.args : cmd.args[i].unresolved
    \/ \E i \in DOMAIN cmd.redirects : cmd.redirects[i].op # "read" /\ cmd.redirects[i].word.unresolved

\* Its tokens: the program comes after the assignments, a redirection where it
\* was written.
Tokens(cmd) ==
    LET redirect(i) == <<Operator(cmd.redirects[i].op), cmd.redirects[i].word>>
        placed(where) == FlattenSeq([i \in DOMAIN cmd.redirects |->
                            IF cmd.redirects[i].place = where THEN redirect(i) ELSE <<>>])
    IN placed("front") \o cmd.assigns \o <<Word(cmd.prog, Path(FALSE, <<"prog">>))>>
         \o placed("middle") \o cmd.args \o placed("end")

ScriptTokens(script) ==
    FlattenSeq([i \in DOMAIN script |-> IF i = 1 THEN Tokens(script[i])
                                        ELSE <<Operator("sep")>> \o Tokens(script[i])])

\* The commands a call runs: its script's, and those of the substitutions in
\* it as deep as they are looked into; substituted has them by depth.
Commands(c) ==
    Range(c.script)
        \cup UNION {c.substituted[d] : d \in DOMAIN c.substituted \cap 1..MaxShellSubstDepth}

PathsWritten(c) ==
    (IF c.tool \in ReadTools THEN {} ELSE c.paths) \cup UNION {Targets(cmd) : cmd \in Commands(c)}

-----------------------------------------------------------------------------
(* Properties. *)

\* The check against the protected paths has let the call through.
Cleared == pc \in {"rule", "asking", "done"}

(* A call the operator's protected paths let through writes nothing they     *)
(* cover, as written or through links that lead somewhere, its own or        *)
(* theirs, however its shell command is put together (protect.go,            *)
(* ViolatesProtectedPaths).  Excepted is a path that goes through a dangling *)
(* link, which is matched as written only: resolveSymlinksBestEffort puts    *)
(* the link's own name back, so a write through it reaches a protected       *)
(* target that does not exist yet, although canonicalCandidates says that a  *)
(* failed resolution never fails open.  And a command nested in more than    *)
(* maxShellSubstDepth substitutions is not looked into.                      *)
ProtectedHolds ==
    Cleared =>
        /\ \A p \in PathsWritten(call), q \in Worlds[world].protected :
                \A at \in Forms(p), real \in Forms(q) : ~Covers(real, at)
        /\ Worlds[world].protected # {} => ~\E cmd \in Commands(call) : Unknown(cmd)

(* A write that an allow-list lets through stays inside it: with             *)
(* path_classify that cleans, resolves and denies what does not resolve,     *)
(* wherever links lead; with write_classify as written and through links     *)
(* that lead somewhere, but not through a dangling one, which it takes for a *)
(* file of its own name like the check above (path_classify.go;              *)
(* write_classify.go, whose comment promises the resolved path as well).     *)
AllowListHolds ==
    pc = "done" /\ ~fired =>
        /\ \A i \in DOMAIN tree.path :
            LET req == tree.path[i].require
            IN req.allowed # {} /\ req.clean /\ req.resolve /\ req.denyOnFailure =>
                \A at \in Location(call.params[tree.path[i].field].p) :
                    \E q \in req.allowed : Covers(q, at)
        /\ \A i \in DOMAIN tree.write :
            LET req == tree.write[i].require
            IN req.allowed # {} =>
                \A p \in call.paths : \A at \in Forms(p) :
                    \E q \in req.allowed : \E real \in Forms(q) : Covers(real, at)

RECURSIVE Leaves(_)
Leaves(c) ==
    {<<form, c[form][1]>> : form \in Populated(c) \ {"and", "or", "not"}}
        \cup UNION {UNION {Leaves(c[form][i]) : i \in DOMAIN c[form]} : form \in {"and", "or", "not"}}

\* The call lacks what a classifier reads.
Unreadable(form, body, c) ==
    CASE form = "write" -> c.paths = {} /\ body.require.denied \cup body.require.allowed # {}
      [] form = "http" -> c.params[body.field].kind # "url"
      [] form = "llm" -> c.params[body.prompt].kind \notin Stringish
      [] OTHER -> c.params[body.field].kind # form /\ (form = "shell" => c.params[body.field].kind # "argv")

\* An http_classify that only denies stays silent when there is no URL.
SilentWithout(form, body, c) ==
    form = "http" /\ ~HasAllowList(body.require) /\ NoURL(c.params[body.field])

OnlyInputDiffers(form, body, c, d) ==
    LET field == CASE form = "write" -> "" [] form = "llm" -> body.prompt [] OTHER -> body.field
    IN /\ \A f \in DOMAIN c.params \ {field} : c.params[f] = d.params[f]
       /\ form # "write" => c.paths = d.paths
       /\ <<c.tool, c.script, c.content, c.method>> = <<d.tool, d.script, d.content, d.method>>

(* Leaving out or mistyping what a classifier reads never lets a call pass   *)
(* that some readable input would not, wherever the loader has admitted the  *)
(* classifier (validate.go, validateCondition; condition.go).  The one       *)
(* exception is an http_classify with deny lists only: it loads, and without *)
(* a URL it does not fire, although validate.go says of classifiers that     *)
(* they fire on a missing field.                                             *)
FailsClosed ==
    pc = "done" =>
        \A leaf \in Leaves(tree) :
            /\ leaf[1] \in Classifiers
            /\ Unreadable(leaf[1], leaf[2], call)
            /\ ~SilentWithout(leaf[1], leaf[2], call)
            => \A d \in Worlds[world].calls :
                OnlyInputDiffers(leaf[1], leaf[2], call, d) => (EvalCondition(tree, d, TRUE) => fired)

\* The inputs a leaf is tried on: what the rule names, and values unlike it.
Tried(leaf) ==
    {leaf.value, Missing, Object, Num(0), Num(9), Text(<<"other">>)}
        \cup IF leaf.value.kind = "list" THEN Range(leaf.value.items) ELSE {}

Vacuous(leaf) ==
    \/ leaf.value.kind = "nan"
    \/ leaf.value \in {List(<<>>), Text(<<>>)}
    \/ leaf.op \in {"gt_field", "lt_field"} /\ OtherField(leaf.value, [g |-> Num(3)]) = Missing
    \/ /\ leaf.field = "amount" /\ ~Numeric(leaf.value)
       /\ leaf.op \notin {"in", "not_in", "gt_field", "lt_field"}

(* No leaf the loader accepts is dead: each fires for some value of its      *)
(* field and stays silent for another, unless its value is an empty list, an *)
(* empty text, "NaN" or the name of a field no call has, or it asks whether  *)
(* the amount, which every call has, exists or is some other text; the       *)
(* loader takes these too (validate.go, validateOperatorValue; condition.go, *)
(* evalLeaf, FlattenEnvelope).                                               *)
LoadedLeafDecides ==
    pc = "idle" => \A leaf \in {l[2] : l \in {m \in Leaves(tree) : m[1] = "leaf"}} :
        ~Vacuous(leaf) =>
            {evalLeaf(leaf, FlattenEnvelope([f \in {"f", "g", "amount"} |->
                                                IF f = leaf.field THEN v ELSE Num(3)])) :
                v \in Tried(leaf)} = BOOLEAN

(* Every call is decided, whatever the model's endpoint does or fails to do  *)
(* (llm_classify.go, the context deadline; systemone.go, do).                *)
CallEnds == pc = "arrived" ~> pc \in {"done", "refused"}

=============================================================================
