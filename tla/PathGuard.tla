------------------------------ MODULE PathGuard ------------------------------
(***************************************************************************)
(* What the engine makes of a path in a tool call: pkg/engine/protect.go   *)
(* (the operator's protected paths, file tools and shell commands),        *)
(* path_classify.go, write_classify.go and shell_classify.go.  A path is   *)
(* absolute or relative with a sequence of components; the tokenizer of    *)
(* shell_tokenize.go is taken as given, a command is its tokens.  The      *)
(* Windows forms of paths are left out.                                    *)
(***************************************************************************)
EXTENDS Naturals, Sequences, FiniteSets, SequencesExt

CONSTANTS Existing,   \* the directories that exist, as components
          Cwd,        \* the working directory
          MaxHops,    \* bound on the links one resolution follows
          MaxShellSubstDepth  \* command substitutions looked into, one in another

VARIABLE links        \* the symbolic links: where each leads

-----------------------------------------------------------------------------
(* Paths. *)

Path(abs, parts) == [abs |-> abs, parts |-> parts]

Abs(parts) == Path(TRUE, parts)

\* path.Clean: empty and dot components go, dot-dot takes the one before it;
\* at the root of an absolute path there is none to take.
CleanParts(parts) ==
    FoldLeft(LAMBDA done, c :
                CASE c \in {"", "."} -> done
                  [] c = ".." -> IF done = <<>> THEN done ELSE Front(done)
                  [] OTHER -> Append(done, c),
             <<>>, parts)

\* The absolute, cleaned form.
Absolute(p) == CleanParts(IF p.abs THEN p.parts ELSE Cwd \o p.parts)

\* filepath.EvalSymlinks (external): where a path leads and whether a link was
\* followed; {} when some component does not exist or the links go round.
Follow[done \in Seq(STRING), rest \in Seq(STRING), hops \in 0..MaxHops] ==
    IF rest = <<>> THEN {[at |-> done, linked |-> hops < MaxHops]}
    ELSE LET next == CleanParts(Append(done, Head(rest)))
         IN CASE next \in DOMAIN links /\ hops > 0 ->
                    Follow[<<>>, links[next] \o Tail(rest), hops - 1]
              [] next \notin DOMAIN links /\ next \in Existing -> Follow[next, Tail(rest), hops]
              [] OTHER -> {}

EvalSymlinks(parts) == Follow[<<>>, parts, MaxHops]

\* The deepest ancestor that resolves, with the rest put back behind it.
resolveSymlinksBestEffort(parts) ==
    LET upto == {k \in 0..Len(parts) : EvalSymlinks(SubSeq(parts, 1, k)) # {}}
        best == CHOOSE k \in upto : \A j \in upto : j <= k
    IN (CHOOSE r \in EvalSymlinks(SubSeq(parts, 1, best)) : TRUE).at
         \o SubSeq(parts, best + 1, Len(parts))

\* The path as written, without what it resolves to.
LexicalCandidate(p) == {Absolute(p)}

canonicalCandidates(p) == {Absolute(p), resolveSymlinksBestEffort(Absolute(p))}

expandPrefixes(prefixes) == UNION {canonicalCandidates(p) : p \in prefixes}

-----------------------------------------------------------------------------
(* Prefixes with wildcards. *)

\* "*" is one component, "**" any number of them; the pattern is a prefix.
matchSegments[pat \in Seq(STRING), parts \in Seq(STRING)] ==
    \/ pat = <<>>
    \/ /\ Head(pat) = "**"
       /\ \E k \in 0..Len(parts) : matchSegments[Tail(pat), SubSeq(parts, k + 1, Len(parts))]
    \/ /\ Head(pat) # "**"
       /\ parts # <<>>
       /\ Head(pat) \in {"*", Head(parts)}
       /\ Head(pat) = "*" => Head(parts) # ""
       /\ matchSegments[Tail(pat), Tail(parts)]

\* The prefixes are absolute and cleaned.
matchPathPrefix(parts, prefix) == matchSegments[prefix, parts]

Under(parts, prefixes) == \E q \in prefixes : matchPathPrefix(parts, q)

-----------------------------------------------------------------------------
(* Protected paths. *)

ReadTools == {"read"}
ShellTools == {"bash"}

\* The words of a shell command: a program, a plain word, an option, a path, a
\* path glued to an option, a file descriptor, "--", an assignment.  Any word
\* may name a file; sub is the command a word substitutes.
Word(form, path) == [kind |-> "word", form |-> form, path |-> path, sub |-> <<>>, unresolved |-> FALSE]

Expansion(sub) == [kind |-> "word", form |-> "expansion", path |-> Path(FALSE, <<>>), sub |-> sub,
                   unresolved |-> TRUE]

\* A file with an option's name.
OptionFile == Path(FALSE, <<"-f">>)

Operator(kind) == [kind |-> kind, form |-> "operator", path |-> Path(FALSE, <<>>), sub |-> <<>>,
                   unresolved |-> FALSE]

Redirections == {"write", "dup", "read"}

\* The word after a redirection operator.
OperandAt(toks, i) ==
    i > 1 /\ toks[i].kind = "word" /\ toks[i - 1].kind \in Redirections

redirectTargets(toks) ==
    {toks[i] : i \in {j \in DOMAIN toks :
        /\ OperandAt(toks, j)
        /\ toks[j - 1].kind \in {"write", "dup"}
        /\ toks[j - 1].kind = "dup" => toks[j].form # "fd"}}

\* The command a position belongs to: how many separators precede it.
SegmentOf(toks, i) == Cardinality({j \in 1..i : toks[j].kind = "sep"})

\* One command's words without redirections, in order.
commandWords(toks, n) ==
    LET at == SelectSeq([i \in DOMAIN toks |-> i],
                        LAMBDA i : /\ toks[i].kind = "word"
                                   /\ SegmentOf(toks, i) = n
                                   /\ ~OperandAt(toks, i))
    IN [k \in DOMAIN at |-> toks[at[k]]]

\* Leading NAME=value words are not the program.
stripLeadingAssignments(words) ==
    LET lead == {k \in 0..Len(words) : \A j \in 1..k : words[j].form = "assignment"}
        n == CHOOSE k \in lead : \A j \in lead : j <= k
    IN SubSeq(words, n + 1, Len(words))

\* A program known to change files, or one that does so under an option.  An
\* expansion as a program is not known.
isMutatingProg(words) ==
    \/ words[1].form = "mutator"
    \/ words[1].form = "sed" /\ \E k \in 2..Len(words) : words[k].form = "inplace"

\* The files the arguments may name: a word names one, an option before "--"
\* only the one glued to it.
PathArguments(words) ==
    LET dashes == {k \in 2..Len(words) : words[k].form = "dashdash"}
        separator(k) == k \in dashes /\ \A d \in dashes : k <= d
        positional(k) == \E d \in dashes : d < k
        names(k) == CASE words[k].form = "glued" ->
                           {words[k].path} \cup IF positional(k) THEN {OptionFile} ELSE {}
                      [] words[k].form \in {"option", "inplace"} -> IF positional(k) THEN {OptionFile} ELSE {}
                      [] separator(k) -> {}
                      [] OTHER -> {words[k].path}
    IN UNION {names(k) : k \in 2..Len(words)}

HasUnresolvedArgument(words) == \E k \in 2..Len(words) : words[k].unresolved

\* What a substitution runs is looked into, down to the maximal depth.
RECURSIVE shellTouchesProtectedRec(_, _, _)
shellTouchesProtectedRec(toks, prefixes, depth) ==
    LET hit(p) == \E c \in canonicalCandidates(p) : Under(c, prefixes)
        commands == {stripLeadingAssignments(commandWords(toks, n)) : n \in 0..Len(toks)}
    IN \/ \E w \in redirectTargets(toks) : w.unresolved \/ hit(w.path)
       \/ \E words \in commands :
            /\ Len(words) >= 2
            /\ isMutatingProg(words)
            /\ \/ HasUnresolvedArgument(words)
               \/ \E p \in PathArguments(words) : hit(p)
       \/ /\ depth < MaxShellSubstDepth
          /\ \E i \in DOMAIN toks : /\ toks[i].sub # <<>>
                                    /\ shellTouchesProtectedRec(toks[i].sub, prefixes, depth + 1)

\* A tool call: its name, the paths in its parameters and its command.
ViolatesProtectedPaths(call, prefixes) ==
    LET clean == expandPrefixes(prefixes)
    IN \/ /\ call.tool \notin ReadTools
          /\ \E p \in call.paths : \E c \in canonicalCandidates(p) : Under(c, clean)
       \/ /\ call.tool \in ShellTools
          /\ shellTouchesProtectedRec(call.command, clean, 0)

-----------------------------------------------------------------------------
(* Classifiers: TRUE is "the rule fires". *)

\* path_classify: the path as written, cleaned if the rule says so, and where
\* it leads if a link takes it elsewhere.
Written(req, p) == IF req.clean THEN CleanParts(p.parts) ELSE p.parts

Resolved(req, p) == EvalSymlinks((IF p.abs THEN <<>> ELSE Cwd) \o Written(req, p))

PathVariants(req, p) ==
    {Path(p.abs, Written(req, p))}
        \cup IF req.resolve
             THEN {IF p.abs \/ r.linked THEN Abs(r.at) ELSE Path(FALSE, CleanParts(p.parts)) :
                        r \in Resolved(req, p)}
             ELSE {}

\* One variant inside the allow-list is enough.
SomeVariantAllowed(variants, allowed) == \E v \in variants : v.abs /\ Under(v.parts, allowed)

VariantsAllowed(variants, allowed) == \A v \in variants : v.abs /\ Under(v.parts, allowed)

\* A component that holds a shell metacharacter.
Meta == "a;b"

evalPathClassify(req, p) ==
    LET variants == PathVariants(req, p)
    IN \/ req.absoluteOnly /\ ~p.abs
       \/ req.denyMetas /\ Contains(p.parts, Meta)
       \/ req.maxLength > 0 /\ Len(Written(req, p)) > req.maxLength
       \/ req.resolve /\ req.denyOnFailure /\ Resolved(req, p) = {}
       \/ \E v \in variants : v.abs /\ Under(v.parts, req.denied)
       \/ req.allowed # {} /\ ~VariantsAllowed(variants, req.allowed)

\* write_classify: every file the call names, against the prefixes as written
\* and as resolved; content that is missing, too long or matched.
evalWriteClassify(req, paths, content) ==
    LET denied == expandPrefixes(req.denied)
        allowed == expandPrefixes(req.allowed)
        candidates == {Abs(c) : c \in UNION {canonicalCandidates(p) : p \in paths}}
    IN \/ /\ req.denied \cup req.allowed # {}
          /\ \/ paths = {}
             \/ \E c \in candidates : Under(c.parts, denied)
             \/ allowed # {} /\ ~VariantsAllowed(candidates, allowed)
       \/ req.content /\ content # "fine"

\* Programs that run another one with an environment.
Wrappers == {"sudo"}

\* shell_classify: an argv of strings, never empty here.
evalShellClassify(req, argv) ==
    \/ req.maxArgc > 0 /\ Len(argv) > req.maxArgc
    \/ req.programs # {} /\ argv[1].form \notin req.programs
    \/ \E i \in DOMAIN argv : argv[i].form \in req.patterns
    \/ \E i \in DOMAIN argv :
        /\ argv[i].path.abs
        /\ LET cleaned == CleanParts(argv[i].path.parts)
               resolved == IF req.resolve THEN {r.at : r \in EvalSymlinks(cleaned)} ELSE {}
           IN \E v \in {cleaned} \cup resolved : Under(v, req.denied)
    \/ /\ argv[1].form \in Wrappers
       /\ \E i \in 2..Len(argv) : argv[i].form \in req.envPatterns

=============================================================================
