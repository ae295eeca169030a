------------------------------ MODULE LLMGuard ------------------------------
(***************************************************************************)
(* One llm_classify question: pkg/engine/llm_classify.go over              *)
(* pkg/llmguard (the Ollama client, the System One client with its         *)
(* retries, the guarded image fetch).  The endpoint may answer anything,   *)
(* late or never.  Time is in ticks, probabilities are in tenths.          *)
(***************************************************************************)
EXTENDS Integers, Sequences, Functions

CONSTANTS MaxLabels,        \* forbidden labels of one llm_classify
          MaxAttempts,      \* requests of one System One question
          Backoff,          \* ticks before the first retry
          DefaultTimeout,   \* ticks, for a rule that sets none
          ClientTimeout,    \* ticks, of the Ollama HTTP client
          Answers           \* what a 200 response may say

ASSUME LLMAssumption == \A a \in Answers : a.confidence \in Int

VARIABLE ask                \* the question under way

Blank == ""

minConfidence == 6

-----------------------------------------------------------------------------
(* The llm_classify block of a rule. *)

\* Labels differ in case and padding; what they are compared by is the text.
Label(text, form) == [text |-> text, form |-> form]

Config == [prompt : STRING, backend : STRING, url : STRING, image : STRING, timeout : Int,
           forbidden : Seq([text : STRING, form : STRING])]

ReservedLabels == {"safe", "model_refused", "ambiguous", "unknown_label", "error"}

validateLLM(llm) ==
    /\ llm.prompt # Blank
    /\ llm.backend \in {Blank, "ollama", "systemone"}
    /\ llm.backend = "systemone" => llm.url = Blank /\ llm.image = Blank
    /\ llm.url # "malformed"
    /\ llm.timeout \in 0..120
    /\ Len(llm.forbidden) \in 1..MaxLabels
    /\ \A i \in DOMAIN llm.forbidden :
        /\ llm.forbidden[i].text \notin ReservedLabels \cup {Blank}
        /\ llm.forbidden[i].form # "quoted"
        /\ \A j \in 1..(i - 1) : llm.forbidden[j].text # llm.forbidden[i].text

-----------------------------------------------------------------------------
(* A question. *)

NoAnswer == [choice |-> "none"]

NoQuestion == [phase |-> "none", cfg |-> <<>>, attempt |-> 0, now |-> 0, wait |-> 0,
               fired |-> FALSE, answer |-> NoAnswer]

Open == {"image", "calling", "backoff"}

\* The context deadline; the Ollama client gives up on its own as well.
Deadline(cfg) ==
    LET timeout == IF cfg.timeout > 0 THEN cfg.timeout ELSE DefaultTimeout
    IN IF cfg.backend # "systemone" /\ ClientTimeout < timeout THEN ClientTimeout ELSE timeout

Closed(fired, answer) == [NoQuestion EXCEPT !.phase = "done", !.fired = fired, !.answer = answer,
                                            !.cfg = ask.cfg]

FailClosed == Closed(TRUE, NoAnswer)

-----------------------------------------------------------------------------
(* What an answer comes to. *)

labels(forbidden) == {forbidden[i].text : i \in DOMAIN forbidden}

\* A padded label is never found in the list.
containsLabel(forbidden, label) ==
    \E i \in DOMAIN forbidden : forbidden[i].text = label /\ forbidden[i].form # "padded"

\* The floor applied to forbidden labels only.
UnsafeFloor(label, conf) == label # "safe" /\ conf < minConfidence

Ambiguous(label, conf) == conf < minConfidence

verdict(label, conf, known) ==
    CASE Ambiguous(label, conf) -> "ambiguous"
      [] ~Ambiguous(label, conf) /\ (label = "safe" \/ known) -> label
      [] OTHER -> "unknown_label"

\* One probability for each offered option, summing to one.
systemOneDistribution(probs, offered) ==
    /\ DOMAIN probs = offered
    /\ \A label \in offered : probs[label] \in 0..10
    /\ FoldFunction(+, 0, probs) = 10

\* The category of an accepted answer; "error" for one that is not.
interpretSystemOneAnswer(a, forbidden) ==
    LET offered == labels(forbidden) \cup {"safe"}
    IN IF \/ a.type # "choice"
          \/ a.choice = Blank
          \/ ~systemOneDistribution(a.probs, offered)
       THEN "error"
       ELSE IF a.choice \notin offered THEN "unknown_label"
       ELSE IF \E q \in offered : a.probs[q] > a.probs[a.choice] THEN "error"
       ELSE verdict(a.choice, a.probs[a.choice], a.choice \in labels(forbidden))

\* The Ollama backend: empty content is a refusal, the model's own word is its
\* confidence.
ollamaCategory(a, forbidden) ==
    CASE a.type = "refused" -> "model_refused"
      [] a.type = "choice" /\ a.choice # Blank ->
            verdict(a.choice, a.confidence, containsLabel(forbidden, a.choice) \/ a.choice = "model_refused")
      [] OTHER -> "error"

Category(cfg, a) ==
    IF cfg.backend = "systemone" THEN interpretSystemOneAnswer(a, cfg.forbidden)
    ELSE ollamaCategory(a, cfg.forbidden)

interpretClassifyResult(category) == category # "safe"

-----------------------------------------------------------------------------
(* Steps. *)

\* The System One endpoint comes from the environment and must be valid.
usableEndpoint(cfg, endpointOK) == cfg.backend = "systemone" => endpointOK

\* The prompt is read and the call begins, with the image if there is one; an
\* endpoint setting that is not usable ends it at once.
AskModel(cfg, readable, image, endpointOK) ==
    LET start == [NoQuestion EXCEPT !.cfg = cfg, !.attempt = 1]
    IN /\ ask.phase = "none"
       /\ ask' = CASE ~readable \/ ~usableEndpoint(cfg, endpointOK) ->
                          [start EXCEPT !.phase = "done", !.fired = TRUE, !.attempt = 0]
                   [] readable /\ usableEndpoint(cfg, endpointOK)
                        /\ cfg.backend # "systemone" /\ image -> [start EXCEPT !.phase = "image"]
                   [] OTHER -> [start EXCEPT !.phase = "calling"]

\* The guarded client: the name resolves, and only to public addresses.
SafeFetch(addresses) == addresses # {} /\ addresses \subseteq {"public"}

\* FetchImageBase64: only a 200 of bounded size counts.
FetchImage(addresses, good) ==
    /\ ask.phase = "image"
    /\ ask.now < Deadline(ask.cfg)
    /\ ask' = IF SafeFetch(addresses) /\ good THEN [ask EXCEPT !.phase = "calling"] ELSE FailClosed

\* A response with status 200.
Answered(a) ==
    /\ ask.phase = "calling"
    /\ ask.now < Deadline(ask.cfg)
    /\ ask' = Closed(interpretClassifyResult(Category(ask.cfg, a)), a)

\* 429, 503 or 529: the System One client waits and tries again.
Busy ==
    /\ ask.phase = "calling"
    /\ ask.now < Deadline(ask.cfg)
    /\ ask' = IF ask.cfg.backend = "systemone" /\ ask.attempt < MaxAttempts
              THEN [ask EXCEPT !.phase = "backoff", !.wait = Backoff * 2 ^ (ask.attempt - 1)]
              ELSE FailClosed

\* Any other status, a body that cannot be read, a failed connection.
CallFails ==
    /\ ask.phase = "calling"
    /\ ask.now < Deadline(ask.cfg)
    /\ ask' = FailClosed

Retry ==
    /\ ask.phase = "backoff"
    /\ ask.wait = 0
    /\ ask' = [ask EXCEPT !.phase = "calling", !.attempt = @ + 1]

\* The deadline is seen between attempts only.
ExpireBetween ==
    /\ ask.phase = "backoff"
    /\ ask.now = Deadline(ask.cfg)
    /\ ask' = FailClosed

Expire ==
    /\ ask.phase \in Open
    /\ ask.now = Deadline(ask.cfg)
    /\ ask' = FailClosed

TickModel ==
    /\ ask.phase \in Open
    /\ ask.now < Deadline(ask.cfg)
    /\ ask' = [ask EXCEPT !.now = @ + 1, !.wait = IF @ > 0 THEN @ - 1 ELSE 0]

-----------------------------------------------------------------------------
(* One question after the other. *)

\* Only a configuration that validates is asked about.
Begin ==
    /\ ask'.cfg \in Config
    /\ validateLLM(ask'.cfg)
    /\ \E readable, image, endpointOK \in BOOLEAN : AskModel(ask'.cfg, readable, image, endpointOK)

Forget ==
    /\ ask.phase = "done"
    /\ ask' = NoQuestion

QuestionNext ==
    \/ Begin
    \/ \E addresses \in SUBSET {"public", "private"}, good \in BOOLEAN : FetchImage(addresses, good)
    \/ \E a \in Answers : Answered(a)
    \/ Busy
    \/ CallFails
    \/ Retry
    \/ Expire
    \/ TickModel
    \/ Forget

(* Whatever the tree, a rule's evaluation asks one question at a time, about *)
(* a configuration the loader validated, and uses an answer only where the   *)
(* client's loop of attempts takes one (validate.go, validateCondition;      *)
(* llm_classify.go; systemone.go, do).                                       *)
Question == ask = NoQuestion /\ [][QuestionNext]_ask

(* A question that lets the call pass was answered "safe" in time, at or    *)
(* above the floor, with no more than the rest of the mass on what the rule *)
(* forbids: no error, timeout, retry or malformed answer ever counts as     *)
(* safe (llm_classify.go, interpretClassifyResult and what feeds it).       *)
OnlySafePasses ==
    ask.phase = "done" /\ ~ask.fired =>
        /\ ask.answer.choice = "safe"
        /\ IF ask.cfg.backend = "systemone"
           THEN /\ ask.answer.probs["safe"] >= minConfidence
                /\ \A i \in DOMAIN ask.cfg.forbidden :
                        ask.answer.probs[ask.cfg.forbidden[i].text] <= 10 - minConfidence
           ELSE ask.answer.confidence >= minConfidence

=============================================================================
