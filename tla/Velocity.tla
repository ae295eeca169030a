------------------------------ MODULE Velocity ------------------------------
(***************************************************************************)
(* The velocity tracker of tg-proxy (cmd/tg-proxy/velocity.go) and the way *)
(* the evaluate handler uses it (handlers.go): a window of past monetary   *)
(* actions per key is read before the policy decision and written after    *)
(* it, each under the window's own mutex, with the decision and the audit  *)
(* append between them under no lock at all.  Windows live in a map with   *)
(* its own mutex and are dropped when idle.                                *)
(*                                                                         *)
(* A window object is named after the call that allocated it, so a call    *)
(* that still holds a window the map has dropped is representable.  The    *)
(* policy is the rule the documentation gives: deny when the 1h sum,       *)
(* including the call itself, exceeds Cap.                                 *)
(***************************************************************************)
EXTENDS Integers, Sequences, FiniteSets, FiniteSetsExt

CONSTANTS Req,        \* evaluate calls
          Key,        \* velocityKey values ("" counts as "_unknown")
          None,       \* an absent map entry or value
          Amounts,    \* env.Amount(); 0 when the call has none
          Cap,        \* the threshold of the rule on monetary_sum_1h
          Hour,       \* the 1h window, in clock ticks
          Day,        \* the 24h window
          IdleEvict,  \* idleEvict
          MaxKeys,    \* maxKeys
          MaxEvents,  \* velocityMaxEventsPerKey
          MaxTime     \* bound on the clock

ASSUME VelocityAssumption ==
    /\ None \notin Req \cup Key
    /\ Amounts \subseteq Nat
    /\ Cap \in Nat /\ MaxTime \in Nat
    /\ Hour \in Nat /\ Day \in Nat /\ IdleEvict \in Nat
    /\ Hour < Day
    /\ MaxKeys \in Nat \ {0} /\ MaxEvents \in Nat \ {0}

VARIABLES
    now,      \* the clock
    windows,  \* v.windows
    window,   \* the window objects: events and last
    call      \* the state of each evaluate call

vars == <<now, windows, window, call>>

-----------------------------------------------------------------------------

Event  == [at : Nat, amount : Nat]
Window == [events : Seq(Event), last : Nat]

Pc == {"idle", "lookup", "aggregate", "decide", "record", "proceeded", "denied"}

\* velNow, w, sum1h and sum24h are locals of the handler.  History: before, the
\* calls of the key already let through when this one arrived, and read, the
\* clock when it read its window.
Call == [pc : Pc, key : Key \cup {None}, amount : Nat, ledger : BOOLEAN, velNow : Nat,
         w : Req \cup {None}, sum1h : Nat, sum24h : Nat, before : SUBSET Req,
         read : Nat]

NoCall == [pc |-> "idle", key |-> None, amount |-> 0, ledger |-> FALSE, velNow |-> 0,
           w |-> None, sum1h |-> 0, sum24h |-> 0, before |-> {}, read |-> 0]

Init ==
    /\ now = 0
    /\ windows = [k \in Key |-> None]
    /\ window = [r \in Req |-> [events |-> <<>>, last |-> 0]]
    /\ call = [r \in Req |-> NoCall]

-----------------------------------------------------------------------------
(* velocityWindow *)

\* mutant: events older than an hour are dropped
Prune_Hour(es, t) ==
    LET keep == {i \in DOMAIN es : es[i].at + Hour >= t}
    IN  IF keep = {} THEN <<>>
        ELSE LET from == Max({Min(keep), Len(es) - MaxEvents + 1})
             IN  SubSeq(es, from, Len(es))

\* pruneLocked: drop the leading events older than a day, then all but the
\* newest MaxEvents.
Prune(es, t) ==
    LET keep == {i \in DOMAIN es : es[i].at + Day >= t}
    IN  IF keep = {} THEN <<>>
        ELSE LET from == Max({Min(keep), Len(es) - MaxEvents + 1})
             IN  SubSeq(es, from, Len(es))

\* The amounts of the members of S, summed.
Total(f, S) == MapThenSumSet(LAMBDA i : f[i].amount, S)

SumSince(es, t, span) == Total(es, {i \in DOMAIN es : es[i].at + span >= t})

-----------------------------------------------------------------------------
(* evaluate *)

\* velNow is read before the window is looked up.
Arrive(r, k, a, ledger) ==
    /\ call[r].pc = "idle"
    /\ call' = [call EXCEPT ![r] = [call[r] EXCEPT
                    !.pc = "lookup", !.key = k, !.amount = a, !.ledger = ledger,
                    !.velNow = now,
                    !.before = {s \in Req : call[s].pc = "proceeded" /\ call[s].key = k}]]
    /\ UNCHANGED <<now, windows, window>>

Tracked == {k \in Key : windows[k] # None}

\* sweepIdleLocked: the windows untouched for longer than IdleEvict
Idle == {k \in Tracked : window[windows[k]].last + IdleEvict < now}

\* windowFor, under v.mu; a call whose envelope carries its own agent_velocity
\* block skips the aggregate.
WindowFor(r) ==
    LET k == call[r].key
        swept == IF Cardinality(Tracked) >= MaxKeys THEN Idle ELSE {}
    IN  /\ call[r].pc = "lookup"
        /\ IF windows[k] # None
           THEN UNCHANGED <<windows, window>>
           ELSE /\ windows' = [j \in Key |-> IF j = k THEN r
                                             ELSE IF j \in swept THEN None
                                             ELSE windows[j]]
                /\ window' = [window EXCEPT ![r] = [events |-> <<>>, last |-> now]]
        /\ call' = [call EXCEPT ![r].w = windows'[k],
                                ![r].pc = IF call[r].ledger THEN "decide" ELSE "aggregate"]
        /\ UNCHANGED now

\* mutant: an event exactly an hour old is not counted
Aggregate_OpenHour(r) ==
    LET c == call[r]
        es == Prune(window[c.w].events, c.velNow)
    IN  /\ c.pc = "aggregate"
        /\ window' = [window EXCEPT ![c.w] = [events |-> es, last |-> c.velNow]]
        /\ call' = [call EXCEPT ![r].pc = "decide", ![r].read = now,
                                ![r].sum1h = SumSince(es, c.velNow, Hour - 1),
                                ![r].sum24h = Total(es, DOMAIN es)]
        /\ UNCHANGED <<now, windows>>

\* aggregate, under w.mu
Aggregate(r) ==
    LET c == call[r]
        es == Prune(window[c.w].events, c.velNow)
    IN  /\ c.pc = "aggregate"
        /\ window' = [window EXCEPT ![c.w] = [events |-> es, last |-> c.velNow]]
        /\ call' = [call EXCEPT ![r].pc = "decide", ![r].read = now,
                                ![r].sum1h = SumSince(es, c.velNow, Hour),
                                ![r].sum24h = Total(es, DOMAIN es)]
        /\ UNCHANGED <<now, windows>>

\* The velocity rule denies when the injected sum exceeds Cap; another rule, an
\* escalation or a failed audit append may stop the call too.  With a
\* caller-supplied block the rule's outcome is the caller's.  A call that does
\* not proceed leaves no event behind.
Decide(r, proceeds) ==
    /\ call[r].pc = "decide"
    /\ proceeds => call[r].ledger \/ call[r].sum1h + call[r].amount <= Cap
    /\ call' = [call EXCEPT ![r] =
                   IF proceeds
                   THEN [call[r] EXCEPT !.pc = IF call[r].amount > 0 THEN "record" ELSE "proceeded"]
                   ELSE [NoCall EXCEPT !.pc = "denied", !.key = call[r].key]]
    /\ UNCHANGED <<now, windows, window>>

\* record, under w.mu, with the time read on arrival; then the answer
Record(r) ==
    LET c == call[r]
    IN  /\ c.pc = "record"
        /\ window' = [window EXCEPT ![c.w] =
                        [events |-> Prune(Append(window[c.w].events,
                                                 [at |-> c.velNow, amount |-> c.amount]),
                                          c.velNow),
                         last |-> c.velNow]]
        /\ call' = [call EXCEPT ![r].pc = "proceeded"]
        /\ UNCHANGED <<now, windows>>

Tick == now < MaxTime /\ now' = now + 1 /\ UNCHANGED <<windows, window, call>>

Next ==
    \/ \E r \in Req :
          \/ \E k \in Key, a \in Amounts, ledger \in BOOLEAN : Arrive(r, k, a, ledger)
          \/ WindowFor(r) \/ Aggregate(r) \/ Record(r)
          \/ \E proceeds \in BOOLEAN : Decide(r, proceeds)
    \/ Tick

Spec == Init /\ [][Next]_vars

-----------------------------------------------------------------------------
(* Properties *)

\* The shape of the state.
TypeOK ==
    /\ now \in Nat
    /\ windows \in [Key -> Req \cup {None}]
    /\ window \in [Req -> Window]
    /\ call \in [Req -> Call]
    /\ \A r \in Req : /\ Len(window[r].events) <= MaxEvents
                      /\ call[r].pc \notin {"idle", "lookup", "denied"} => call[r].w \in Req

\* The call has read its window.
HasRead(r) == /\ call[r].pc \in {"decide", "record", "proceeded"}
              /\ ~call[r].ledger

Spenders == {s \in Req : call[s].pc = "proceeded" /\ call[s].amount > 0}

Spent(S) == Total(call, S)

\* The keys seen so far fit into the map: nothing was ever evicted.
KeysFit == Cardinality({call[r].key : r \in {q \in Req : call[q].pc # "idle"}}) <= MaxKeys

\* Spending of r's key answered before r arrived and not older than span when r
\* read its window: all of it while the keys fit, then what is in that window.
SpentBefore(r, span) ==
    Spent({s \in Spenders \cap call[r].before : /\ KeysFit \/ call[s].w = call[r].w
                                               /\ call[s].velNow + span >= call[r].read})

\* The window never overflowed its event cap.
NotFull(r) == Cardinality({s \in Spenders : call[s].w = call[r].w}) <= MaxEvents

\* The tracker bounds what an agent can spend with one call after another: a
\* call that proceeds stays within Cap together with all spending of the last
\* hour that was answered before it arrived, whatever other calls, prunes and
\* out-of-order records went through the window meanwhile.  Only the idle sweep
\* of a full map makes the tracker forget, and then whole windows.
SerialCap ==
    \A r \in Req : (HasRead(r) /\ call[r].pc \in {"record", "proceeded"} /\ NotFull(r))
                      => call[r].amount + SpentBefore(r, Hour) <= Cap

\* The 24h aggregate misses none of the day's earlier spending either: what
\* pruneLocked drops at another call's clock is out of this call's day too.
DayComplete ==
    \A r \in Req : (HasRead(r) /\ NotFull(r)) => call[r].sum24h >= SpentBefore(r, Day)

\* docs/operating.md: "The injected sum includes the prospective call, so a
\* `> cap` rule denies the call that crosses the line": no call proceeds that
\* exceeds Cap together with the spending of the hour up to its own arrival.
CrossingCallDenied ==
    \A r \in Req : (HasRead(r) /\ call[r].pc = "proceeded") =>
        Spent({s \in Spenders : /\ call[s].key = call[r].key
                                /\ call[s].velNow <= call[r].velNow
                                /\ call[s].velNow + Hour >= call[r].velNow}) <= Cap

\* docs/operating.md: "bounded (100k keys, 30-min idle eviction)", velocity.go:
\* "Bounded and idle-evicted exactly like rateLimiter".
KeysBounded == Cardinality(Tracked) <= MaxKeys
=============================================================================
