----------------------------- MODULE PolicyReload -----------------------------
(***************************************************************************)
(* Loading and reloading the policy set of tg-proxy                        *)
(* (cmd/tg-proxy/policy_loader.go, pkg/policyload/hash.go and              *)
(* engine.ValidatePolicySet).  SIGHUP and POST /reload may run at once, a  *)
(* reload reads the directory file by file while the operator edits it,    *)
(* and readers take policies and hash under the read lock.                 *)
(***************************************************************************)
EXTENDS Naturals, FiniteSets

CONSTANTS NFiles,     \* policy files are numbered in directory order
          Policies,   \* identities (policy_id and version) a file may declare
          Reloaders,  \* the SIGHUP goroutine and the /reload handlers
          MaxEdits,   \* bound on edits of the directory
          MaxReloads  \* bound on reloads

\* "absent" and "invalid" stand for a file that declares no identity.
ASSUME PolicyReloadAssumption ==
    /\ NFiles \in Nat /\ MaxEdits \in Nat /\ MaxReloads \in Nat
    /\ "absent" \notin Policies /\ "invalid" \notin Policies

VARIABLES
    dir,            \* the policy directory
    edits,          \* edits of it so far
    policies,       \* p.policies: what each file declared when it was read
    policySetHash,  \* p.policySetHash
    reload,         \* the state of each reload in progress
    loadCount,      \* p.loadCount
    reloads         \* reloads begun so far

reloadVars == <<dir, edits, policies, policySetHash, reload, loadCount, reloads>>

-----------------------------------------------------------------------------

Files == 1..NFiles

\* A file declares a policy, is refused by policyload.Load or ValidatePolicy,
\* or is not there.
Content == Policies \cup {"absent", "invalid"}

NoPolicies == [f \in Files |-> "absent"]

Present(s) == {f \in Files : s[f] # "absent"}

\* engine.ValidatePolicySet: no identity twice.
ValidatePolicySet(s) ==
    \A f, g \in Present(s) : s[f] = s[g] => f = g

\* policyload.PolicySetHash: equal for equal sets whatever the file names and
\* their order.
PolicySetHash(s) == {s[f] : f \in Present(s)}

\* A set of policies that a reload may publish.
Loadable(s) == (\A f \in Files : s[f] # "invalid") /\ ValidatePolicySet(s)

Idle == [pc |-> "idle", todo |-> {}, loaded |-> NoPolicies]

\* main loads the directory before it listens and stops when that fails.
ReloadInit ==
    /\ dir \in {d \in [Files -> Content] : Loadable(d)}
    /\ policies = dir
    /\ policySetHash = PolicySetHash(dir)
    /\ reload = [r \in Reloaders |-> Idle]
    /\ loadCount = 1
    /\ edits = 0 /\ reloads = 0

\* The operator writes or removes one file.
EditDir ==
    /\ edits < MaxEdits
    /\ \E f \in Files, c \in Content : c # dir[f] /\ dir' = [dir EXCEPT ![f] = c]
    /\ edits' = edits + 1
    /\ UNCHANGED <<policies, policySetHash, reload, loadCount, reloads>>

\* reload begins: ReadDir lists the files of the moment.
ReadDir(r) ==
    /\ reload[r].pc = "idle"
    /\ reloads < MaxReloads
    /\ reloads' = reloads + 1
    /\ reload' = [reload EXCEPT ![r] = [Idle EXCEPT !.pc = "reading",
                                                    !.todo = Present(dir)]]
    /\ UNCHANGED <<dir, edits, policies, policySetHash, loadCount>>

\* The next listed file is read: a file removed since, or refused, ends the
\* reload with nothing changed.
LoadFile(r) ==
    /\ reload[r].pc = "reading" /\ reload[r].todo # {}
    /\ LET f == CHOOSE f \in reload[r].todo : \A g \in reload[r].todo : f <= g
       IN reload' = [reload EXCEPT ![r] =
                       IF dir[f] \in Policies
                       THEN [reload[r] EXCEPT !.todo = reload[r].todo \ {f},
                                             !.loaded[f] = dir[f]]
                       ELSE Idle]
    /\ UNCHANGED <<dir, edits, policies, policySetHash, loadCount, reloads>>

\* The set is published before it is validated as a whole.
PublishUnvalidated(r) ==
    /\ reload[r].pc = "reading" /\ reload[r].todo = {}
    /\ reload' = [reload EXCEPT ![r] = Idle]
    /\ policies' = reload[r].loaded
    /\ policySetHash' = PolicySetHash(reload[r].loaded)
    /\ loadCount' = loadCount + 1
    /\ UNCHANGED <<dir, edits, reloads>>

\* Every file is read: the set is validated as a whole, and the set and its
\* hash are swapped in under one write lock.
PublishSet(r) ==
    /\ reload[r].pc = "reading" /\ reload[r].todo = {}
    /\ reload' = [reload EXCEPT ![r] = Idle]
    /\ IF ValidatePolicySet(reload[r].loaded)
       THEN /\ policies' = reload[r].loaded
            /\ policySetHash' = PolicySetHash(reload[r].loaded)
            /\ loadCount' = loadCount + 1
       ELSE UNCHANGED <<policies, policySetHash, loadCount>>
    /\ UNCHANGED <<dir, edits, reloads>>

ReloadNext == EditDir \/ \E r \in Reloaders : ReadDir(r) \/ LoadFile(r) \/ PublishSet(r)

\* However reloads, edits and failures interleave, the set in force is wholly
\* valid and is the one its published hash names.
ServingValid == Loadable(policies) /\ policySetHash = PolicySetHash(policies)

=============================================================================
