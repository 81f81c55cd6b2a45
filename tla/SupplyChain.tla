---------------------------- MODULE SupplyChain ----------------------------
(***************************************************************************)
(* Supply-chain assurance (common/supply_chain.py) and its only caller on  *)
(* a node, InferenceWorker.execute (node_agent/worker.py).                 *)
(*                                                                         *)
(* The policy, the approved models, the signing keys and the revocations   *)
(* are keys of the state store.  Each put and each get is atomic, a        *)
(* registration is two puts and a verification up to four gets, and a step *)
(* here ends with each of them.                                            *)
(*                                                                         *)
(* An approval is the input of register_approved_model and the record it   *)
(* stores: the provenance is reduced to its builder and its vulnerability  *)
(* counts, the signature to the key that made it.  Digests are those that  *)
(* is_immutable_digest accepts; a request may also carry a mutable tag, or *)
(* none.  A task is an idempotency key, and retries of it are handled by   *)
(* jobs: the handler threads that run execute.                             *)
(***************************************************************************)
EXTENDS Integers

CONSTANTS
    Models, Digests, KeyIds, Signers, Builders,
    Approvals,   \* what may be registered
    Policies,    \* what an operator may set
    CiBuilders,  \* the default allowed_builders; an empty one allows all
    Tasks,       \* idempotency keys
    TaskModel,   \* task -> model_id
    TaskDigest,  \* task -> the digest requested, Tag or None
    Jobs,        \* handler threads of the node
    Tag,         \* a reference that is not an immutable digest
    None

Approval ==
    [model : Models, digest : Digests, builder : Builders, critical : Nat, high : Nat,
     key_id : KeyIds, signer : Signers]

SupplyChainPolicy ==
    [require_immutable_digest : BOOLEAN, require_signature : BOOLEAN,
     allowed_builders : SUBSET Builders,
     max_allowed_critical_vulns : Nat, max_allowed_high_vulns : Nat]

\* Fields of SupplyChainPolicy(), used when none is stored.
DefaultPolicy ==
    [require_immutable_digest |-> TRUE, require_signature |-> TRUE,
     allowed_builders |-> CiBuilders,
     max_allowed_critical_vulns |-> 0, max_allowed_high_vulns |-> 0]

ASSUME SupplyChainAssumption ==
    /\ Approvals \subseteq Approval
    /\ Policies \subseteq SupplyChainPolicy
    /\ CiBuilders \in SUBSET Builders
    /\ TaskModel \in [Tasks -> Models]
    /\ TaskDigest \in [Tasks -> Digests \cup {Tag, None}]
    /\ None \notin Approval \cup SupplyChainPolicy \cup Digests \cup Signers \cup Tasks
    /\ None # Tag /\ Tag \notin Digests

VARIABLES
    policy,   \* /policies/supply-chain
    models,   \* /artifacts/models/: model -> its record
    keys,     \* /ci/keys/: key id -> public key
    revoked,  \* /revocations/artifacts/
    signing,  \* registrations that have stored their key and not yet their record
    job,      \* job -> the locals of its call of execute
    cache     \* task -> the digest of its cached result

registryVars == <<policy, models, keys, revoked, signing>>
vars == <<registryVars, job, cache>>

IdleJob == [at |-> "idle", task |-> None, policy |-> None, record |-> None,
            result |-> None, disturbed |-> FALSE]

Verifying == {"record", "revocation", "key", "execute", "refused"}

SupplyChainInit ==
    /\ policy = None
    /\ models = [m \in Models |-> None]
    /\ keys = [k \in KeyIds |-> None]
    /\ revoked = {}
    /\ signing = {}
    /\ job = [j \in Jobs |-> IdleJob]
    /\ cache = [t \in Tasks |-> None]

----------------------------------------------------------------------------
(* The operators' side.  A history flag tells the verifications under way  *)
(* that the registry has changed.                                          *)

Disturb ==
    job' = [j \in Jobs |-> IF job[j].at \in Verifying
                           THEN [job[j] EXCEPT !.disturbed = TRUE] ELSE job[j]]

SetPolicy(p) ==
    /\ policy' = p
    /\ Disturb
    /\ UNCHANGED <<models, keys, revoked, signing, cache>>

\* register_approved_model stores the public key, whatever was there before, ...
StoreKey(a) ==
    /\ a \notin signing
    /\ keys' = [keys EXCEPT ![a.key_id] = a.signer]
    /\ signing' = signing \cup {a}
    /\ Disturb
    /\ UNCHANGED <<policy, models, revoked, cache>>

\* ... signs the provenance, and stores the record.
StoreRecord(a) ==
    /\ a \in signing
    /\ models' = [models EXCEPT ![a.model] = a]
    /\ signing' = signing \ {a}
    /\ Disturb
    /\ UNCHANGED <<policy, keys, revoked, cache>>

\* Nothing removes a revocation again.
RevokeDigest(d) ==
    /\ revoked' = revoked \cup {d}
    /\ Disturb
    /\ UNCHANGED <<policy, models, keys, signing, cache>>

----------------------------------------------------------------------------
(* The node's side.                                                        *)

\* Fault: a retry of a task is recognised by its model.
LookUp_ByModel(j, t) ==
    /\ job[j].at = "idle"
    /\ LET hits == {u \in Tasks : TaskModel[u] = TaskModel[t] /\ cache[u] # None} IN
       job' = [job EXCEPT ![j] =
         IF hits = {} THEN [IdleJob EXCEPT !.at = "policy", !.task = t]
         ELSE [IdleJob EXCEPT !.at = "served", !.task = t,
                              !.result = cache[CHOOSE u \in hits : TRUE]]]
    /\ UNCHANGED <<registryVars, cache>>

\* A cached result is returned as it is, without any of the checks.
LookUp(j, t) ==
    /\ job[j].at = "idle"
    /\ job' = [job EXCEPT ![j] =
         IF cache[t] = None
         THEN [IdleJob EXCEPT !.at = "policy", !.task = t]
         ELSE [IdleJob EXCEPT !.at = "served", !.task = t, !.result = cache[t]]]
    /\ UNCHANGED <<registryVars, cache>>

Go(j, s) ==
    /\ job' = [job EXCEPT ![j] = s]
    /\ UNCHANGED <<registryVars, cache>>

Requested(s) == TaskDigest[s.task]

ActivePolicy == IF policy = None THEN DefaultPolicy ELSE policy

\* Policy first, and at once whether it allows the kind of reference.
ReadPolicy(j) ==
    LET s == [job[j] EXCEPT !.policy = ActivePolicy] IN
    /\ job[j].at = "policy"
    /\ Go(j, [s EXCEPT !.at =
         IF s.policy.require_immutable_digest /\ Requested(s) \notin Digests
         THEN "refused" ELSE "record"])

MatchesRequest(s) == Requested(s) = None \/ Requested(s) = s.record.digest

ReadRecord(j) ==
    LET s == [job[j] EXCEPT !.record = models[TaskModel[job[j].task]]] IN
    /\ job[j].at = "record"
    /\ Go(j, [s EXCEPT !.at =
         IF s.record = None THEN "refused"
         ELSE IF MatchesRequest(s) THEN "revocation" ELSE "refused"])

\* Builder identity and vulnerability thresholds.
Permits(p, r) ==
    /\ p.allowed_builders = {} \/ r.builder \in p.allowed_builders
    /\ r.critical <= p.max_allowed_critical_vulns
    /\ r.high <= p.max_allowed_high_vulns

Verdict(s) == IF Permits(s.policy, s.record) THEN "execute" ELSE "refused"

\* Fault: the registry is asked for the digest of the request.
CheckRevoked_Requested(j) ==
    LET s == job[j] IN
    /\ s.at = "revocation"
    /\ Go(j, [s EXCEPT !.at =
         IF Requested(s) \in revoked THEN "refused"
         ELSE IF s.policy.require_signature THEN "key" ELSE Verdict(s)])

\* The record's revoked flag is never set: revocations are keys of their own.
CheckRevoked(j) ==
    LET s == job[j] IN
    /\ s.at = "revocation"
    /\ Go(j, [s EXCEPT !.at =
         IF s.record.digest \in revoked THEN "refused"
         ELSE IF s.policy.require_signature THEN "key" ELSE Verdict(s)])

\* verify_artifact_signature, with the key that is stored under the record's key id.
SignatureHolds(r) == keys[r.key_id] = r.signer

\* Fault: a good signature is enough.
CheckSignature_Enough(j) ==
    LET s == job[j] IN
    /\ s.at = "key"
    /\ Go(j, [s EXCEPT !.at =
         IF SignatureHolds(s.record) THEN "execute" ELSE "refused"])

CheckSignature(j) ==
    LET s == job[j] IN
    /\ s.at = "key"
    /\ Go(j, [s EXCEPT !.at =
         IF SignatureHolds(s.record) THEN Verdict(s) ELSE "refused"])

\* The inference, and its result into the cache.
Execute(j) ==
    /\ job[j].at = "execute"
    /\ cache' = [cache EXCEPT ![job[j].task] = job[j].record.digest]
    /\ job' = [job EXCEPT ![j].at = "served", ![j].result = job[j].record.digest]
    /\ UNCHANGED registryVars

\* Fault: the locals outlive the call.
Finish_KeepsLocals(j) ==
    /\ job[j].at \in {"served", "refused"}
    /\ Go(j, [job[j] EXCEPT !.at = "idle"])

\* The handler answers.
Finish(j) ==
    /\ job[j].at \in {"served", "refused"}
    /\ Go(j, IdleJob)

RestartNode ==
    /\ job' = [j \in Jobs |-> IdleJob]
    /\ cache' = [t \in Tasks |-> None]
    /\ UNCHANGED registryVars

SupplyChainNext ==
    \/ \E p \in Policies : SetPolicy(p)
    \/ \E a \in Approvals : StoreKey(a) \/ StoreRecord(a)
    \/ \E d \in Digests : RevokeDigest(d)
    \/ \E j \in Jobs :
         \/ \E t \in Tasks : LookUp(j, t)
         \/ ReadPolicy(j) \/ ReadRecord(j) \/ CheckRevoked(j) \/ CheckSignature(j)
         \/ Execute(j) \/ Finish(j)
    \/ RestartNode

\* A handler thread goes on with its call.
SupplyChainFairness ==
    \A j \in Jobs :
        /\ WF_vars(ReadPolicy(j)) /\ WF_vars(ReadRecord(j)) /\ WF_vars(CheckRevoked(j))
        /\ WF_vars(CheckSignature(j)) /\ WF_vars(Execute(j)) /\ WF_vars(Finish(j))

SupplyChainSpec == SupplyChainInit /\ [][SupplyChainNext]_vars
SupplyChainFairSpec == SupplyChainSpec /\ SupplyChainFairness

----------------------------------------------------------------------------
(* Properties.                                                             *)

JobState ==
    [at : {"idle", "policy", "served"} \cup Verifying,
     task : Tasks \cup {None},
     policy : Policies \cup {DefaultPolicy, None},
     record : Approvals \cup {None},
     result : Digests \cup {None},
     disturbed : BOOLEAN]

JobTypeOK(s) ==
    IF s.at = "idle" THEN s = IdleJob
    ELSE /\ s.task \in Tasks
         /\ s.at \in {"record", "revocation", "key", "execute"} => s.policy # None
         /\ s.at \in {"revocation", "key", "execute"} => s.record # None
         /\ s.at = "served" <=> s.result # None

SupplyChainTypeOK ==
    /\ policy \in Policies \cup {None}
    /\ models \in [Models -> Approvals \cup {None}]
    /\ keys \in [KeyIds -> Signers \cup {None}]
    /\ revoked \subseteq Digests
    /\ signing \subseteq Approvals
    /\ job \in [Jobs -> JobState]
    /\ \A j \in Jobs : JobTypeOK(job[j])
    /\ cache \in [Tasks -> Digests \cup {None}]

\* The digest that runs, and that any retry is answered with, is the one the task
\* asked for, if it asked for one (supply_chain.py:244, worker.py:31).
RunsWhatWasAsked ==
    /\ \A j \in Jobs :
         /\ job[j].at = "execute" => MatchesRequest(job[j])
         /\ job[j].at = "served" => Requested(job[j]) \in {None, job[j].result}
    /\ \A t \in Tasks : cache[t] # None => TaskDigest[t] \in {None, cache[t]}

\* The verdict of the docstring (supply_chain.py:203), taken at one instant.
Approved(t) ==
    LET r == models[TaskModel[t]] IN
    /\ ActivePolicy.require_immutable_digest => TaskDigest[t] \in Digests
    /\ r # None
    /\ TaskDigest[t] \in {None, r.digest}
    /\ r.digest \notin revoked
    /\ ActivePolicy.require_signature => SignatureHolds(r)
    /\ Permits(ActivePolicy, r)

\* A verification that nobody wrote to the registry during comes to the verdict that
\* its checks would come to all at once (supply_chain.py:196-308).
QuietVerdict ==
    \A j \in Jobs : ~job[j].disturbed =>
        /\ job[j].at = "execute" => Approved(job[j].task)
        /\ job[j].at = "refused" => ~Approved(job[j].task)

\* The job has found digest d not to be revoked, and may run it.
Cleared(j, d) == job[j].at \in {"key", "execute"} /\ job[j].record.digest = d

\* Once a digest is revoked, a job that has not yet passed that check never does:
\* what still runs had read the registry before (supply_chain.py:190, 253).
RevokedNotStarted ==
    [][\A j \in Jobs : \A d \in revoked : ~Cleared(j, d) => ~Cleared(j, d)']_vars

\* A policy that stays decides in the end about everything that runs, although a
\* verification keeps the policy it read first (supply_chain.py:214, 278-305).
PolicyTakesEffect ==
    \A p \in Policies :
        <>[](policy = p) =>
            <>[](\A j \in Jobs : job[j].at = "execute" => Permits(p, job[j].record))
=============================================================================
