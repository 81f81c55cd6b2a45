------------------------- MODULE SupplyChainProofs -------------------------
(***************************************************************************)
(* Proofs about SupplyChain, for any models, approvals, policies, tasks    *)
(* and handler threads.                                                    *)
(*                                                                         *)
(* The invariant says of a verification how far its checks have come: what *)
(* it has read agrees with the request, and, unless it was disturbed, with *)
(* the registry as it is.                                                  *)
(***************************************************************************)
EXTENDS SupplyChain, TLAPS

\* What the checks behind a job have established about the request.
Asked(s) ==
    /\ s.at \in {"revocation", "key", "execute"} => MatchesRequest(s)
    /\ s.at = "served" => Requested(s) \in {None, s.result}

\* ... and about the registry, if nobody has written to it.
Undisturbed(s) ==
    /\ s.at \in {"record", "revocation", "key"} =>
         /\ s.policy = ActivePolicy
         /\ s.policy.require_immutable_digest => Requested(s) \in Digests
    /\ s.at \in {"revocation", "key"} => s.record = models[TaskModel[s.task]]
    /\ s.at = "key" =>
         /\ s.record.digest \notin revoked
         /\ s.policy.require_signature
    /\ s.at = "execute" => Approved(s.task)
    /\ s.at = "refused" => ~Approved(s.task)

CacheOK == \A t \in Tasks : cache[t] # None => TaskDigest[t] \in {None, cache[t]}

JobsOK ==
    \A j \in Jobs : /\ Asked(job[j])
                    /\ ~job[j].disturbed => Undisturbed(job[j])

SupplyChainInv == SupplyChainTypeOK /\ CacheOK /\ JobsOK

----------------------------------------------------------------------------
\* The policy in force is a policy, and no absent value.
LEMMA ActivePolicyType ==
    ASSUME SupplyChainTypeOK
    PROVE  /\ ActivePolicy \in Policies \cup {DefaultPolicy}
           /\ ActivePolicy # None
<1>1. DefaultPolicy \in SupplyChainPolicy
  BY SupplyChainAssumption DEF DefaultPolicy, SupplyChainPolicy
<1> QED
  BY <1>1, SupplyChainAssumption DEF SupplyChainTypeOK, ActivePolicy

\* An approval is a record with the fields of one, and no absent value.
LEMMA ApprovalType ==
    \A r \in Approvals : r # None /\ r.digest \in Digests /\ r.digest # None
BY SupplyChainAssumption DEF Approval

\* The initial state satisfies the invariant.
LEMMA InitInv == SupplyChainInit => SupplyChainInv
<1> SUFFICES ASSUME SupplyChainInit PROVE SupplyChainInv OBVIOUS
<1>1. IdleJob \in JobState
  BY DEF IdleJob, JobState
<1>2. SupplyChainTypeOK
  BY <1>1 DEF SupplyChainInit, SupplyChainTypeOK, JobTypeOK, IdleJob
<1>3. CacheOK /\ JobsOK
  BY DEF SupplyChainInit, CacheOK, JobsOK, Asked, Undisturbed, IdleJob
<1> QED BY <1>2, <1>3 DEF SupplyChainInv

----------------------------------------------------------------------------
\* A write to the registry takes back what is known only of verifications that are
\* told of it.
LEMMA DisturbStep ==
    ASSUME SupplyChainInv, Disturb, cache' = cache,
           policy' \in Policies \cup {None},
           models' \in [Models -> Approvals \cup {None}],
           keys' \in [KeyIds -> Signers \cup {None}],
           revoked' \subseteq Digests,
           signing' \subseteq Approvals
    PROVE  SupplyChainInv'
<1> USE DEF SupplyChainInv
<1>1. \A j \in Jobs :
        /\ job'[j] \in JobState
        /\ JobTypeOK(job'[j])
        /\ Asked(job'[j])
        /\ ~job'[j].disturbed => job'[j] = job[j] /\ job[j].at \notin Verifying
  <2> TAKE j \in Jobs
  <2>1. CASE job[j].at \in Verifying
    <3>1. job'[j] = [job[j] EXCEPT !.disturbed = TRUE]
      BY <2>1 DEF Disturb
    <3>2. job[j] \in JobState /\ JobTypeOK(job[j]) /\ Asked(job[j])
      BY DEF SupplyChainTypeOK, JobsOK
    <3> QED
      BY <2>1, <3>1, <3>2
      DEF JobState, JobTypeOK, Asked, MatchesRequest, Requested, Verifying
  <2>2. CASE job[j].at \notin Verifying
    BY <2>2 DEF Disturb, SupplyChainTypeOK, JobsOK
  <2> QED BY <2>1, <2>2
<1>2. job' \in [Jobs -> JobState]
  BY <1>1 DEF Disturb
<1>3. SupplyChainTypeOK'
  BY <1>1, <1>2 DEF SupplyChainTypeOK, JobTypeOK
<1>4. CacheOK'
  BY DEF CacheOK
<1>5. JobsOK'
  BY <1>1 DEF JobsOK, Asked, Undisturbed, MatchesRequest, Requested, Verifying
<1> QED BY <1>3, <1>4, <1>5

\* A job's own step keeps the invariant if what the job becomes is as it should be.
LEMMA GoStep ==
    ASSUME SupplyChainInv, NEW j \in Jobs, NEW s, Go(j, s),
           s \in JobState, JobTypeOK(s), Asked(s),
           ~s.disturbed => Undisturbed(s)
    PROVE  SupplyChainInv'
<1> USE DEF SupplyChainInv
<1>1. /\ job' = [job EXCEPT ![j] = s]
      /\ UNCHANGED <<policy, models, keys, revoked, signing, cache>>
  BY DEF Go, registryVars
<1>2. \A i \in Jobs : job'[i] = IF i = j THEN s ELSE job[i]
  BY <1>1 DEF SupplyChainTypeOK
<1>3. SupplyChainTypeOK'
  BY <1>1, <1>2 DEF SupplyChainTypeOK, JobTypeOK
<1>4. CacheOK'
  BY <1>1 DEF CacheOK
<1>5. JobsOK'
  <2> SUFFICES ASSUME NEW i \in Jobs
               PROVE  /\ Asked(job[i])'
                      /\ (~job[i].disturbed => Undisturbed(job[i]))'
    BY DEF JobsOK
  <2>1. Asked(job'[i]) /\ (~job'[i].disturbed => Undisturbed(job'[i]))
    BY <1>2 DEF JobsOK
  <2>2. Undisturbed(job'[i]) => Undisturbed(job[i])'
    BY <1>1 DEF Undisturbed, Requested, ActivePolicy, Approved, Permits, SignatureHolds
  <2> QED BY <2>1, <2>2 DEF Asked, MatchesRequest, Requested
<1> QED BY <1>3, <1>4, <1>5

----------------------------------------------------------------------------
(* The steps of a verification, one after the other.                       *)

\* A task that is looked up starts a verification or is answered from the cache.
LEMMA LookUpStep ==
    ASSUME SupplyChainInv, NEW j \in Jobs, NEW t \in Tasks, LookUp(j, t)
    PROVE  SupplyChainInv'
<1> DEFINE s == IF cache[t] = None
                THEN [IdleJob EXCEPT !.at = "policy", !.task = t]
                ELSE [IdleJob EXCEPT !.at = "served", !.task = t, !.result = cache[t]]
<1>1. Go(j, s)
  BY DEF LookUp, Go
<1>2. cache[t] \in Digests \cup {None} /\ (cache[t] # None => TaskDigest[t] \in {None, cache[t]})
  BY DEF SupplyChainInv, SupplyChainTypeOK, CacheOK
<1>3. s \in JobState /\ JobTypeOK(s)
  BY <1>2 DEF IdleJob, JobState, JobTypeOK
<1>4. Asked(s) /\ Undisturbed(s)
  BY <1>2 DEF IdleJob, Asked, Undisturbed, Requested
<1> HIDE DEF s
<1> QED BY <1>1, <1>3, <1>4, GoStep

\* The policy is read, and refuses the reference or is kept.
LEMMA ReadPolicyStep ==
    ASSUME SupplyChainInv, NEW j \in Jobs, ReadPolicy(j)
    PROVE  SupplyChainInv'
<1> DEFINE r == [job[j] EXCEPT !.policy = ActivePolicy]
           refuse == r.policy.require_immutable_digest /\ Requested(r) \notin Digests
           s == [r EXCEPT !.at = IF refuse THEN "refused" ELSE "record"]
<1>1. Go(j, s) /\ job[j].at = "policy"
  BY DEF ReadPolicy
<1>2. job[j] \in JobState /\ JobTypeOK(job[j])
  BY DEF SupplyChainInv, SupplyChainTypeOK
<1>3. ActivePolicy \in Policies \cup {DefaultPolicy} /\ ActivePolicy # None
  BY ActivePolicyType DEF SupplyChainInv
<1>4. /\ s \in JobState
      /\ s.at = IF refuse THEN "refused" ELSE "record"
      /\ s.task = job[j].task /\ s.policy = ActivePolicy /\ s.result = job[j].result
      /\ r.task = job[j].task /\ r.policy = ActivePolicy
  BY <1>2, <1>3 DEF JobState, Verifying
<1>5. JobTypeOK(s)
  BY <1>1, <1>2, <1>3, <1>4 DEF JobTypeOK
<1>6. Asked(s)
  BY <1>4 DEF Asked
<1>7. Undisturbed(s)
  BY <1>4 DEF Undisturbed, Requested, Approved
<1> HIDE DEF s
<1> QED BY <1>1, <1>4, <1>5, <1>6, <1>7, GoStep

\* The record is read, and compared with the request.
LEMMA ReadRecordStep ==
    ASSUME SupplyChainInv, NEW j \in Jobs, ReadRecord(j)
    PROVE  SupplyChainInv'
<1> DEFINE r == [job[j] EXCEPT !.record = models[TaskModel[job[j].task]]]
           at == IF r.record = None THEN "refused"
                 ELSE IF MatchesRequest(r) THEN "revocation" ELSE "refused"
           s == [r EXCEPT !.at = at]
<1>1. Go(j, s) /\ job[j].at = "record"
  BY DEF ReadRecord
<1>2. /\ job[j] \in JobState /\ JobTypeOK(job[j])
      /\ ~job[j].disturbed => Undisturbed(job[j])
  BY DEF SupplyChainInv, SupplyChainTypeOK, JobsOK
<1>3. models[TaskModel[job[j].task]] \in Approvals \cup {None}
  BY <1>1, <1>2, SupplyChainAssumption
  DEF SupplyChainInv, SupplyChainTypeOK, JobTypeOK
<1>4. /\ s \in JobState
      /\ s.at = at
      /\ s.task = job[j].task /\ s.policy = job[j].policy /\ s.result = job[j].result
      /\ s.record = models[TaskModel[job[j].task]] /\ s.disturbed = job[j].disturbed
      /\ r.task = job[j].task /\ r.record = s.record
  BY <1>2, <1>3 DEF JobState, Verifying
<1>5. JobTypeOK(s)
  BY <1>1, <1>2, <1>4 DEF JobTypeOK
<1>6. Asked(s)
  BY <1>4 DEF Asked, MatchesRequest, Requested
<1>7. ~s.disturbed => Undisturbed(s)
  BY <1>1, <1>2, <1>4 DEF Undisturbed, Requested, MatchesRequest, Approved
<1> HIDE DEF s
<1> QED BY <1>1, <1>4, <1>5, <1>6, <1>7, GoStep

\* What the last two checks have in common: they only move the job on.
LEMMA MoveOn ==
    ASSUME SupplyChainInv, NEW j \in Jobs, NEW at \in {"key", "execute", "refused"},
           job[j].at \in {"revocation", "key"}
    PROVE  LET s == [job[j] EXCEPT !.at = at] IN
           /\ s \in JobState /\ JobTypeOK(s) /\ Asked(s)
           /\ s.at = at
           /\ s.task = job[j].task /\ s.policy = job[j].policy
           /\ s.record = job[j].record /\ s.disturbed = job[j].disturbed
<1>1. job[j] \in JobState /\ JobTypeOK(job[j]) /\ Asked(job[j])
  BY DEF SupplyChainInv, SupplyChainTypeOK, JobsOK
<1> QED
  BY <1>1 DEF JobState, JobTypeOK, Asked, MatchesRequest, Requested, Verifying

\* An undisturbed verification that has a record has the registered one, which
\* matches the request.
LEMMA Settled ==
    ASSUME SupplyChainInv, NEW j \in Jobs, job[j].at \in {"revocation", "key"},
           ~job[j].disturbed
    PROVE  LET s == job[j]
               r == models[TaskModel[s.task]] IN
           /\ s.policy = ActivePolicy
           /\ s.policy.require_immutable_digest => TaskDigest[s.task] \in Digests
           /\ s.record = r /\ r # None
           /\ TaskDigest[s.task] \in {None, r.digest}
           /\ s.at = "key" => r.digest \notin revoked /\ s.policy.require_signature
BY DEF SupplyChainInv, SupplyChainTypeOK, JobTypeOK, JobsOK, Asked, Undisturbed,
       MatchesRequest, Requested

\* The revocation registry is asked.
LEMMA CheckRevokedStep ==
    ASSUME SupplyChainInv, NEW j \in Jobs, CheckRevoked(j)
    PROVE  SupplyChainInv'
<1> DEFINE at == IF job[j].record.digest \in revoked THEN "refused"
                 ELSE IF job[j].policy.require_signature THEN "key" ELSE Verdict(job[j])
           s == [job[j] EXCEPT !.at = at]
<1>1. Go(j, s) /\ job[j].at = "revocation" /\ at \in {"key", "execute", "refused"}
  BY DEF CheckRevoked, Verdict
<1>2. /\ s \in JobState /\ JobTypeOK(s) /\ Asked(s)
      /\ s.at = at
      /\ s.task = job[j].task /\ s.policy = job[j].policy
      /\ s.record = job[j].record /\ s.disturbed = job[j].disturbed
  BY <1>1, MoveOn
<1>3. ~s.disturbed => Undisturbed(s)
  <2> SUFFICES ASSUME ~job[j].disturbed PROVE Undisturbed(s)
    BY <1>2
  <2> HIDE DEF s
  <2> QED BY <1>1, <1>2, Settled DEF Undisturbed, Requested, Approved, Verdict
<1> HIDE DEF s
<1> QED BY <1>1, <1>2, <1>3, GoStep

\* The signature is verified.
LEMMA CheckSignatureStep ==
    ASSUME SupplyChainInv, NEW j \in Jobs, CheckSignature(j)
    PROVE  SupplyChainInv'
<1> DEFINE at == IF SignatureHolds(job[j].record)
                 THEN Verdict(job[j]) ELSE "refused"
           s == [job[j] EXCEPT !.at = at]
<1>1. Go(j, s) /\ job[j].at = "key" /\ at \in {"key", "execute", "refused"}
  BY DEF CheckSignature, Verdict
<1>2. /\ s \in JobState /\ JobTypeOK(s) /\ Asked(s)
      /\ s.at = at
      /\ s.task = job[j].task /\ s.policy = job[j].policy
      /\ s.record = job[j].record /\ s.disturbed = job[j].disturbed
  BY <1>1, MoveOn
<1>3. ~s.disturbed => Undisturbed(s)
  <2> SUFFICES ASSUME ~job[j].disturbed PROVE Undisturbed(s)
    BY <1>2
  <2> HIDE DEF s
  <2> QED BY <1>1, <1>2, Settled DEF Undisturbed, Requested, Approved, Verdict
<1> HIDE DEF s
<1> QED BY <1>1, <1>2, <1>3, GoStep

\* The result of an execution has the digest that was asked for.
LEMMA ExecuteStep ==
    ASSUME SupplyChainInv, NEW j \in Jobs, Execute(j)
    PROVE  SupplyChainInv'
<1> DEFINE d == job[j].record.digest
           s == [job[j] EXCEPT !.at = "served", !.result = d]
<1>1. /\ job[j].at = "execute"
      /\ job[j] \in JobState /\ JobTypeOK(job[j]) /\ Asked(job[j])
  BY DEF Execute, SupplyChainInv, SupplyChainTypeOK, JobsOK
<1>2. job[j].task \in Tasks /\ job[j].record \in Approvals
  BY <1>1 DEF JobState, JobTypeOK
<1>3. d \in Digests /\ d # None /\ TaskDigest[job[j].task] \in {None, d}
  BY <1>1, <1>2, ApprovalType DEF Asked, MatchesRequest, Requested
<1>4. /\ s \in JobState /\ s.at = "served" /\ s.task = job[j].task /\ s.result = d
  BY <1>1, <1>3 DEF JobState
<1>5. JobTypeOK(s) /\ Asked(s) /\ Undisturbed(s)
  BY <1>2, <1>3, <1>4 DEF JobTypeOK, Asked, Undisturbed, Requested
<1>6. /\ job' = [job EXCEPT ![j] = s]
      /\ cache' = [cache EXCEPT ![job[j].task] = d]
      /\ UNCHANGED <<policy, models, keys, revoked, signing>>
  BY DEF Execute, registryVars
<1> HIDE DEF s, d
<1>7. \A i \in Jobs : job'[i] = IF i = j THEN s ELSE job[i]
  BY <1>6 DEF SupplyChainInv, SupplyChainTypeOK
<1>8. SupplyChainTypeOK'
  BY <1>2, <1>3, <1>4, <1>5, <1>6, <1>7 DEF SupplyChainInv, SupplyChainTypeOK, JobTypeOK
<1>9. CacheOK'
  BY <1>2, <1>3, <1>6 DEF SupplyChainInv, SupplyChainTypeOK, CacheOK
<1>10. JobsOK'
  <2> SUFFICES ASSUME NEW i \in Jobs
               PROVE  /\ Asked(job[i])'
                      /\ (~job[i].disturbed => Undisturbed(job[i]))'
    BY DEF JobsOK
  <2>1. Asked(job'[i]) /\ (~job'[i].disturbed => Undisturbed(job'[i]))
    BY <1>5, <1>7 DEF SupplyChainInv, JobsOK
  <2>2. Undisturbed(job'[i]) => Undisturbed(job[i])'
    BY <1>6 DEF Undisturbed, Requested, ActivePolicy, Approved, Permits, SignatureHolds
  <2> QED BY <2>1, <2>2 DEF Asked, MatchesRequest, Requested
<1> QED BY <1>8, <1>9, <1>10 DEF SupplyChainInv

\* Jobs that end, one or all, leave nothing behind.
LEMMA EndStep ==
    ASSUME SupplyChainInv, RestartNode \/ \E j \in Jobs : Finish(j)
    PROVE  SupplyChainInv'
<1>1. IdleJob \in JobState /\ JobTypeOK(IdleJob) /\ Asked(IdleJob) /\ Undisturbed(IdleJob)
  BY DEF IdleJob, JobState, JobTypeOK, Asked, Undisturbed
<1>2. ASSUME NEW j \in Jobs, Finish(j) PROVE SupplyChainInv'
  BY <1>1, <1>2, GoStep DEF Finish
<1>3. CASE RestartNode
  <2>1. SupplyChainTypeOK'
    BY <1>1, <1>3
    DEF RestartNode, registryVars, SupplyChainInv, SupplyChainTypeOK, JobTypeOK
  <2>2. CacheOK' /\ JobsOK'
    BY <1>3 DEF RestartNode, IdleJob, CacheOK, JobsOK, Asked, Undisturbed
  <2> QED BY <2>1, <2>2 DEF SupplyChainInv
<1> QED BY <1>2, <1>3

----------------------------------------------------------------------------
\* Every step keeps the invariant.
LEMMA NextInv == SupplyChainInv /\ [SupplyChainNext]_vars => SupplyChainInv'
<1> SUFFICES ASSUME SupplyChainInv, [SupplyChainNext]_vars PROVE SupplyChainInv'
  OBVIOUS
<1>0. SupplyChainTypeOK
  BY DEF SupplyChainInv
<1>1. ASSUME NEW p \in Policies, SetPolicy(p) PROVE SupplyChainInv'
  BY <1>0, <1>1, DisturbStep DEF SetPolicy, SupplyChainTypeOK
<1>2. ASSUME NEW a \in Approvals, StoreKey(a) PROVE SupplyChainInv'
  <2>1. keys' \in [KeyIds -> Signers \cup {None}]
    BY <1>0, <1>2, SupplyChainAssumption DEF StoreKey, Approval, SupplyChainTypeOK
  <2> QED BY <1>0, <1>2, <2>1, DisturbStep DEF StoreKey, SupplyChainTypeOK
<1>3. ASSUME NEW a \in Approvals, StoreRecord(a) PROVE SupplyChainInv'
  BY <1>0, <1>3, DisturbStep DEF StoreRecord, SupplyChainTypeOK
<1>4. ASSUME NEW d \in Digests, RevokeDigest(d) PROVE SupplyChainInv'
  BY <1>0, <1>4, DisturbStep DEF RevokeDigest, SupplyChainTypeOK
<1>5. ASSUME NEW j \in Jobs, NEW t \in Tasks, LookUp(j, t) PROVE SupplyChainInv'
  BY <1>5, LookUpStep
<1>6. ASSUME NEW j \in Jobs,
             \/ ReadPolicy(j) \/ ReadRecord(j) \/ CheckRevoked(j) \/ CheckSignature(j)
             \/ Execute(j) \/ Finish(j)
      PROVE  SupplyChainInv'
  BY <1>6, ReadPolicyStep, ReadRecordStep, CheckRevokedStep, CheckSignatureStep,
     ExecuteStep, EndStep
<1>7. CASE RestartNode
  BY <1>7, EndStep
<1>8. CASE UNCHANGED vars
  BY <1>8
  DEF vars, registryVars, SupplyChainInv, SupplyChainTypeOK, JobTypeOK, CacheOK, JobsOK,
      Asked, Undisturbed, MatchesRequest, Requested, ActivePolicy, Approved, Permits, SignatureHolds
<1> QED
  BY <1>1, <1>2, <1>3, <1>4, <1>5, <1>6, <1>7, <1>8 DEF SupplyChainNext

\* The invariant holds in every reachable state (common/supply_chain.py and
\* node_agent/worker.py:28).
THEOREM SupplyChainInvariant == SupplyChainSpec => []SupplyChainInv
BY InitInv, NextInv, PTL DEF SupplyChainSpec

\* Type correctness of the registry, of the handlers' locals and of the cache.
THEOREM SupplyChainTyping == SupplyChainSpec => []SupplyChainTypeOK
<1>1. SupplyChainInv => SupplyChainTypeOK
  BY DEF SupplyChainInv
<1> QED BY <1>1, SupplyChainInvariant, PTL

\* What runs, and what any retry is answered with, is the digest that was asked for
\* (common/supply_chain.py:244, node_agent/worker.py:31).
THEOREM RunsAsAsked == SupplyChainSpec => []RunsWhatWasAsked
<1>1. SupplyChainInv => RunsWhatWasAsked
  BY DEF SupplyChainInv, CacheOK, JobsOK, Asked, RunsWhatWasAsked
<1> QED BY <1>1, SupplyChainInvariant, PTL

\* An undisturbed verification comes to the verdict of the docstring's checks taken at
\* one instant (common/supply_chain.py:196-308).
THEOREM QuietVerdicts == SupplyChainSpec => []QuietVerdict
<1>1. SupplyChainInv => QuietVerdict
  BY DEF SupplyChainInv, JobsOK, Undisturbed, QuietVerdict
<1> QED BY <1>1, SupplyChainInvariant, PTL

\* A step that clears a job for a digest has found the digest not to be revoked.
LEMMA ClearedUnrevoked ==
    ASSUME SupplyChainInv, [SupplyChainNext]_vars, NEW j \in Jobs, NEW d \in revoked,
           ~Cleared(j, d)
    PROVE  ~Cleared(j, d)'
<1> USE DEF Cleared
<1>1. job \in [Jobs -> JobState]
  BY DEF SupplyChainInv, SupplyChainTypeOK
<1>2. CASE Disturb
  <2>1. job'[j].at = job[j].at /\ job'[j].record = job[j].record
    BY <1>1, <1>2 DEF Disturb, JobState
  <2> QED BY <2>1
<1>3. CASE RestartNode \/ UNCHANGED vars
  BY <1>3 DEF RestartNode, IdleJob, vars
<1>4. ASSUME NEW i \in Jobs,
             \/ \E t \in Tasks : LookUp(i, t)
             \/ ReadPolicy(i) \/ ReadRecord(i) \/ CheckRevoked(i) \/ CheckSignature(i)
             \/ Execute(i) \/ Finish(i)
      PROVE  ~Cleared(j, d)'
  <2>1. CASE i # j
    <3>1. job'[j] = job[j]
      BY <1>1, <1>4, <2>1
      DEF LookUp, ReadPolicy, ReadRecord, CheckRevoked, CheckSignature, Execute, Finish, Go
    <3> QED BY <3>1
  <2>2. CASE i = j
    <3>1. CASE \E t \in Tasks : LookUp(j, t)
      BY <1>1, <3>1 DEF LookUp, IdleJob
    <3>2. CASE ReadPolicy(j) \/ ReadRecord(j) \/ Execute(j) \/ Finish(j)
      <4> job[j] \in JobState
        BY <1>1
      <4>1. CASE ReadPolicy(j)
        BY <1>1, <4>1 DEF ReadPolicy, Go, JobState
      <4>2. CASE ReadRecord(j)
        BY <1>1, <4>2 DEF ReadRecord, Go, JobState
      <4>3. CASE Execute(j)
        BY <1>1, <4>3 DEF Execute, JobState
      <4>4. CASE Finish(j)
        BY <1>1, <4>4 DEF Finish, Go, IdleJob
      <4> QED BY <3>2, <4>1, <4>2, <4>3, <4>4
    <3>3. CASE CheckRevoked(j)
      BY <1>1, <3>3 DEF CheckRevoked, Go, JobState
    <3>4. CASE CheckSignature(j)
      BY <1>1, <3>4 DEF CheckSignature, Go, JobState
    <3> QED BY <1>4, <2>2, <3>1, <3>2, <3>3, <3>4
  <2> QED BY <2>1, <2>2
<1> QED
  BY <1>2, <1>3, <1>4 DEF SupplyChainNext, SetPolicy, StoreKey, StoreRecord, RevokeDigest

\* Once a digest is revoked, no job passes that check for it any more
\* (common/supply_chain.py:190, 253).
THEOREM RevokedNeverStarted == SupplyChainSpec => RevokedNotStarted
<1>1. SupplyChainInv /\ [SupplyChainNext]_vars =>
        [\A j \in Jobs : \A d \in revoked : ~Cleared(j, d) => ~Cleared(j, d)']_vars
  BY ClearedUnrevoked
<1> QED BY <1>1, SupplyChainInvariant, PTL DEF SupplyChainSpec, RevokedNotStarted
=============================================================================
