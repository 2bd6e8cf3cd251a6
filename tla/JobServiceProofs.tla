-------------------------- MODULE JobServiceProofs --------------------------
(***************************************************************************)
(* Sealing and publication of results, and the admission of workers under  *)
(* the budget of starts and the limit on active ones, for every number of  *)
(* incidents and invocations, every setting of the delays and every clock. *)
(***************************************************************************)
EXTENDS JobService, SumLemmas, SequenceTheorems, TLAPS

Completing == {"retain", "retainRequest", "complete", "seal", "sealWrite", "publish"}
Launching  == {"request", "recheck", "ledger", "inventory", "charge", "deny",
               "fresh", "launch", "sent"}

\* A stored attempt carries the time of its creation, which is never 0: an
\* object that names the attempt is distinct from a missing one.
Dated(a) == a \in Attempt /\ a.created > 0

SharedType ==
    /\ now \in Nat /\ now >= StartTime
    /\ work \in [Works -> Attempt \cup {NoWork}]
    /\ requests \in [Jobs -> Nat] /\ completionRequests \in [Jobs -> Nat]
    /\ completions \subseteq Jobs /\ settlements \subseteq Jobs

LocalType ==
    /\ at \in [Lambdas -> Places] /\ target \in [Lambdas -> Works \cup {NoWork}]
    /\ time \in [Lambdas -> Nat]
    /\ read \in [Lambdas -> Attempt \cup {NoWork}]
    /\ mine \in [Lambdas -> Attempt \cup {NoWork}]

\* What an invocation on its way to a decision knows.
Deciding(p) ==
    /\ at[p] # "idle" => target[p] \in Works
    /\ at[p] \in {"idle", "work"} => read[p] = NoWork
    /\ at[p] \in {"work", "inspect"} => time[p] > 0
    /\ at[p] = "inspect" => Dated(read[p])

\* An attempt is launched only from a record that is not sealed.
Unsealed(p) ==
    /\ at[p] \in Launching \cup {"claim"} => Dated(mine[p]) /\ ~mine[p].completed
    /\ at[p] = "claim" => read[p] = NoWork \/ (Dated(read[p]) /\ ~read[p].completed)

\* The evidence of a result exists before the record is sealed.
Evident(p) ==
    /\ at[p] \in Completing => Dated(mine[p])
    /\ at[p] \in {"retain", "retainRequest"} => read[p] = NoWork \/ mine[p] = read[p]
    /\ at[p] = "complete" => mine[p] = read[p]
    /\ at[p] \in Completing \ {"retain"} => JobOf(p, mine[p]) \in completions
    /\ at[p] \in Completing \ {"retain", "retainRequest"} =>
          completionRequests[JobOf(p, mine[p])] = mine[p].created

\* The record is sealed before the result is published.
Sealed(p) ==
    /\ at[p] = "sealWrite" => Dated(read[p]) /\ SameStored(read[p], mine[p])
    /\ at[p] = "publish" => /\ Dated(work[target[p]])
                            /\ work[target[p]].completed
                            /\ SameStored(work[target[p]], mine[p])

LocalInv(p) == Deciding(p) /\ Unsealed(p) /\ Evident(p) /\ Sealed(p)

\* The inductive strengthening of SealedHasEvidence and PublishedIsSealed.
SealInv ==
    /\ SharedType /\ LocalType
    /\ \A w \in Works : Exists(w) => work[w].created > 0
    /\ SealedHasEvidence /\ PublishedIsSealed
    /\ \A p \in Lambdas : LocalInv(p)

evidence == <<work, completions, completionRequests, settlements>>

\* Only p's part of the local state changes.
OnlyMoves(p) ==
    /\ at' = [at EXCEPT ![p] = at'[p]]
    /\ target' = [target EXCEPT ![p] = target'[p]]
    /\ time' = [time EXCEPT ![p] = time'[p]]
    /\ read' = [read EXCEPT ![p] = read'[p]]
    /\ mine' = [mine EXCEPT ![p] = mine'[p]]

\* Sealed records, retained results and their requests stay.
Durable ==
    /\ \A w \in Works : Exists(w) /\ work[w].completed => work'[w] = work[w]
    /\ completions \subseteq completions'
    /\ \A j \in Jobs : completionRequests[j] # 0 => completionRequests'[j] = completionRequests[j]

-----------------------------------------------------------------------------
\* The job of a stored attempt of a known work has a key in the bucket.
LEMMA JobInJobs ==
    ASSUME NEW p \in Lambdas, NEW a \in Attempt, target[p] \in Works
    PROVE  JobOf(p, a) \in Jobs
BY DEF JobOf, Jobs, Attempt

\* "There is no work record" is not a record.
LEMMA NoWorkIsNoAttempt == NoWork \notin Attempt
BY JobConstantsAssumption DEF Attempt

\* What an invocation relies on survives the steps of all others.
LEMMA OthersKeep ==
    ASSUME SealInv, Durable, NEW q \in Lambdas,
           at'[q] = at[q], target'[q] = target[q], time'[q] = time[q],
           read'[q] = read[q], mine'[q] = mine[q]
    PROVE  LocalInv(q)'
<1>1. Deciding(q) /\ Unsealed(q) /\ Evident(q) /\ Sealed(q)
  BY DEF SealInv, LocalInv
<1>2. Deciding(q)'
  BY <1>1 DEF Deciding, Dated
<1>3. Unsealed(q)'
  BY <1>1 DEF Unsealed, Dated
<1>4. Evident(q)'
  <2>1. at[q] \in Completing => /\ JobOf(q, mine[q]) \in Jobs /\ mine[q].created > 0
                                /\ JobOf(q, mine[q])' = JobOf(q, mine[q])
    BY <1>1, JobInJobs DEF Deciding, Evident, Dated, Completing, JobOf
  <2> QED BY <1>1, <2>1 DEF Evident, Durable, Dated, Completing
<1>5. Sealed(q)'
  <2>1. at[q] = "publish" => Exists(target[q]) /\ target[q] \in Works
    BY <1>1, NoWorkIsNoAttempt DEF Deciding, Sealed, Exists, Dated
  <2> QED BY <1>1, <2>1 DEF Sealed, Durable, Dated, SameStored
<1> QED BY <1>2, <1>3, <1>4, <1>5 DEF LocalInv

\* A step of one invocation that leaves the evidence alone.
LEMMA Moves ==
    ASSUME SealInv, NEW p \in Lambdas, OnlyMoves(p), UNCHANGED evidence,
           SharedType', LocalType', LocalInv(p)'
    PROVE  SealInv'
<1>1. Durable
  BY DEF Durable, evidence, Exists
<1>2. ASSUME NEW q \in Lambdas, q # p  PROVE LocalInv(q)'
  BY <1>1, <1>2, OthersKeep DEF OnlyMoves, SealInv, LocalType
<1>3. (\A w \in Works : Exists(w) => work[w].created > 0)'
  BY DEF SealInv, Exists, evidence
<1>4. SealedHasEvidence' /\ PublishedIsSealed'
  BY DEF SealInv, SealedHasEvidence, PublishedIsSealed, Exists, CurrentJob, evidence
<1> QED BY <1>2, <1>3, <1>4 DEF SealInv

\* An invocation that ends forgets everything.
LEMMA ReturnMoves ==
    ASSUME SealInv, NEW p \in Lambdas, Return(p),
           UNCHANGED <<now, requests, evidence>>
    PROVE  SealInv'
<1>1. OnlyMoves(p) /\ LocalType'
  BY DEF Return, Goto, OnlyMoves, SealInv, LocalType, Places
<1>2. at'[p] = "idle" /\ read'[p] = NoWork
  BY DEF Return, Goto, SealInv, LocalType
<1>3. LocalInv(p)'
  BY <1>2 DEF LocalInv, Deciding, Unsealed, Evident, Sealed, Launching, Completing
<1>4. SharedType'
  BY DEF SealInv, SharedType, evidence
<1> QED BY <1>1, <1>3, <1>4, Moves DEF evidence

\* An invocation that owns an attempt goes on to the next step of the launch.
LEMMA LaunchMoves ==
    ASSUME SealInv, NEW p \in Lambdas, at[p] \in Launching,
           NEW place \in Launching, Goto(p, place),
           time' \in [Lambdas -> Nat], time' = [time EXCEPT ![p] = time'[p]],
           requests' \in [Jobs -> Nat],
           UNCHANGED <<target, read, mine, now, evidence>>
    PROVE  SealInv'
<1>1. OnlyMoves(p) /\ LocalType'
  BY DEF Goto, OnlyMoves, SealInv, LocalType, Places, Launching
<1>2. at'[p] = place /\ mine'[p] = mine[p] /\ target'[p] = target[p] /\ read'[p] = read[p]
  BY DEF Goto, SealInv, LocalType
<1>3. LocalInv(p)
  BY DEF SealInv
<1>4. LocalInv(p)'
  <2>1. target[p] \in Works /\ Dated(mine[p]) /\ ~mine[p].completed
    BY <1>3 DEF LocalInv, Deciding, Unsealed, Launching
  <2> QED BY <1>2, <2>1
          DEF LocalInv, Deciding, Unsealed, Evident, Sealed, Launching, Completing, Dated
<1>5. SharedType'
  BY DEF SealInv, SharedType, evidence
<1> QED BY <1>1, <1>4, <1>5, Moves DEF evidence

\* A conditional write of a work record: it changes no sealed record, and what
\* it seals has evidence.
LEMMA Writes ==
    ASSUME SealInv, NEW p \in Lambdas, OnlyMoves(p), LocalType', LocalInv(p)',
           NEW w \in Works, NEW a, Dated(a),
           work' = [work EXCEPT ![w] = a],
           Exists(w) /\ work[w].completed => a = work[w],
           a.completed => /\ <<w, a.generation>> \in completions
                          /\ completionRequests[<<w, a.generation>>] = a.created,
           UNCHANGED <<now, requests, completions, completionRequests, settlements>>
    PROVE  SealInv'
<1>1. Durable
  BY DEF Durable, Exists, SealInv, SharedType
<1>2. ASSUME NEW q \in Lambdas, q # p  PROVE LocalInv(q)'
  BY <1>1, <1>2, OthersKeep DEF OnlyMoves, SealInv, LocalType
<1>3. SharedType'
  BY DEF SealInv, SharedType, Dated
<1>4. (\A v \in Works : Exists(v) => work[v].created > 0)'
  BY DEF SealInv, SharedType, Exists, Dated
<1>5. SealedHasEvidence'
  BY DEF SealInv, SharedType, SealedHasEvidence, Exists, CurrentJob
<1>6. PublishedIsSealed'
  <2> SUFFICES ASSUME NEW j \in settlements
               PROVE  (Exists(j[1]) /\ work[j[1]].completed /\ CurrentJob(j[1]) = j)'
    BY DEF PublishedIsSealed
  <2>1. j[1] \in Works /\ Exists(j[1]) /\ work[j[1]].completed /\ CurrentJob(j[1]) = j
    BY DEF SealInv, SharedType, PublishedIsSealed, Jobs
  <2>2. work'[j[1]] = work[j[1]]
    BY <1>1, <2>1 DEF Durable
  <2> QED BY <2>1, <2>2 DEF Exists, CurrentJob
<1> QED BY <1>2, <1>3, <1>4, <1>5, <1>6 DEF SealInv

\* The head of the retry loop.
LEMMA RetryKeeps ==
    ASSUME SealInv, NEW p \in Lambdas, at[p] # "idle", Retry(p),
           UNCHANGED <<now, requests, evidence>>
    PROVE  SealInv'
<1>1. Clock(p) \in Nat /\ Clock(p) > 0
  BY JobConstantsAssumption DEF Clock, Clocks, SealInv, SharedType
<1>2. OnlyMoves(p) /\ LocalType'
  BY <1>1 DEF Retry, Goto, OnlyMoves, SealInv, LocalType, Places
<1>3. /\ at'[p] = "work" /\ read'[p] = NoWork /\ time'[p] > 0
      /\ target'[p] = target[p] /\ target[p] \in Works
  BY <1>1 DEF Retry, Goto, SealInv, LocalType, LocalInv, Deciding
<1>4. LocalInv(p)'
  BY <1>3 DEF LocalInv, Deciding, Unsealed, Evident, Sealed, Launching, Completing
<1>5. SharedType'
  BY DEF SealInv, SharedType, evidence
<1> QED BY <1>2, <1>4, <1>5, Moves DEF evidence

-----------------------------------------------------------------------------
(* submit_canonical: the way to a decision *)

\* A new invocation knows its work and the time, and has read nothing yet.
LEMMA SubmitKeeps ==
    ASSUME SealInv, NEW p \in Lambdas, NEW w \in Works, Submit(p, w)
    PROVE  SealInv'
<1>1. Clock(p) \in Nat /\ Clock(p) > 0
  BY JobConstantsAssumption DEF Clock, Clocks, SealInv, SharedType
<1>2. OnlyMoves(p) /\ LocalType'
  BY <1>1 DEF Submit, Goto, OnlyMoves, SealInv, LocalType, Places
<1>3. at'[p] = "work" /\ read'[p] = NoWork /\ time'[p] > 0 /\ target'[p] = w
  BY <1>1 DEF Submit, Goto, SealInv, LocalType, LocalInv, Deciding
<1>4. LocalInv(p)'
  BY <1>3 DEF LocalInv, Deciding, Unsealed, Evident, Sealed, Launching, Completing
<1>5. SharedType' /\ UNCHANGED evidence
  BY DEF Submit, SealInv, SharedType, evidence, objects
<1> QED BY <1>2, <1>4, <1>5, Moves

\* A new attempt is dated and not sealed.
LEMMA NewAttemptDated ==
    ASSUME NEW g \in 0 .. MaxGeneration, NEW t \in Nat, t > 0
    PROVE  Dated(NewAttempt(g, t)) /\ ~NewAttempt(g, t).completed
BY JobConstantsAssumption DEF NewAttempt, Dated, Attempt

\* Reading the record: without one, a first attempt is planned.
LEMMA ReadWorkKeeps ==
    ASSUME SealInv, NEW p \in Lambdas, ReadWork(p)
    PROVE  SealInv'
<1> DEFINE a == work[target[p]]
<1>1. target[p] \in Works /\ time[p] \in Nat /\ time[p] > 0
  BY DEF ReadWork, SealInv, LocalInv, Deciding, LocalType
<1>2. a \in Attempt \cup {NoWork} /\ (a # NoWork => Dated(a))
  BY <1>1 DEF SealInv, SharedType, Exists, Dated
<1>3. Dated(NewAttempt(0, time[p])) /\ ~NewAttempt(0, time[p]).completed
  BY <1>1, NewAttemptDated, JobConstantsAssumption
<1>4. OnlyMoves(p) /\ LocalType'
  BY <1>2, <1>3 DEF ReadWork, Goto, OnlyMoves, SealInv, LocalType, Places, Dated
<1>5. /\ at'[p] = IF a = NoWork THEN "claim" ELSE "inspect"
      /\ read'[p] = a /\ time'[p] = time[p] /\ target'[p] = target[p]
      /\ a = NoWork => mine'[p] = NewAttempt(0, time[p])
  BY DEF ReadWork, Goto, SealInv, LocalType
<1>6. LocalInv(p)'
  <2>1. CASE a = NoWork
    BY <1>1, <1>3, <1>5, <2>1
       DEF LocalInv, Deciding, Unsealed, Evident, Sealed, Launching, Completing, Dated
  <2>2. CASE a # NoWork
    BY <1>1, <1>2, <1>5, <2>2
       DEF LocalInv, Deciding, Unsealed, Evident, Sealed, Launching, Completing, Dated
  <2> QED BY <2>1, <2>2
<1>7. SharedType' /\ UNCHANGED evidence
  BY DEF ReadWork, SealInv, SharedType, evidence, objects
<1> QED BY <1>4, <1>6, <1>7, Moves

\* A verified result is carried to retention with the record it belongs to.
LEMMA FindCompletionKeeps ==
    ASSUME SealInv, NEW p \in Lambdas, FindCompletion(p)
    PROVE  SealInv'
<1>1. target[p] \in Works /\ Dated(read[p])
  BY DEF FindCompletion, SealInv, LocalInv, Deciding
<1>2. OnlyMoves(p) /\ LocalType'
  BY <1>1 DEF FindCompletion, Goto, OnlyMoves, SealInv, LocalType, Places, Dated
<1>3. /\ at'[p] = "retain" /\ mine'[p] = read[p]
      /\ read'[p] = read[p] /\ target'[p] = target[p]
  BY DEF FindCompletion, Goto, SealInv, LocalType
<1>4. LocalInv(p)'
  BY <1>1, <1>3
     DEF LocalInv, Deciding, Unsealed, Evident, Sealed, Launching, Completing, Dated
<1>5. SharedType' /\ UNCHANGED evidence
  BY DEF FindCompletion, SealInv, SharedType, evidence, objects
<1> QED BY <1>2, <1>4, <1>5, Moves

\* Resuming and replacing start from a record that is not sealed.
LEMMA PlanAttemptKeeps ==
    ASSUME SealInv, NEW p \in Lambdas, PlanAttempt(p)
    PROVE  SealInv'
<1> DEFINE a == read[p]
           resumed == [generation |-> a.generation, created |-> a.created,
                       launchRetryAt |-> time[p] + RetryDelay, launched |-> FALSE,
                       completed |-> FALSE, denied |-> FALSE]
<1>1. /\ target[p] \in Works /\ Dated(a) /\ ~a.completed
      /\ time[p] \in Nat /\ time[p] > 0
  BY DEF PlanAttempt, SealInv, LocalInv, Deciding, LocalType, Rotates, Resumes
<1>2. Dated(resumed) /\ ~resumed.completed
  BY <1>1, JobConstantsAssumption DEF Dated, Attempt
<1>3. a.generation < MaxGeneration => /\ Dated(NewAttempt(a.generation + 1, time[p]))
                                      /\ ~NewAttempt(a.generation + 1, time[p]).completed
  <2>1. a.generation < MaxGeneration => a.generation + 1 \in 0 .. MaxGeneration
    BY <1>1, JobConstantsAssumption DEF Dated, Attempt
  <2> QED BY <1>1, <2>1, NewAttemptDated
<1>4. PICK b \in {resumed, NewAttempt(a.generation + 1, time[p])} :
        Dated(b) /\ ~b.completed /\ mine' = [mine EXCEPT ![p] = b]
  BY <1>2, <1>3 DEF PlanAttempt, Resumes
<1>5. OnlyMoves(p) /\ LocalType'
  <2>1. LocalType /\ b \in Attempt
    BY <1>4 DEF SealInv, Dated
  <2>2. at' = [at EXCEPT ![p] = "claim"] /\ UNCHANGED <<target, time, read>>
    BY DEF PlanAttempt, Goto
  <2> QED BY <1>4, <2>1, <2>2 DEF OnlyMoves, LocalType, Places
<1>6. /\ at'[p] = "claim" /\ mine'[p] = b
      /\ read'[p] = read[p] /\ target'[p] = target[p]
  BY <1>4 DEF PlanAttempt, Goto, SealInv, LocalType
<1>7. LocalInv(p)'
  BY <1>1, <1>4, <1>6
     DEF LocalInv, Deciding, Unsealed, Evident, Sealed, Launching, Completing, Dated
<1>8. SharedType' /\ UNCHANGED evidence
  BY DEF PlanAttempt, SealInv, SharedType, evidence, objects
<1> QED BY <1>5, <1>7, <1>8, Moves

-----------------------------------------------------------------------------
(* Completions *)

\* A poll carries the stored request of its job, and no record.
LEMMA PollKeeps ==
    ASSUME SealInv, NEW p \in Lambdas, NEW j \in Jobs, Poll(p, j)
    PROVE  SealInv'
<1>1. StoredRequest(j) \in Nat /\ StoredRequest(j) > 0
  BY DEF Poll, StoredRequest, SealInv, SharedType
<1>2. j[1] \in Works /\ j[2] \in 0 .. MaxGeneration
  BY DEF Jobs
<1>3. Dated(NewAttempt(j[2], StoredRequest(j)))
  BY <1>1, <1>2, NewAttemptDated
<1>4. OnlyMoves(p) /\ LocalType'
  BY <1>2, <1>3 DEF Poll, Goto, OnlyMoves, SealInv, LocalType, Places, Dated
<1>5. /\ at'[p] = "retain" /\ mine'[p] = NewAttempt(j[2], StoredRequest(j))
      /\ read'[p] = NoWork /\ target'[p] = j[1]
  BY DEF Poll, Goto, SealInv, LocalType, LocalInv, Deciding
<1>6. LocalInv(p)'
  BY <1>2, <1>3, <1>5
     DEF LocalInv, Deciding, Unsealed, Evident, Sealed, Launching, Completing, Dated
<1>7. SharedType' /\ UNCHANGED evidence
  BY DEF Poll, SealInv, SharedType, evidence, objects
<1> QED BY <1>4, <1>6, <1>7, Moves

\* A create-only write of a retained result or of its request.
LEMMA Retains ==
    ASSUME SealInv, NEW p \in Lambdas, OnlyMoves(p), LocalType', LocalInv(p)',
           SharedType', Durable, UNCHANGED <<work, settlements>>
    PROVE  SealInv'
<1>1. ASSUME NEW q \in Lambdas, q # p  PROVE LocalInv(q)'
  BY <1>1, OthersKeep DEF OnlyMoves, SealInv, LocalType
<1>2. (\A w \in Works : Exists(w) => work[w].created > 0)'
  BY DEF SealInv, Exists
<1>3. SealedHasEvidence'
  <2> SUFFICES ASSUME NEW w \in Works, Exists(w), work[w].completed
               PROVE  /\ CurrentJob(w) \in completions'
                      /\ completionRequests'[CurrentJob(w)] = work[w].created
    BY DEF SealedHasEvidence, Exists, CurrentJob
  <2>1. /\ CurrentJob(w) \in completions /\ work[w].created > 0
        /\ completionRequests[CurrentJob(w)] = work[w].created
    BY DEF SealInv, SealedHasEvidence
  <2> QED BY <2>1 DEF Durable, SealInv, SharedType
<1>4. PublishedIsSealed'
  BY DEF SealInv, PublishedIsSealed, Exists, CurrentJob
<1> QED BY <1>1, <1>2, <1>3, <1>4 DEF SealInv

\* The retained result is in place before the next write.
LEMMA RetainKeeps ==
    ASSUME SealInv, NEW p \in Lambdas, Retain(p)
    PROVE  SealInv'
<1>1. target[p] \in Works /\ Dated(mine[p]) /\ (read[p] = NoWork \/ mine[p] = read[p])
  BY DEF Retain, SealInv, LocalInv, Deciding, Evident, Completing
<1>2. JobOf(p, mine[p]) \in Jobs
  BY <1>1, JobInJobs DEF Dated
<1>3. OnlyMoves(p) /\ LocalType'
  BY DEF Retain, Step, locals, Goto, OnlyMoves, SealInv, LocalType, Places
<1>4. at'[p] = "retainRequest" /\ UNCHANGED <<mine, read, target>>
  BY DEF Retain, Step, locals, Goto, SealInv, LocalType
<1>5. LocalInv(p)'
  BY <1>1, <1>4 DEF LocalInv, Deciding, Unsealed, Evident, Sealed, Launching, Completing,
                    Dated, Retain, JobOf
<1>6. SharedType' /\ Durable
  BY <1>2 DEF Retain, SealInv, SharedType, Durable, Exists
<1> QED BY <1>3, <1>5, <1>6, Retains DEF Retain

\* So is the retained request, before the record can be sealed.
LEMMA RetainRequestKeeps ==
    ASSUME SealInv, NEW p \in Lambdas, RetainRequest(p)
    PROVE  SealInv'
<1> DEFINE j == JobOf(p, mine[p])
<1>1. /\ target[p] \in Works /\ Dated(mine[p]) /\ (read[p] = NoWork \/ mine[p] = read[p])
      /\ j \in completions
  BY DEF RetainRequest, SealInv, LocalInv, Deciding, Evident, Completing
<1>2. j \in Jobs /\ mine[p].created \in Nat
  BY <1>1, JobInJobs DEF Dated, Attempt
<1>3. OnlyMoves(p) /\ LocalType'
  BY DEF RetainRequest, Step, locals, Goto, OnlyMoves, SealInv, LocalType, Places
<1>4. /\ at'[p] = IF read[p] = NoWork \/ mine[p].completed THEN "seal" ELSE "complete"
      /\ UNCHANGED <<mine, read, target, completions>>
      /\ completionRequests'[j] = mine[p].created
  BY <1>2 DEF RetainRequest, Step, locals, Goto, SealInv, LocalType, SharedType
<1>5. LocalInv(p)'
  BY <1>1, <1>4 DEF LocalInv, Deciding, Unsealed, Evident, Sealed, Launching, Completing,
                    Dated, JobOf
<1>6. SharedType' /\ Durable
  BY <1>2 DEF RetainRequest, SealInv, SharedType, Durable, Exists
<1> QED BY <1>3, <1>5, <1>6, Retains DEF RetainRequest

\* Sealing a record keeps what identifies its attempt.
LEMMA CompletedDated ==
    ASSUME NEW a, Dated(a)
    PROVE  /\ Dated(Completed(a)) /\ Completed(a).completed
           /\ SameStored(Completed(a), a)
           /\ a.completed => Completed(a) = a
BY DEF Dated, Completed, Attempt, SameStored

\* submit_canonical seals the record whose result it has retained.
LEMMA CompleteKeeps ==
    ASSUME SealInv, NEW p \in Lambdas, Complete(p)
    PROVE  SealInv'
<1> DEFINE w == target[p]
           a == read[p]
<1>1. /\ w \in Works /\ Dated(a) /\ mine[p] = a
      /\ JobOf(p, a) \in completions /\ completionRequests[JobOf(p, a)] = a.created
  BY DEF Complete, SealInv, LocalInv, Deciding, Evident, Completing
<1>2. /\ Dated(Completed(a)) /\ Completed(a).generation = a.generation
      /\ Completed(a).created = a.created /\ (a.completed => Completed(a) = a)
  BY <1>1, CompletedDated DEF SameStored
<1>3. CASE Exchanged(w, a, Completed(a)) /\ Step(p, "seal")
  <2>1. OnlyMoves(p) /\ LocalType'
    BY <1>3 DEF Step, locals, Goto, OnlyMoves, SealInv, LocalType, Places
  <2>2. /\ at'[p] = "seal"
        /\ UNCHANGED <<mine, read, target, completions, completionRequests>>
    BY <1>3 DEF Complete, objects, Step, locals, Goto, SealInv, LocalType
  <2>3. LocalInv(p)'
    BY <1>1, <2>2 DEF LocalInv, Deciding, Unsealed, Evident, Sealed, Launching, Completing,
                      Dated, JobOf
  <2> QED BY <1>1, <1>2, <1>3, <2>1, <2>2, <2>3, Writes DEF Exchanged, JobOf, Complete, objects
<1>4. CASE Lost(w, a) /\ Retry(p)
  BY <1>4, RetryKeeps DEF Complete, Lost, objects, evidence
<1> QED BY <1>3, <1>4 DEF Complete

\* seal_settlement_completion reads the record and gives up on another attempt's.
LEMMA SealKeeps ==
    ASSUME SealInv, NEW p \in Lambdas, Seal(p)
    PROVE  SealInv'
<1> DEFINE a == work[target[p]]
<1>1. /\ target[p] \in Works /\ Dated(mine[p])
      /\ JobOf(p, mine[p]) \in completions
      /\ completionRequests[JobOf(p, mine[p])] = mine[p].created
  BY DEF Seal, SealInv, LocalInv, Deciding, Evident, Completing
<1>2. UNCHANGED <<now, requests, evidence>>
  BY DEF Seal, objects, evidence
<1>3. CASE a = NoWork \/ ~SameStored(a, mine[p])
  BY <1>2, <1>3, ReturnMoves DEF Seal
<1>4. CASE ~(a = NoWork \/ ~SameStored(a, mine[p]))
  <2>1. Dated(a)
    BY <1>1, <1>4 DEF SealInv, SharedType, Exists, Dated
  <2>2. OnlyMoves(p) /\ LocalType'
    BY <1>4, <2>1 DEF Seal, Goto, OnlyMoves, SealInv, LocalType, Places, Dated
  <2>3. /\ at'[p] = IF a.completed THEN "publish" ELSE "sealWrite"
        /\ read'[p] = a /\ mine'[p] = mine[p] /\ target'[p] = target[p]
    BY <1>4 DEF Seal, Goto, SealInv, LocalType
  <2>4. Deciding(p)' /\ Unsealed(p)'
    BY <1>1, <2>3 DEF Deciding, Unsealed, Launching
  <2>5. Evident(p)'
    BY <1>1, <1>2, <2>3 DEF Evident, Completing, Dated, JobOf, evidence
  <2>6. Sealed(p)'
    BY <1>2, <1>4, <2>1, <2>3 DEF Sealed, SameStored, Dated, evidence
  <2>7. SharedType'
    BY <1>2 DEF SealInv, SharedType, evidence
  <2> QED BY <1>2, <2>2, <2>4, <2>5, <2>6, <2>7, Moves DEF LocalInv
<1> QED BY <1>3, <1>4

\* It seals the record it has read, or reads again.
LEMMA SealWriteKeeps ==
    ASSUME SealInv, NEW p \in Lambdas, SealWrite(p)
    PROVE  SealInv'
<1> DEFINE w == target[p]
           a == read[p]
<1>1. /\ w \in Works /\ Dated(a) /\ Dated(mine[p]) /\ SameStored(a, mine[p])
      /\ JobOf(p, mine[p]) \in completions
      /\ completionRequests[JobOf(p, mine[p])] = mine[p].created
  BY DEF SealWrite, SealInv, LocalInv, Deciding, Evident, Sealed, Completing
<1>2. /\ Dated(Completed(a)) /\ Completed(a).completed /\ SameStored(Completed(a), a)
      /\ (a.completed => Completed(a) = a)
  BY <1>1, CompletedDated
<1>3. CASE Exchanged(w, a, Completed(a)) /\ Step(p, "publish")
  <2>1. OnlyMoves(p) /\ LocalType'
    BY <1>3 DEF Step, locals, Goto, OnlyMoves, SealInv, LocalType, Places
  <2>2. /\ at'[p] = "publish" /\ work'[w] = Completed(a)
        /\ UNCHANGED <<mine, read, target, completions, completionRequests>>
    BY <1>1, <1>3 DEF SealWrite, objects, Step, locals, Goto, SealInv, LocalType, Exchanged,
                      SharedType
  <2>3. Deciding(p)' /\ Unsealed(p)' /\ Evident(p)'
    BY <1>1, <2>2 DEF Deciding, Unsealed, Evident, Launching, Completing, Dated, JobOf
  <2>4. Sealed(p)'
    BY <1>1, <1>2, <2>2 DEF Sealed, Dated, SameStored
  <2>5. /\ <<w, Completed(a).generation>> \in completions
        /\ completionRequests[<<w, Completed(a).generation>>] = Completed(a).created
    BY <1>1, <1>2 DEF SameStored, JobOf
  <2>6. /\ work[w] = a /\ work' = [work EXCEPT ![w] = Completed(a)]
        /\ UNCHANGED <<now, requests, completions, completionRequests, settlements>>
    BY <1>3 DEF Exchanged, SealWrite, objects
  <2>7. LocalInv(p)'
    BY <2>3, <2>4 DEF LocalInv
  <2> QED BY <1>1, <1>2, <2>1, <2>5, <2>6, <2>7, Writes
<1>4. CASE Lost(w, a) /\ Step(p, "seal")
  <2>1. OnlyMoves(p) /\ LocalType' /\ UNCHANGED <<now, requests, evidence>>
    BY <1>4 DEF Step, locals, Goto, OnlyMoves, SealInv, LocalType, Places, Lost, SealWrite,
                objects, evidence
  <2>2. at'[p] = "seal" /\ UNCHANGED <<mine, read, target>>
    BY <1>4 DEF Step, locals, Goto, SealInv, LocalType
  <2>3. LocalInv(p)'
    BY <1>1, <2>1, <2>2 DEF LocalInv, Deciding, Unsealed, Evident, Sealed, Launching,
                            Completing, Dated, JobOf, evidence
  <2>4. SharedType'
    BY <2>1 DEF SealInv, SharedType, evidence
  <2> QED BY <2>1, <2>3, <2>4, Moves
<1> QED BY <1>3, <1>4 DEF SealWrite

\* What is published is the job of the sealed record.
LEMMA PublishKeeps ==
    ASSUME SealInv, NEW p \in Lambdas, Publish(p)
    PROVE  SealInv'
<1> DEFINE j == JobOf(p, mine[p])
<1>1. /\ target[p] \in Works /\ Dated(mine[p]) /\ Dated(work[target[p]])
      /\ work[target[p]].completed /\ SameStored(work[target[p]], mine[p])
  BY DEF Publish, SealInv, LocalInv, Deciding, Evident, Sealed, Completing
<1>2. j \in Jobs /\ j[1] = target[p] /\ Exists(j[1]) /\ CurrentJob(j[1]) = j
  BY <1>1, JobInJobs, NoWorkIsNoAttempt DEF Dated, Exists, CurrentJob, JobOf, SameStored
<1>3. settlements' \subseteq settlements \cup {j}
  BY DEF Publish
<1>4. OnlyMoves(p) /\ LocalType'
  BY DEF Publish, Return, Goto, OnlyMoves, SealInv, LocalType, Places
<1>5. LocalInv(p)'
  <2>1. at'[p] = "idle" /\ read'[p] = NoWork
    BY DEF Publish, Return, Goto, SealInv, LocalType
  <2> QED BY <2>1 DEF LocalInv, Deciding, Unsealed, Evident, Sealed, Launching, Completing
<1>6. SharedType' /\ Durable
  BY <1>2, <1>3 DEF Publish, SealInv, SharedType, Durable
<1>7. ASSUME NEW q \in Lambdas, q # p  PROVE LocalInv(q)'
  BY <1>4, <1>6, <1>7, OthersKeep DEF OnlyMoves, SealInv, LocalType
<1>8. PublishedIsSealed'
  BY <1>1, <1>2, <1>3 DEF SealInv, PublishedIsSealed, Exists, CurrentJob, Publish
<1>9. SealedHasEvidence' /\ (\A w \in Works : Exists(w) => work[w].created > 0)'
  BY DEF Publish, SealInv, SealedHasEvidence, Exists, CurrentJob
<1> QED BY <1>4, <1>5, <1>6, <1>7, <1>8, <1>9 DEF SealInv

-----------------------------------------------------------------------------
(* submit_canonical: the launch *)

\* Claiming an attempt replaces a record that is not sealed.
LEMMA ClaimKeeps ==
    ASSUME SealInv, NEW p \in Lambdas, Claim(p)
    PROVE  SealInv'
<1> DEFINE w == target[p]
<1>1. /\ w \in Works /\ Dated(mine[p]) /\ ~mine[p].completed
      /\ read[p] = NoWork \/ ~read[p].completed
  BY DEF Claim, SealInv, LocalInv, Deciding, Unsealed, Launching
<1>2. CASE Exchanged(w, read[p], mine[p]) /\ Goto(p, "request")
           /\ read' = [read EXCEPT ![p] = NoWork] /\ time' = [time EXCEPT ![p] = 0]
           /\ UNCHANGED <<target, mine>>
  <2>1. OnlyMoves(p) /\ LocalType'
    BY <1>2 DEF Goto, OnlyMoves, SealInv, LocalType, Places
  <2>2. at'[p] = "request" /\ mine'[p] = mine[p] /\ target'[p] = w
    BY <1>2 DEF Goto, SealInv, LocalType
  <2>3. LocalInv(p)'
    BY <1>1, <2>2 DEF LocalInv, Deciding, Unsealed, Evident, Sealed, Launching, Completing, Dated
  <2>4. /\ work' = [work EXCEPT ![w] = mine[p]]
        /\ ~(Exists(w) /\ work[w].completed)
        /\ UNCHANGED <<now, requests, completions, completionRequests, settlements>>
    BY <1>1, <1>2 DEF Exchanged, Claim, objects, Exists
  <2> QED BY <1>1, <2>1, <2>3, <2>4, Writes
<1>3. CASE Lost(w, read[p]) /\ Retry(p)
  BY <1>3, RetryKeeps DEF Claim, Lost, objects, evidence
<1> QED BY <1>2, <1>3 DEF Claim

\* Owning an attempt is over and the record is marked, unless somebody else has
\* written it: a mark is never put on a sealed record.
LEMMA Marks ==
    ASSUME SealInv, NEW p \in Lambdas, at[p] \in Launching, NEW a, Dated(a), ~a.completed,
           Exchanged(target[p], mine[p], a) \/ Lost(target[p], mine[p]), Return(p),
           UNCHANGED <<now, objects>>
    PROVE  SealInv'
<1>1. target[p] \in Works /\ Dated(mine[p]) /\ ~mine[p].completed
  BY DEF SealInv, LocalInv, Deciding, Unsealed, Launching
<1>2. CASE Exchanged(target[p], mine[p], a)
  <2>1. OnlyMoves(p) /\ LocalType'
    BY DEF Return, Goto, OnlyMoves, SealInv, LocalType, Places
  <2>2. at'[p] = "idle" /\ read'[p] = NoWork
    BY DEF Return, Goto, SealInv, LocalType
  <2>3. LocalInv(p)'
    BY <2>2 DEF LocalInv, Deciding, Unsealed, Evident, Sealed, Launching, Completing
  <2>4. /\ work' = [work EXCEPT ![target[p]] = a]
        /\ ~(Exists(target[p]) /\ work[target[p]].completed)
        /\ UNCHANGED <<now, requests, completions, completionRequests, settlements>>
    BY <1>1, <1>2 DEF Exchanged, objects
  <2> QED BY <1>1, <2>1, <2>3, <2>4, Writes
<1>3. CASE Lost(target[p], mine[p])
  BY <1>3, ReturnMoves DEF Lost, objects, evidence
<1> QED BY <1>2, <1>3

\* The steps of a launch that touch neither the records nor the results.
LEMMA LaunchKeeps ==
    ASSUME SealInv, NEW p \in Lambdas,
           \/ PutRequest(p) \/ Recheck(p) \/ ReadLedger(p) \/ QueryInventory(p)
           \/ Charge(p) \/ Fresh(p) \/ LaunchBefore(p)
    PROVE  SealInv'
<1>1. at[p] \in Launching /\ UNCHANGED <<now, evidence>>
  BY DEF PutRequest, Recheck, ReadLedger, QueryInventory, Charge, Fresh, LaunchBefore,
         Launching, objects, evidence
<1>2. requests' \in [Jobs -> Nat]
  <2>1. CASE PutRequest(p)
    <3>1. mine[p].created \in Nat
      BY <1>1 DEF SealInv, LocalInv, Unsealed, Dated, Attempt
    <3> QED BY <2>1, <3>1 DEF PutRequest, SealInv, SharedType
  <2>2. CASE ~PutRequest(p)
    BY <2>2 DEF Recheck, ReadLedger, QueryInventory, Charge, Fresh, LaunchBefore, objects,
                SealInv, SharedType
  <2> QED BY <2>1, <2>2
<1>3. ASSUME Return(p), ~PutRequest(p)  PROVE SealInv'
  <2>1. UNCHANGED requests
    BY <1>3 DEF Recheck, ReadLedger, QueryInventory, Charge, Fresh, LaunchBefore, objects
  <2> QED BY <1>1, <1>3, <2>1, ReturnMoves
<1>4. ASSUME NEW place \in Launching, Goto(p, place), UNCHANGED <<target, read, mine>>,
             NEW t \in Nat, time' = [time EXCEPT ![p] = t]
      PROVE  SealInv'
  <2>1. time' \in [Lambdas -> Nat] /\ time' = [time EXCEPT ![p] = time'[p]]
    BY <1>4 DEF SealInv, LocalType
  <2> QED BY <1>1, <1>2, <1>4, <2>1, LaunchMoves
<1>5. ASSUME NEW place \in Launching, Step(p, place)  PROVE SealInv'
  <2>1. time[p] \in Nat /\ time' = [time EXCEPT ![p] = time[p]]
    BY <1>5 DEF Step, locals, SealInv, LocalType
  <2>2. Goto(p, place) /\ UNCHANGED <<target, read, mine>>
    BY <1>5 DEF Step, locals
  <2> QED BY <1>4, <2>1, <2>2
<1>6. ASSUME NEW place \in Launching, LeaveLedger(p, place)  PROVE SealInv'
  BY <1>4, <1>6 DEF LeaveLedger
<1>7. CASE PutRequest(p)
  BY <1>5, <1>7 DEF PutRequest, Launching
<1>8. CASE Recheck(p) \/ Fresh(p) \/ LaunchBefore(p)
  <2>1. ~PutRequest(p)
    BY <1>8 DEF Recheck, Fresh, LaunchBefore, PutRequest
  <2> QED BY <1>3, <1>5, <1>8, <2>1 DEF Recheck, Fresh, LaunchBefore, Launching
<1>9. CASE ReadLedger(p)
  <2>1. ~PutRequest(p)
    BY <1>9 DEF ReadLedger, PutRequest
  <2>2. Clock(p) \in Nat
    BY JobConstantsAssumption DEF Clock, Clocks, SealInv, SharedType
  <2>3. \/ Return(p) \/ Step(p, "fresh")
        \/ /\ Goto(p, "inventory") \/ Goto(p, "charge")
           /\ time' = [time EXCEPT ![p] = Clock(p)] /\ UNCHANGED <<target, read, mine>>
    BY <1>9 DEF ReadLedger
  <2> QED BY <1>3, <1>4, <1>5, <2>1, <2>2, <2>3 DEF Launching
<1>10. CASE QueryInventory(p)
  <2>1. time[p] \in Nat /\ time' = [time EXCEPT ![p] = time[p]]
    BY <1>10 DEF QueryInventory, SealInv, LocalType
  <2> QED BY <1>4, <1>10, <2>1 DEF QueryInventory, Launching
<1>11. CASE Charge(p)
  <2>1. LeaveLedger(p, "deny") \/ LeaveLedger(p, "fresh") \/ LeaveLedger(p, "ledger")
    BY <1>11 DEF Charge
  <2> QED BY <1>6, <2>1 DEF Launching
<1> QED BY <1>7, <1>8, <1>9, <1>10, <1>11

\* A denial marks the attempt only while it is the current one.
LEMMA DenyKeeps ==
    ASSUME SealInv, NEW p \in Lambdas, Deny(p)
    PROVE  SealInv'
<1>1. at[p] \in Launching /\ UNCHANGED <<now, objects>>
  BY DEF Deny, Launching
<1>2. Dated(mine[p]) /\ ~mine[p].completed
  BY <1>1 DEF SealInv, LocalInv, Unsealed
<1>3. Dated(Denied(mine[p])) /\ ~Denied(mine[p]).completed
  BY <1>2 DEF Dated, Denied, Attempt
<1> QED BY <1>1, <1>3, Marks DEF Deny

\* So does the launch mark.
LEMMA MarkLaunchedKeeps ==
    ASSUME SealInv, NEW p \in Lambdas, MarkLaunched(p)
    PROVE  SealInv'
<1>1. at[p] \in Launching /\ UNCHANGED <<now, objects>>
  BY DEF MarkLaunched, Launching
<1>2. Dated(mine[p]) /\ ~mine[p].completed
  BY <1>1 DEF SealInv, LocalInv, Unsealed
<1>3. Dated(Launched(mine[p])) /\ ~Launched(mine[p]).completed
  BY <1>2 DEF Dated, Launched, Attempt
<1> QED BY <1>1, <1>3, Marks DEF MarkLaunched

\* Answers and failures.
LEMMA EndsKeep ==
    ASSUME SealInv, NEW p \in Lambdas,
           Reconnect(p) \/ PrecheckFails(p) \/ LaunchFails(p) \/ Abort(p)
    PROVE  SealInv'
<1>1. Return(p) /\ UNCHANGED <<now, requests, evidence>>
  BY DEF Reconnect, PrecheckFails, LaunchFails, Abort, objects, evidence
<1> QED BY <1>1, ReturnMoves

\* Neither time, EC2, workers nor the life cycle of the bucket touch what a seal
\* or a publication rests on.
LEMMA EnvironmentKeeps ==
    ASSUME SealInv, EnvironmentStep
    PROVE  SealInv'
<1>1. UNCHANGED <<evidence, at, target, time, read, mine>>
  BY DEF EnvironmentStep, Accept, Drop, PutTerminal, Terminate, ExpireTerminal, ExpireRequest,
         Tick, objects, locals, evidence
<1>2. now' \in Nat /\ now' >= StartTime /\ requests' \in [Jobs -> Nat]
  BY JobConstantsAssumption
     DEF EnvironmentStep, Accept, Drop, PutTerminal, Terminate, ExpireTerminal, ExpireRequest,
         Tick, objects, SealInv, SharedType
<1>3. SharedType' /\ LocalType'
  BY <1>1, <1>2 DEF SealInv, SharedType, LocalType, evidence
<1>4. Durable
  BY <1>1 DEF Durable, evidence
<1>5. ASSUME NEW q \in Lambdas  PROVE LocalInv(q)'
  BY <1>1, <1>4, <1>5, OthersKeep
<1>6. SealedHasEvidence' /\ PublishedIsSealed'
      /\ (\A w \in Works : Exists(w) => work[w].created > 0)'
  BY <1>1 DEF SealInv, SealedHasEvidence, PublishedIsSealed, Exists, CurrentJob, evidence
<1> QED BY <1>3, <1>5, <1>6 DEF SealInv

\* An empty bucket and idle invocations.
LEMMA SealInit == Init => SealInv
BY JobConstantsAssumption
   DEF Init, SealInv, SharedType, LocalType, SealedHasEvidence, PublishedIsSealed, Exists,
       LocalInv, Deciding, Unsealed, Evident, Sealed, Launching, Completing, Places, Clocks

\* Every step keeps the invariant.
LEMMA SealNext == SealInv /\ [Next]_vars => SealInv'
<1> SUFFICES ASSUME SealInv, [Next]_vars PROVE SealInv'
  OBVIOUS
<1>1. ASSUME NEW p \in Lambdas, SubmitStep(p)  PROVE SealInv'
  BY <1>1, SubmitKeeps, ReadWorkKeeps, FindCompletionKeeps, PlanAttemptKeeps, EndsKeep,
     ClaimKeeps, LaunchKeeps, DenyKeeps, MarkLaunchedKeeps DEF SubmitStep
<1>2. ASSUME NEW p \in Lambdas, CompletionStep(p)  PROVE SealInv'
  BY <1>2, PollKeeps, RetainKeeps, RetainRequestKeeps, CompleteKeeps, SealKeeps,
     SealWriteKeeps, PublishKeeps DEF CompletionStep
<1>3. ASSUME NEW p \in Lambdas, Abort(p)  PROVE SealInv'
  BY <1>3, EndsKeep
<1>4. CASE EnvironmentStep
  BY <1>4, EnvironmentKeeps
<1>5. CASE UNCHANGED vars
  <2>1. UNCHANGED <<now, requests, evidence, at, target, time, read, mine>>
    BY <1>5 DEF vars, objects, locals, evidence
  <2>2. SharedType' /\ LocalType' /\ Durable
    BY <2>1 DEF SealInv, SharedType, LocalType, evidence, Durable
  <2>3. ASSUME NEW q \in Lambdas  PROVE LocalInv(q)'
    BY <2>1, <2>2, <2>3, OthersKeep
  <2>4. SealedHasEvidence' /\ PublishedIsSealed'
        /\ (\A w \in Works : Exists(w) => work[w].created > 0)'
    BY <2>1 DEF SealInv, SealedHasEvidence, PublishedIsSealed, Exists, CurrentJob, evidence
  <2> QED BY <2>2, <2>3, <2>4 DEF SealInv
<1> QED BY <1>1, <1>2, <1>3, <1>4, <1>5 DEF Next

\* The inductive invariant of sealing and publication.
THEOREM SealInvHolds == Spec => []SealInv
<1>1. Init => SealInv
  BY SealInit
<1>2. SealInv /\ [Next]_vars => SealInv'
  BY SealNext
<1> QED BY <1>1, <1>2, PTL DEF Spec

\* The result behind a sealed record is in durable storage, together with the
\* request it answers: retain_completion precedes every completing write.
THEOREM EvidenceBeforeSeal == Spec => []SealedHasEvidence
<1>1. SealInv => SealedHasEvidence
  BY DEF SealInv
<1> QED BY <1>1, SealInvHolds, PTL

\* publish_settlement only ever offers the sealed result of the current attempt.
THEOREM OnlySealedIsPublished == Spec => []PublishedIsSealed
<1>1. SealInv => PublishedIsSealed
  BY DEF SealInv
<1> QED BY <1>1, SealInvHolds, PTL

-----------------------------------------------------------------------------
(* The seal is final *)

SealKept(w) == Exists(w) /\ work[w].completed => work'[w] = work[w]

\* A conditional write whose expected record is not sealed, or that only seals.
LEMMA ExchangeKeepsSeals ==
    ASSUME SealInv, NEW w \in Works, NEW v \in Works, NEW a, NEW b, Exchanged(v, a, b),
           a = NoWork \/ ~a.completed \/ b = a
    PROVE  SealKept(w)
BY DEF SealKept, Exchanged, Exists, SealInv, SharedType

\* No step changes a sealed record.
LEMMA SealStays ==
    ASSUME SealInv, [Next]_vars, NEW w \in Works
    PROVE  SealKept(w)
<1>1. ASSUME UNCHANGED work  PROVE SealKept(w)
  BY <1>1 DEF SealKept
<1>2. ASSUME NEW p \in Lambdas, Claim(p)  PROVE SealKept(w)
  <2>1. target[p] \in Works /\ (read[p] = NoWork \/ ~read[p].completed)
    BY <1>2 DEF Claim, SealInv, LocalInv, Deciding, Unsealed
  <2> QED BY <1>1, <1>2, <2>1, ExchangeKeepsSeals DEF Claim, Lost
<1>3. ASSUME NEW p \in Lambdas, Deny(p) \/ MarkLaunched(p)  PROVE SealKept(w)
  <2>1. target[p] \in Works /\ ~mine[p].completed
    BY <1>3 DEF Deny, MarkLaunched, SealInv, LocalInv, Deciding, Unsealed, Launching
  <2> QED BY <1>1, <1>3, <2>1, ExchangeKeepsSeals DEF Deny, MarkLaunched, Lost
<1>4. ASSUME NEW p \in Lambdas, Complete(p) \/ SealWrite(p)  PROVE SealKept(w)
  <2>1. target[p] \in Works /\ Dated(read[p])
    BY <1>4 DEF Complete, SealWrite, SealInv, LocalInv, Deciding, Evident, Sealed, Completing
  <2>2. ~read[p].completed \/ Completed(read[p]) = read[p]
    BY <2>1, CompletedDated
  <2> QED BY <1>1, <1>4, <2>1, <2>2, ExchangeKeepsSeals DEF Complete, SealWrite, Lost
<1>5. ASSUME NEW p \in Lambdas, SubmitStep(p), ~Claim(p), ~Deny(p), ~MarkLaunched(p)
      PROVE  UNCHANGED work
  BY <1>5 DEF SubmitStep, Submit, ReadWork, FindCompletion, PlanAttempt, Reconnect, PutRequest,
              Recheck, ReadLedger, QueryInventory, Charge, Fresh, LaunchBefore, PrecheckFails,
              LaunchFails
<1>6. ASSUME NEW p \in Lambdas, CompletionStep(p), ~Complete(p), ~SealWrite(p)
      PROVE  UNCHANGED work
  BY <1>6 DEF CompletionStep, Poll, Retain, RetainRequest, Seal, Publish
<1>7. ASSUME NEW p \in Lambdas, Abort(p)  PROVE UNCHANGED work
  BY <1>7 DEF Abort
<1>8. ASSUME EnvironmentStep  PROVE UNCHANGED work
  BY <1>8 DEF EnvironmentStep, Accept, Drop, PutTerminal, Terminate, ExpireTerminal,
              ExpireRequest, Tick
<1>9. ASSUME UNCHANGED vars  PROVE UNCHANGED work
  BY <1>9 DEF vars
<1> QED BY <1>1, <1>2, <1>3, <1>4, <1>5, <1>6, <1>7, <1>8, <1>9 DEF Next

\* Whatever invocations race for a record, a sealed one is never written again:
\* neither a late claim, denial or launch mark nor a second seal changes it.
THEOREM SealsAreFinal == Spec => SealedIsFinal
<1>1. SealInv /\ [Next]_vars =>
        [\A w \in Works : Exists(w) /\ work[w].completed => work'[w] = work[w]]_vars
  BY SealStays DEF SealKept
<1> QED BY <1>1, SealInvHolds, PTL DEF Spec, SealedIsFinal

-----------------------------------------------------------------------------
(* Admission: slots, starts and clocks *)

\* Invocations that passed the recheck; that have read the ledger and will
\* write it; that hold a slot; that send or have sent RunInstances.
Sworn    == {"ledger", "inventory", "charge", "deny", "fresh", "launch", "sent"}
Counting == {"inventory", "charge"}
Holding  == {"fresh", "launch", "sent"}
Sending  == {"launch", "sent"}

Reservation == [job : Jobs, launchUntil : Nat, startedAt : Nat]
Ledger      == [reservations : SUBSET Reservation, starts : Seq(Nat), observedAt : Nat]

AdmissionType ==
    /\ ledger \in Ledger /\ charges \in Seq(Nat)
    /\ launches \subseteq [job : Jobs, by : Nat]
    /\ instances \in [Jobs -> {"none", "running", "finished", "terminated"}]
    /\ terminal \in [Jobs -> {"none", "valid", "invalid", "failed"}]
    /\ born \in [Lambdas -> Nat]
    /\ ledgerRead \in [Lambdas -> Ledger]
    /\ kept \in [Lambdas -> SUBSET Reservation]

\* A ledger written at o with the starts s remembers the latest charges of c, in
\* order; those it has forgotten were outside the window when it was written.
Remembers(c, s, o) ==
    /\ Len(s) <= Len(c)
    /\ \A i \in 1 .. Len(s) : s[i] = c[Len(c) - Len(s) + i]
    /\ \A i \in 1 .. Len(c) - Len(s) : o - c[i] > Window
    /\ \A i \in 1 .. Len(c) : c[i] <= o
    /\ \A i, k \in 1 .. Len(c) : i <= k => c[i] <= c[k]

LedgerRemembers == Remembers(charges, ledger.starts, ledger.observedAt)

\* Nobody outlives its lifetime, and who passed the recheck was born in time.
Timely(p) ==
    /\ at[p] # "idle" => born[p] <= now /\ now <= born[p] + Lifetime
    /\ at[p] \in Sworn => born[p] < LaunchUntil(mine[p]) + Lag[p]
    /\ at[p] \in Counting => time[p] <= Clock(p) /\ ledgerRead[p].observedAt <= time[p]

LaunchesTimely == \A x \in launches : now <= x.by

\* What a claim does to the record it replaces: the first attempt, the next
\* generation, or the same attempt with a later retry.
Succeeds(b, a) ==
    \/ a = NoWork /\ b.generation = 0
    \/ a # NoWork /\ b.generation = a.generation + 1
    \/ /\ a # NoWork /\ b.generation = a.generation /\ b.created = a.created
       /\ b.launchRetryAt > a.launchRetryAt

Blank(a) == ~a.launched /\ ~a.completed /\ ~a.denied

\* a is the attempt behind record b, or an earlier one of the same work.
Precedes(a, b) ==
    \/ a.generation < b.generation
    \/ a.generation = b.generation /\ a.created = b.created /\ a.launchRetryAt <= b.launchRetryAt

Claiming(p) ==
    /\ at[p] = "claim" => Blank(mine[p]) /\ Succeeds(mine[p], read[p])
    /\ at[p] \in Launching => /\ Blank(mine[p]) /\ Exists(target[p])
                              /\ Precedes(mine[p], work[target[p]])

\* No two invocations own the same record.
Distinct ==
    \A p, q \in Lambdas : p # q /\ at[p] \in Launching /\ at[q] \in Launching
                          /\ target[p] = target[q] => mine[p] # mine[q]

\* The deadlines that ledgers, records and invocations give to jobs.
StampsIn(reservations) == {<<r.job, r.launchUntil>> : r \in reservations}
StampOf(p) == <<JobOf(p, mine[p]), LaunchUntil(mine[p])>>
Stamps ==
    StampsIn(ledger.reservations)
    \cup {<<CurrentJob(w), LaunchUntil(work[w])>> : w \in {v \in Works : Exists(v)}}
    \cup {StampOf(p) : p \in {q \in Lambdas : at[q] \in Launching}}
    \cup UNION {StampsIn(ledgerRead[p].reservations) : p \in Lambdas}

Claimed(j) == Exists(j[1]) /\ j[2] <= work[j[1]].generation

OneDeadline ==
    /\ \A a, b \in Stamps : a[1] = b[1] => a[2] = b[2]
    /\ \A a \in Stamps : Claimed(a[1])

\* The job has been, is being or may yet be launched.
Touched(j) ==
    \/ instances[j] # "none"
    \/ \E x \in launches : x.job = j
    \/ \E p \in Lambdas : at[p] \in Sending /\ JobOf(p, mine[p]) = j

Reserved(j, until) == \E r \in ledger.reservations : r.job = j /\ r.launchUntil = until

\* The ledger shows the slot, or is too late for anyone who could be denied.
Held(j, until) == Reserved(j, until) \/ ledger.observedAt > until + Fence

\* Who has read a result has a worker; so has a stored result.
ResultsAreEarned ==
    /\ \A j \in Jobs : terminal[j] # "none" \/ j \in completions => instances[j] # "none"
    /\ \A p \in Lambdas : at[p] \in Completing => instances[JobOf(p, mine[p])] # "none"

TouchedIsHeld ==
    /\ \A j \in Jobs : Touched(j) => Claimed(j)
    /\ \A w \in Works : Exists(w) /\ Touched(CurrentJob(w)) =>
          Held(CurrentJob(w), LaunchUntil(work[w]))
    /\ \A p \in Lambdas : at[p] \in Holding => Held(JobOf(p, mine[p]), LaunchUntil(mine[p]))

\* A reservation of its own is never among those an invocation counts, and it
\* gives up only what it has found releasable.
Finished(r) ==
    \/ instances[r.job] = "terminated"
    \/ /\ Ambiguity # 0 /\ instances[r.job] = "none"
       /\ now > r.launchUntil + Fence + Ambiguity

Counts(p) ==
    at[p] \in Counting =>
        /\ kept[p] \subseteq ledgerRead[p].reservations
        /\ \A r \in ledgerRead[p].reservations :
              /\ r.job # JobOf(p, mine[p])
              /\ r \notin kept[p] => /\ time[p] > r.launchUntil + Fence
                                     /\ MaxActive > 0 => Finished(r)

DeniedUntouched ==
    /\ \A w \in Works : Exists(w) /\ work[w].denied =>
          WellFormed(work[w]) /\ ~Touched(CurrentJob(w))
    /\ \A p \in Lambdas : at[p] = "deny" /\ work[target[p]] = mine[p] =>
          ~Touched(JobOf(p, mine[p]))

\* A limit on workers: every worker that runs or may start has its slot.
Slots ==
    MaxActive > 0 =>
    /\ IsFiniteSet(ledger.reservations) /\ Cardinality(ledger.reservations) <= MaxActive
    /\ \A j \in Alive : \E r \in ledger.reservations : r.job = j
    /\ \A x \in launches :
          \/ instances[x.job] = "terminated"
          \/ \E r \in ledger.reservations :
                r.job = x.job /\ (Ambiguity # 0 => x.by < r.launchUntil + Fence + Ambiguity)
    /\ \A p \in Lambdas : at[p] \in Holding =>
          \/ instances[JobOf(p, mine[p])] = "terminated"
          \/ Reserved(JobOf(p, mine[p]), LaunchUntil(mine[p]))

AdmissionInv ==
    /\ SealInv /\ AdmissionType
    /\ LedgerRemembers /\ BudgetNeverExceeded
    /\ LaunchesTimely /\ Distinct /\ OneDeadline
    /\ \A p \in Lambdas : Timely(p) /\ Claiming(p) /\ Counts(p)
    /\ ResultsAreEarned /\ TouchedIsHeld /\ DeniedUntouched
    /\ Slots

\* All but p's part of the local state stays.
Elsewhere(p) ==
    \A q \in Lambdas \ {p} :
        /\ at'[q] = at[q] /\ target'[q] = target[q] /\ born'[q] = born[q]
        /\ time'[q] = time[q] /\ read'[q] = read[q] /\ mine'[q] = mine[q]
        /\ ledgerRead'[q] = ledgerRead[q] /\ kept'[q] = kept[q]

shared == <<now, work, terminal, ledger, launches, instances, charges>>

-----------------------------------------------------------------------------
\* What another invocation relies on, when time, records and workers stay.
LEMMA OtherStays ==
    ASSUME AdmissionInv, NEW p \in Lambdas, Elsewhere(p), UNCHANGED <<now, work, instances>>,
           NEW q \in Lambdas, q # p
    PROVE  Timely(q)' /\ Claiming(q)' /\ Counts(q)'
<1>1. /\ at'[q] = at[q] /\ target'[q] = target[q] /\ born'[q] = born[q]
      /\ time'[q] = time[q] /\ read'[q] = read[q] /\ mine'[q] = mine[q]
      /\ ledgerRead'[q] = ledgerRead[q] /\ kept'[q] = kept[q]
  BY DEF Elsewhere
<1>2. Timely(q) /\ Claiming(q) /\ Counts(q)
  BY DEF AdmissionInv
<1>3. Timely(q)'
  BY <1>1, <1>2 DEF Timely, Clock, LaunchUntil
<1>4. Claiming(q)'
  BY <1>1, <1>2 DEF Claiming, Exists
<1>5. Counts(q)'
  BY <1>1, <1>2 DEF Counts, Finished, JobOf
<1> QED BY <1>3, <1>4, <1>5

\* The deadlines known after a step of p that learns at most what the ledger says.
LEMMA StampsStay ==
    ASSUME AdmissionInv, NEW p \in Lambdas, Elsewhere(p), UNCHANGED shared,
           at'[p] \in Launching =>
              at[p] \in Launching /\ mine'[p] = mine[p] /\ target'[p] = target[p],
           ledgerRead'[p].reservations \subseteq
              ledgerRead[p].reservations \cup ledger.reservations
    PROVE  OneDeadline'
<1>1. UNCHANGED <<ledger, work>>
  BY DEF shared
<1>2. ASSUME NEW q \in Lambdas, at'[q] \in Launching  PROVE StampOf(q)' \in Stamps
  <2>1. at[q] \in Launching /\ mine'[q] = mine[q] /\ target'[q] = target[q]
    BY <1>2 DEF Elsewhere
  <2>2. StampOf(q)' = StampOf(q)
    BY <2>1 DEF StampOf, JobOf, LaunchUntil
  <2> QED BY <2>1, <2>2 DEF Stamps
<1>3. ASSUME NEW q \in Lambdas, NEW r \in ledgerRead'[q].reservations
      PROVE  <<r.job, r.launchUntil>> \in Stamps
  BY <1>3 DEF Elsewhere, Stamps, StampsIn
<1>4. \A a \in Stamps' : a \in Stamps
  <2> SUFFICES ASSUME NEW a \in Stamps' PROVE a \in Stamps
    OBVIOUS
  <2>1. CASE a \in StampsIn(ledger'.reservations)
    BY <1>1, <2>1 DEF Stamps
  <2>2. CASE a \in {<<CurrentJob(w), LaunchUntil(work[w])>> : w \in {v \in Works : Exists(v)}}'
    BY <1>1, <2>2 DEF Stamps, Exists, CurrentJob, LaunchUntil
  <2>3. CASE a \in {StampOf(q) : q \in {x \in Lambdas : at[x] \in Launching}}'
    BY <1>2, <2>3
  <2>4. CASE a \in UNION {StampsIn(ledgerRead'[q].reservations) : q \in Lambdas}
    BY <1>3, <2>4 DEF StampsIn
  <2> QED BY <2>1, <2>2, <2>3, <2>4 DEF Stamps
<1>5. \A j : Claimed(j) => Claimed(j)'
  BY <1>1 DEF Claimed, Exists
<1> QED BY <1>4, <1>5 DEF AdmissionInv, OneDeadline

\* A step of p on its own state keeps the invariant, if p keeps its part.
LEMMA Quiet ==
    ASSUME AdmissionInv, SealInv', AdmissionType', NEW p \in Lambdas, Elsewhere(p),
           UNCHANGED shared,
           \A j \in completions' : j \in completions \/ instances[j] # "none",
           Timely(p)', Claiming(p)', Counts(p)',
           at'[p] \in Launching =>
              at[p] \in Launching /\ mine'[p] = mine[p] /\ target'[p] = target[p],
           at'[p] \in Completing => instances[JobOf(p, mine[p])'] # "none",
           at'[p] \in Holding =>
              at[p] \in Holding \/ Reserved(JobOf(p, mine[p]), LaunchUntil(mine[p])),
           at'[p] \in Sending =>
              at[p] \in Sending \/ (at[p] = "fresh" /\ work[target[p]] = mine[p]),
           at'[p] = "deny" => at[p] = "deny",
           ledgerRead'[p].reservations \subseteq
              ledgerRead[p].reservations \cup ledger.reservations
    PROVE  AdmissionInv'
<1>1. UNCHANGED <<now, work, terminal, ledger, launches, instances, charges>>
  BY DEF shared
<1>2. ASSUME NEW q \in Lambdas  PROVE Timely(q)' /\ Claiming(q)' /\ Counts(q)'
  BY <1>1, OtherStays
<1>3. OneDeadline'
  BY StampsStay
<1>4. LedgerRemembers' /\ BudgetNeverExceeded' /\ LaunchesTimely'
  BY <1>1 DEF AdmissionInv, LedgerRemembers, BudgetNeverExceeded, LaunchesTimely
<1>5. ASSUME NEW q \in Lambdas, at'[q] \in Launching
      PROVE  /\ at[q] \in Launching /\ mine'[q] = mine[q] /\ target'[q] = target[q]
             /\ JobOf(q, mine[q])' = JobOf(q, mine[q])
             /\ LaunchUntil(mine[q])' = LaunchUntil(mine[q])
  BY <1>5 DEF Elsewhere, JobOf, LaunchUntil
<1>6. Distinct'
  BY <1>5 DEF AdmissionInv, Distinct
<1>7. ResultsAreEarned'
  <2>1. ASSUME NEW q \in Lambdas, at'[q] \in Completing
        PROVE  instances[JobOf(q, mine[q])'] # "none"
    BY <2>1 DEF Elsewhere, JobOf, AdmissionInv, ResultsAreEarned
  <2>2. \A j \in Jobs : terminal[j] # "none" \/ j \in completions' => instances[j] # "none"
    BY DEF AdmissionInv, ResultsAreEarned
  <2> QED BY <1>1, <2>1, <2>2 DEF ResultsAreEarned
<1>8. Sending \subseteq Holding /\ Holding \subseteq Launching /\ "deny" \in Launching
      /\ "fresh" \in Holding
  BY DEF Sending, Holding, Launching
<1>9. ASSUME NEW q \in Lambdas, at'[q] \in Sending
      PROVE  \/ at[q] \in Sending
             \/ q = p /\ at[q] = "fresh" /\ work[target[q]] = mine[q]
  BY <1>9 DEF Elsewhere
<1>10. ASSUME NEW q \in Lambdas, at'[q] \in Holding
       PROVE  Held(JobOf(q, mine[q]), LaunchUntil(mine[q]))
  BY <1>10 DEF Elsewhere, Held, AdmissionInv, TouchedIsHeld
<1>11. ASSUME NEW j, Touched(j)'
       PROVE  \/ Touched(j)
              \/ /\ at[p] = "fresh" /\ work[target[p]] = mine[p] /\ JobOf(p, mine[p]) = j
                 /\ at'[p] \in Sending
  BY <1>1, <1>5, <1>8, <1>9, <1>11 DEF Touched
<1>12. \A j, until : Held(j, until)' <=> Held(j, until)
  BY <1>1 DEF Held, Reserved
<1>13. /\ \A j : Claimed(j)' <=> Claimed(j)
       /\ \A w \in Works : /\ Exists(w)' <=> Exists(w)
                           /\ CurrentJob(w)' = CurrentJob(w)
                           /\ LaunchUntil(work[w])' = LaunchUntil(work[w])
  BY <1>1 DEF Claimed, Exists, CurrentJob, LaunchUntil
<1>14. ASSUME at[p] = "fresh", work[target[p]] = mine[p]
       PROVE  /\ target[p] \in Works /\ Exists(target[p]) /\ Blank(mine[p])
              /\ CurrentJob(target[p]) = JobOf(p, mine[p]) /\ Claimed(JobOf(p, mine[p]))
              /\ Held(JobOf(p, mine[p]), LaunchUntil(mine[p]))
  <2>1. target[p] \in Works /\ Exists(target[p]) /\ Blank(mine[p]) /\ Dated(mine[p])
    BY <1>8, <1>14 DEF AdmissionInv, SealInv, LocalInv, Deciding, Unsealed, Claiming
  <2>2. CurrentJob(target[p]) = JobOf(p, mine[p]) /\ Claimed(JobOf(p, mine[p]))
    BY <1>14, <2>1 DEF CurrentJob, JobOf, Claimed, Dated, Attempt
  <2>3. Held(JobOf(p, mine[p]), LaunchUntil(mine[p]))
    BY <1>8, <1>14 DEF AdmissionInv, TouchedIsHeld
  <2> QED BY <2>1, <2>2, <2>3
<1>15. TouchedIsHeld'
  <2>1. ASSUME NEW j \in Jobs, Touched(j)'  PROVE Claimed(j)
    BY <1>11, <1>14, <2>1 DEF AdmissionInv, TouchedIsHeld
  <2>2. ASSUME NEW w \in Works, Exists(w), Touched(CurrentJob(w))'
        PROVE  Held(CurrentJob(w), LaunchUntil(work[w]))
    <3>1. Touched(CurrentJob(w)) => Held(CurrentJob(w), LaunchUntil(work[w]))
      BY <2>2 DEF AdmissionInv, TouchedIsHeld
    <3>2. PICK j : j = CurrentJob(w) /\ Touched(j)'
      BY <1>13, <2>2
    <3>3. CASE ~Touched(j)
      <4>1. at[p] = "fresh" /\ work[target[p]] = mine[p] /\ JobOf(p, mine[p]) = j
        BY <1>11, <3>2, <3>3
      <4>2. w = target[p]
        BY <3>2, <4>1 DEF JobOf, CurrentJob
      <4> QED BY <1>14, <3>2, <4>1, <4>2
    <3> QED BY <3>1, <3>2, <3>3
  <2>3. \A w \in Works : Exists(w)' /\ Touched(CurrentJob(w))' =>
          Held(CurrentJob(w), LaunchUntil(work[w]))'
    BY <1>12, <1>13, <2>2
  <2>4. \A q \in Lambdas : at'[q] \in Holding => Held(JobOf(q, mine[q]), LaunchUntil(mine[q]))'
    BY <1>5, <1>8, <1>10, <1>12
  <2>5. \A j \in Jobs : Touched(j)' => Claimed(j)'
    BY <1>13, <2>1
  <2> QED BY <2>3, <2>4, <2>5 DEF TouchedIsHeld
<1>16. DeniedUntouched'
  <2>1. ASSUME NEW w \in Works, Exists(w), work[w].denied
        PROVE  WellFormed(work[w]) /\ ~Touched(CurrentJob(w))'
    <3>1. WellFormed(work[w]) /\ ~Touched(CurrentJob(w))
      BY <2>1 DEF AdmissionInv, DeniedUntouched
    <3>2. ASSUME NEW j, j = CurrentJob(w), Touched(j)'  PROVE FALSE
      <4>1. at[p] = "fresh" /\ work[target[p]] = mine[p] /\ JobOf(p, mine[p]) = j
        BY <1>11, <3>1, <3>2
      <4>2. w = target[p] /\ ~mine[p].denied
        BY <1>14, <3>2, <4>1 DEF JobOf, CurrentJob, Blank
      <4> QED BY <2>1, <4>1, <4>2
    <3> QED BY <1>13, <3>1, <3>2
  <2>2. ASSUME NEW q \in Lambdas, at'[q] = "deny", work[target'[q]] = mine'[q]
        PROVE  ~Touched(JobOf(q, mine[q]))'
    <3>1. /\ at[q] = "deny" /\ mine'[q] = mine[q] /\ target'[q] = target[q]
          /\ JobOf(q, mine[q])' = JobOf(q, mine[q]) /\ at[q] \in Launching
      BY <1>5, <1>8, <2>2 DEF Elsewhere
    <3>2. ~Touched(JobOf(q, mine[q]))
      BY <2>2, <3>1 DEF AdmissionInv, DeniedUntouched
    <3>3. ASSUME NEW j, j = JobOf(q, mine[q]), Touched(j)'  PROVE FALSE
      <4>1. at[p] = "fresh" /\ work[target[p]] = mine[p] /\ JobOf(p, mine[p]) = j
        BY <1>11, <3>2, <3>3
      <4>2. target[p] = target[q] /\ mine[p] = mine[q] /\ p # q
        BY <2>2, <3>1, <3>3, <4>1 DEF JobOf
      <4> QED BY <1>8, <3>1, <4>1, <4>2 DEF AdmissionInv, Distinct
    <3> QED BY <3>1, <3>3
  <2> QED BY <1>1, <1>13, <2>1, <2>2 DEF DeniedUntouched, WellFormed
<1>17. Slots'
  <2>1. Alive' = Alive
    BY <1>1 DEF Alive
  <2>2. ASSUME MaxActive > 0, NEW q \in Lambdas, at'[q] \in Holding
        PROVE  \/ instances[JobOf(q, mine[q])] = "terminated"
               \/ Reserved(JobOf(q, mine[q]), LaunchUntil(mine[q]))
    BY <2>2 DEF Elsewhere, AdmissionInv, Slots
  <2>3. ASSUME MaxActive > 0, NEW q \in Lambdas, at'[q] \in Holding
        PROVE  \/ instances[JobOf(q, mine[q])]' = "terminated"
               \/ Reserved(JobOf(q, mine[q]), LaunchUntil(mine[q]))'
    BY <1>1, <1>5, <1>8, <2>2, <2>3 DEF Reserved
  <2>4. MaxActive > 0 =>
          /\ IsFiniteSet(ledger.reservations)' /\ (Cardinality(ledger.reservations) <= MaxActive)'
          /\ (\A j \in Alive : \E r \in ledger.reservations : r.job = j)'
          /\ (\A x \in launches :
               \/ instances[x.job] = "terminated"
               \/ \E r \in ledger.reservations :
                    r.job = x.job /\ (Ambiguity # 0 => x.by < r.launchUntil + Fence + Ambiguity))'
    BY <1>1, <2>1 DEF AdmissionInv, Slots
  <2> QED BY <2>3, <2>4 DEF Slots
<1> QED BY <1>2, <1>3, <1>4, <1>6, <1>7, <1>15, <1>16, <1>17 DEF AdmissionInv

-----------------------------------------------------------------------------
(* Steps on an invocation's own state *)

\* A ledger nobody has written.
LEMMA EmptyLedgerType == EmptyLedger \in Ledger /\ EmptyLedger.reservations = {}
BY DEF EmptyLedger, Ledger

\* The places by their roles.
LEMMA PlacesApart ==
    /\ Sworn \subseteq Launching /\ Counting \subseteq Sworn /\ Holding \subseteq Sworn
    /\ Sending \subseteq Holding /\ Completing \cap Launching = {}
    /\ "deny" \in Sworn \ Holding /\ "fresh" \in Holding \ Sending
    /\ \A x \in {"idle", "work", "inspect", "claim"} : x \notin Launching \cup Completing
BY DEF Sworn, Counting, Holding, Sending, Launching, Completing

\* An invocation that ends takes nothing with it.
LEMMA ReturnQuiet ==
    ASSUME AdmissionInv, SealInv', NEW p \in Lambdas, Return(p), UNCHANGED shared,
           UNCHANGED completions
    PROVE  AdmissionInv'
<1>1. Elsewhere(p)
  BY DEF Elsewhere, Return, Goto, AdmissionInv, SealInv, LocalType, AdmissionType
<1>2. AdmissionType'
  BY EmptyLedgerType DEF Return, AdmissionInv, AdmissionType, shared
<1>3. at'[p] = "idle" /\ ledgerRead'[p].reservations = {}
  BY EmptyLedgerType DEF Return, Goto, AdmissionInv, SealInv, LocalType, AdmissionType
<1>4. Timely(p)' /\ Claiming(p)' /\ Counts(p)'
  BY <1>3, PlacesApart DEF Timely, Claiming, Counts
<1>5. at'[p] \notin Launching \cup Completing \cup Holding \cup Sending /\ at'[p] # "deny"
  BY <1>3, PlacesApart
<1> QED BY <1>1, <1>2, <1>3, <1>4, <1>5, Quiet

\* The clock an invocation reads.
LEMMA ClockType ==
    ASSUME SealInv, NEW p \in Lambdas
    PROVE  /\ Clock(p) \in Nat /\ Lag[p] \in Nat /\ now \in Nat /\ Clock(p) = now - Lag[p]
           /\ Clock(p) > 0
BY JobConstantsAssumption DEF Clock, Clocks, SealInv, SharedType

\* A new round of the retry loop.
LEMMA RetryQuiet ==
    ASSUME AdmissionInv, SealInv', NEW p \in Lambdas, at[p] # "idle", Retry(p),
           UNCHANGED shared, UNCHANGED completions
    PROVE  AdmissionInv'
<1>1. Elsewhere(p)
  BY DEF Elsewhere, Retry, Goto, AdmissionInv, SealInv, LocalType, AdmissionType
<1>2. AdmissionType'
  BY DEF Retry, AdmissionInv, AdmissionType, shared
<1>3. at'[p] = "work" /\ ledgerRead' = ledgerRead /\ born' = born /\ now' = now
  BY DEF Retry, Goto, AdmissionInv, SealInv, LocalType, shared
<1>4. at'[p] \notin Launching \cup Completing \cup Holding \cup Sending \cup Sworn \cup Counting
      /\ at'[p] # "deny" /\ at'[p] # "claim"
  BY <1>3, PlacesApart
<1>5. Timely(p)' /\ Claiming(p)' /\ Counts(p)'
  BY <1>3, <1>4 DEF Timely, Claiming, Counts, AdmissionInv
<1> QED BY <1>1, <1>2, <1>3, <1>4, <1>5, Quiet

\* A submission or a poll begins.
LEMMA BeginQuiet ==
    ASSUME AdmissionInv, SealInv', NEW p \in Lambdas,
           \/ \E w \in Works : Submit(p, w)
           \/ \E j \in Jobs : Poll(p, j)
    PROVE  AdmissionInv'
<1>1. Elsewhere(p) /\ UNCHANGED shared /\ UNCHANGED completions
  BY DEF Elsewhere, Submit, Poll, Goto, AdmissionInv, SealInv, LocalType, AdmissionType,
         shared, objects, ec2
<1>2. now \in Nat /\ born' = [born EXCEPT ![p] = now]
  BY DEF Submit, Poll, AdmissionInv, SealInv, SharedType
<1>3. AdmissionType'
  BY <1>1, <1>2 DEF Submit, Poll, AdmissionInv, AdmissionType, shared
<1>4. /\ at'[p] \in {"work", "retain"} /\ ledgerRead' = ledgerRead /\ now' = now
      /\ born'[p] = now
  BY <1>1, <1>2 DEF Submit, Poll, Goto, AdmissionInv, SealInv, LocalType, AdmissionType, shared
<1>5. at'[p] \notin Launching \cup Holding \cup Sending \cup Sworn \cup Counting
      /\ at'[p] # "deny" /\ at'[p] # "claim"
  BY <1>4, PlacesApart DEF Completing
<1>6. Timely(p)' /\ Claiming(p)' /\ Counts(p)'
  BY <1>2, <1>4, <1>5, JobConstantsAssumption DEF Timely, Claiming, Counts
<1>7. at'[p] \in Completing => instances[JobOf(p, mine[p])'] # "none"
  <2> SUFFICES ASSUME at'[p] \in Completing PROVE instances[JobOf(p, mine[p])'] # "none"
    OBVIOUS
  <2>1. at'[p] # "work"
    BY PlacesApart
  <2>2. PICK j \in Jobs : Poll(p, j)
    BY <2>1 DEF Submit, Goto, AdmissionInv, SealInv, LocalType
  <2>3. JobOf(p, mine[p])' = j
    BY <2>2 DEF Poll, JobOf, NewAttempt, AdmissionInv, SealInv, LocalType, Jobs
  <2>4. instances[j] # "none"
    BY <2>2 DEF Poll, CompletionOf, AdmissionInv, ResultsAreEarned
  <2> QED BY <2>3, <2>4
<1> QED BY <1>1, <1>3, <1>4, <1>5, <1>6, <1>7, Quiet

\* The record is read; a first attempt is planned when there is none.
LEMMA ReadWorkQuiet ==
    ASSUME AdmissionInv, SealInv', NEW p \in Lambdas, ReadWork(p)
    PROVE  AdmissionInv'
<1>1. Elsewhere(p) /\ UNCHANGED shared /\ UNCHANGED completions
  BY DEF Elsewhere, ReadWork, Goto, AdmissionInv, SealInv, LocalType, AdmissionType,
         shared, objects, ec2
<1>2. AdmissionType'
  BY <1>1 DEF ReadWork, AdmissionInv, AdmissionType, shared
<1>3. /\ at'[p] \in {"claim", "inspect"} /\ ledgerRead' = ledgerRead /\ now' = now /\ born' = born
      /\ at'[p] = "claim" => read'[p] = NoWork /\ mine'[p] = NewAttempt(0, time[p])
  BY <1>1 DEF ReadWork, Goto, AdmissionInv, SealInv, LocalType, shared
<1>4. at'[p] \notin Launching \cup Completing \cup Holding \cup Sending \cup Sworn \cup Counting
      /\ at'[p] # "deny"
  BY <1>3, PlacesApart
<1>5. Timely(p)' /\ Counts(p)'
  BY <1>3, <1>4 DEF Timely, Counts, AdmissionInv, ReadWork
<1>6. Claiming(p)'
  BY <1>3, <1>4 DEF Claiming, NewAttempt, Blank, Succeeds
<1> QED BY <1>1, <1>2, <1>3, <1>4, <1>5, <1>6, Quiet

\* The next attempt is planned, or a completion found.
LEMMA PlanQuiet ==
    ASSUME AdmissionInv, SealInv', NEW p \in Lambdas, FindCompletion(p) \/ PlanAttempt(p)
    PROVE  AdmissionInv'
<1>1. Elsewhere(p) /\ UNCHANGED shared /\ UNCHANGED completions
  BY DEF Elsewhere, FindCompletion, PlanAttempt, Goto, AdmissionInv, SealInv, LocalType,
         AdmissionType, shared, objects, ec2
<1>2. AdmissionType'
  BY <1>1 DEF FindCompletion, PlanAttempt, AdmissionInv, AdmissionType, shared
<1>3. /\ (FindCompletion(p) /\ at'[p] = "retain") \/ (PlanAttempt(p) /\ at'[p] = "claim")
      /\ ledgerRead' = ledgerRead /\ now' = now /\ born' = born
      /\ read' = read /\ target' = target /\ at[p] = "inspect"
  BY <1>1 DEF FindCompletion, PlanAttempt, Goto, AdmissionInv, SealInv, LocalType, shared
<1>4. at'[p] \notin Launching \cup Holding \cup Sending \cup Sworn \cup Counting
      /\ at'[p] # "deny"
  BY <1>3, PlacesApart DEF Completing
<1>5. Timely(p)' /\ Counts(p)'
  BY <1>3, <1>4 DEF Timely, Counts, AdmissionInv
<1>6. Dated(read[p]) /\ target[p] \in Works
  BY <1>3 DEF AdmissionInv, SealInv, LocalInv, Deciding
<1>7. Claiming(p)'
  <2>1. CASE FindCompletion(p) /\ at'[p] = "retain"
    BY <1>4, <2>1 DEF Claiming
  <2>2. CASE PlanAttempt(p) /\ at'[p] = "claim"
    <3> DEFINE a == read[p]
               later == [generation |-> a.generation, created |-> a.created,
                         launchRetryAt |-> time[p] + RetryDelay, launched |-> FALSE,
                         completed |-> FALSE, denied |-> FALSE]
    <3>1. a # NoWork
      BY <1>6, NoWorkIsNoAttempt DEF Dated
    <3>2. \/ mine'[p] = NewAttempt(a.generation + 1, time[p])
          \/ mine'[p] = later /\ Resumes(p, a)
      BY <2>2 DEF PlanAttempt, AdmissionInv, SealInv, LocalType
    <3>3. CASE mine'[p] = NewAttempt(a.generation + 1, time[p])
      BY <1>3, <1>4, <3>1, <3>3 DEF Claiming, NewAttempt, Blank, Succeeds
    <3>4. CASE mine'[p] = later /\ Resumes(p, a)
      <4>1. time[p] + RetryDelay > a.launchRetryAt
        BY <1>6, <3>4, JobConstantsAssumption
           DEF Resumes, Dated, Attempt, AdmissionInv, SealInv, LocalType
      <4>2. Blank(later) /\ Succeeds(later, a)
        BY <3>1, <4>1 DEF Blank, Succeeds
      <4> QED BY <1>3, <1>4, <3>4, <4>2 DEF Claiming
    <3> QED BY <3>2, <3>3, <3>4
  <2> QED BY <1>3, <2>1, <2>2
<1>8. at'[p] \in Completing => instances[JobOf(p, mine[p])'] # "none"
  <2>1. CASE FindCompletion(p) /\ at'[p] = "retain"
    <3>1. JobOf(p, mine[p])' = JobOf(p, read[p]) /\ JobOf(p, read[p]) \in Jobs
      BY <1>3, <1>6, <2>1, JobInJobs
         DEF FindCompletion, JobOf, AdmissionInv, SealInv, LocalType, Dated
    <3>2. instances[JobOf(p, read[p])] # "none"
      BY <2>1, <3>1 DEF FindCompletion, CompletionOf, AdmissionInv, ResultsAreEarned
    <3> QED BY <3>1, <3>2
  <2>2. CASE PlanAttempt(p) /\ at'[p] = "claim"
    BY <2>2, PlacesApart
  <2> QED BY <1>3, <2>1, <2>2
<1> QED BY <1>1, <1>2, <1>3, <1>4, <1>5, <1>7, <1>8, Quiet

\* Retaining a result, and reading the record for the seal.
LEMMA CompletingQuiet ==
    ASSUME AdmissionInv, SealInv', NEW p \in Lambdas, at[p] \in Completing,
           NEW place \in Completing, Goto(p, place),
           UNCHANGED <<shared, target, born, mine, ledgerRead, kept>>,
           time' = [time EXCEPT ![p] = time'[p]], read' = [read EXCEPT ![p] = read'[p]],
           \A j \in completions' : j \in completions \/ j = JobOf(p, mine[p])
    PROVE  AdmissionInv'
<1>1. Elsewhere(p)
  BY DEF Elsewhere, Goto, AdmissionInv, SealInv, LocalType, AdmissionType
<1>2. AdmissionType'
  BY DEF AdmissionInv, AdmissionType, shared
<1>3. at'[p] = place /\ now' = now
  BY DEF Goto, AdmissionInv, SealInv, LocalType, shared
<1>4. at'[p] \notin Launching \cup Holding \cup Sending \cup Sworn \cup Counting
      /\ at'[p] # "deny" /\ at'[p] # "claim" /\ at[p] # "idle"
  BY <1>3, PlacesApart DEF Completing
<1>5. Timely(p)' /\ Claiming(p)' /\ Counts(p)'
  BY <1>3, <1>4 DEF Timely, Claiming, Counts, AdmissionInv
<1>6. instances[JobOf(p, mine[p])] # "none" /\ JobOf(p, mine[p])' = JobOf(p, mine[p])
  BY DEF AdmissionInv, ResultsAreEarned, JobOf
<1> QED BY <1>1, <1>2, <1>3, <1>4, <1>5, <1>6, Quiet

\* The steps of completion that write no record.
LEMMA CompletionQuiet ==
    ASSUME AdmissionInv, SealInv', NEW p \in Lambdas,
           Retain(p) \/ RetainRequest(p) \/ Seal(p) \/ Publish(p)
    PROVE  AdmissionInv'
<1>1. CASE Retain(p)
  BY <1>1, CompletingQuiet
     DEF Retain, Step, locals, shared, ec2, Completing, AdmissionInv, SealInv, LocalType
<1>2. CASE RetainRequest(p)
  BY <1>2, CompletingQuiet
     DEF RetainRequest, Step, locals, shared, ec2, Completing, AdmissionInv, SealInv, LocalType
<1>3. CASE Seal(p)
  <2>1. UNCHANGED <<shared, completions>> /\ at[p] \in Completing
    BY <1>3 DEF Seal, shared, objects, ec2, Completing
  <2>2. CASE Return(p)
    BY <2>1, <2>2, ReturnQuiet
  <2>3. CASE ~Return(p)
    BY <1>3, <2>1, <2>3, CompletingQuiet
       DEF Seal, Completing, AdmissionInv, SealInv, LocalType
  <2> QED BY <2>2, <2>3
<1>4. CASE Publish(p)
  BY <1>4, ReturnQuiet DEF Publish, shared, ec2
<1> QED BY <1>1, <1>2, <1>3, <1>4

\* Answers and failures.
LEMMA EndsQuiet ==
    ASSUME AdmissionInv, SealInv', NEW p \in Lambdas,
           Reconnect(p) \/ PrecheckFails(p) \/ LaunchFails(p) \/ Abort(p)
    PROVE  AdmissionInv'
<1>1. Return(p) /\ UNCHANGED <<shared, completions>>
  BY DEF Reconnect, PrecheckFails, LaunchFails, Abort, shared, objects, ec2
<1> QED BY <1>1, ReturnQuiet

\* Steps of a launch that only move on, for an invocation that keeps to its place.
LEMMA LaunchingQuiet ==
    ASSUME AdmissionInv, SealInv', NEW p \in Lambdas, at[p] \in Launching,
           NEW place \in Launching, Goto(p, place),
           UNCHANGED <<shared, completions, target, born, mine, read>>,
           time' = [time EXCEPT ![p] = time'[p]],
           ledgerRead' = [ledgerRead EXCEPT ![p] = ledgerRead'[p]],
           kept' = [kept EXCEPT ![p] = kept'[p]],
           ledgerRead'[p] \in Ledger, kept'[p] \subseteq Reservation,
           ledgerRead'[p].reservations \subseteq
              ledgerRead[p].reservations \cup ledger.reservations,
           place \in Sworn => at[p] \in Sworn \/ Clock(p) < LaunchUntil(mine[p]),
           place \in Counting => time'[p] <= Clock(p) /\ ledgerRead'[p].observedAt <= time'[p],
           Counts(p)',
           place \in Holding =>
              at[p] \in Holding \/ Reserved(JobOf(p, mine[p]), LaunchUntil(mine[p])),
           place \in Sending => at[p] = "fresh" /\ work[target[p]] = mine[p],
           place # "deny"
    PROVE  AdmissionInv'
<1>1. Elsewhere(p)
  BY DEF Elsewhere, Goto, AdmissionInv, SealInv, LocalType, AdmissionType
<1>2. AdmissionType'
  BY DEF AdmissionInv, AdmissionType, shared
<1>3. at'[p] = place /\ now' = now /\ work' = work /\ at[p] # "idle"
  BY PlacesApart DEF Goto, AdmissionInv, SealInv, LocalType, shared
<1>4. Timely(p) /\ Claiming(p) /\ Dated(mine[p]) /\ born[p] \in Nat
  BY DEF AdmissionInv, SealInv, LocalInv, Unsealed, AdmissionType
<1>5. born[p] <= now /\ now <= born[p] + Lifetime
  BY <1>3, <1>4 DEF Timely
<1>6. Clock(p) < LaunchUntil(mine[p]) => born[p] < LaunchUntil(mine[p]) + Lag[p]
  <2>1. Clock(p) \in Nat /\ Lag[p] \in Nat /\ now \in Nat /\ Clock(p) = now - Lag[p]
    BY ClockType DEF AdmissionInv
  <2>2. LaunchUntil(mine[p]) \in Nat
    BY <1>4, JobConstantsAssumption DEF LaunchUntil, Dated, Attempt
  <2> QED BY <1>4, <1>5, <2>1, <2>2
<1>7. Timely(p)'
  BY <1>3, <1>4, <1>5, <1>6 DEF Timely, Clock, LaunchUntil
<1>8. Claiming(p)'
  BY <1>3, <1>4, PlacesApart DEF Claiming, Exists
<1>9. place \notin Completing
  BY PlacesApart
<1> QED BY <1>1, <1>2, <1>3, <1>7, <1>8, <1>9, Quiet

\* A move that leaves the counting behind.
LEMMA StepQuiet ==
    ASSUME AdmissionInv, SealInv', NEW p \in Lambdas, at[p] \in Launching,
           NEW place \in Launching, Step(p, place), UNCHANGED <<shared, completions>>,
           place \in Sworn => at[p] \in Sworn \/ Clock(p) < LaunchUntil(mine[p]),
           place \notin Counting, place # "deny",
           place \in Holding =>
              at[p] \in Holding \/ Reserved(JobOf(p, mine[p]), LaunchUntil(mine[p])),
           place \in Sending => at[p] = "fresh" /\ work[target[p]] = mine[p]
    PROVE  AdmissionInv'
<1>1. /\ Goto(p, place) /\ UNCHANGED <<target, born, time, read, mine, ledgerRead, kept>>
      /\ at'[p] = place
  BY DEF Step, Goto, locals, AdmissionInv, SealInv, LocalType
<1>2. Counts(p)'
  BY <1>1 DEF Counts
<1>3. /\ time' = [time EXCEPT ![p] = time'[p]]
      /\ ledgerRead' = [ledgerRead EXCEPT ![p] = ledgerRead'[p]]
      /\ kept' = [kept EXCEPT ![p] = kept'[p]]
      /\ ledgerRead'[p] \in Ledger /\ kept'[p] \subseteq Reservation
      /\ ledgerRead'[p].reservations \subseteq ledgerRead[p].reservations
  BY <1>1 DEF AdmissionInv, SealInv, LocalType, AdmissionType
<1> QED BY <1>1, <1>2, <1>3, LaunchingQuiet

\* The request is written; the attempt and its deadline are checked again.
LEMMA ChecksQuiet ==
    ASSUME AdmissionInv, SealInv', NEW p \in Lambdas, PutRequest(p) \/ Recheck(p) \/ Fresh(p)
    PROVE  AdmissionInv'
<1>1. UNCHANGED <<shared, completions>> /\ at[p] \in Launching
  BY DEF PutRequest, Recheck, Fresh, shared, objects, ec2, Launching
<1>2. CASE PutRequest(p)
  <2>1. Step(p, "recheck") /\ "recheck" \in Launching \ (Sworn \cup Holding \cup Sending \cup Counting)
    BY <1>2 DEF PutRequest, Launching, Sworn, Holding, Sending, Counting
  <2> QED BY <1>1, <2>1, StepQuiet
<1>3. CASE Recheck(p)
  <2>1. "ledger" \in Launching \ (Holding \cup Sending \cup Counting)
    BY DEF Launching, Holding, Sending, Counting
  <2>2. CASE Owns(p) /\ Step(p, "ledger")
    BY <1>1, <2>1, <2>2, StepQuiet DEF Owns
  <2>3. CASE Return(p)
    BY <1>1, <2>3, ReturnQuiet
  <2> QED BY <1>3, <2>2, <2>3 DEF Recheck
<1>4. CASE Fresh(p)
  <2>1. "launch" \in Launching \ Counting /\ at[p] \in Sworn \cap Holding
    BY <1>4 DEF Fresh, Launching, Sworn, Holding, Counting
  <2>2. CASE Owns(p) /\ Step(p, "launch")
    BY <1>1, <1>4, <2>1, <2>2, StepQuiet DEF Owns, Fresh
  <2>3. CASE Return(p)
    BY <1>1, <2>3, ReturnQuiet
  <2> QED BY <1>4, <2>2, <2>3 DEF Fresh
<1> QED BY <1>2, <1>3, <1>4

\* A released reservation is past its fence; under a limit on workers its
\* worker is gone or can no longer come.
LEMMA ReleasableFinished ==
    ASSUME AdmissionInv, NEW p \in Lambdas, NEW r \in Reservation, NEW t \in Nat,
           t <= Clock(p), Releasable(r, t)
    PROVE  t > r.launchUntil + Fence /\ (MaxActive > 0 => Finished(r))
<1>1. Clock(p) \in Nat /\ Lag[p] \in Nat /\ now \in Nat /\ Clock(p) = now - Lag[p]
  BY ClockType DEF AdmissionInv
<1>2. r.launchUntil \in Nat
  BY DEF Reservation
<1>3. Fence \in Nat /\ Ambiguity \in Nat /\ MaxActive \in Nat
  BY JobConstantsAssumption
<1>4. t > r.launchUntil + Fence
  BY <1>2, <1>3 DEF Releasable
<1>5. MaxActive > 0 => Finished(r)
  <2>1. now >= t
    BY <1>1
  <2>2. CASE Ambiguity = 0
    BY <1>3, <2>2 DEF Releasable, Finished
  <2>3. CASE Ambiguity # 0 /\ MaxActive # 0
    <3>1. t > r.launchUntil + Fence + Ambiguity /\ instances[r.job] \in {"none", "terminated"}
      BY <2>3 DEF Releasable
    <3>2. now > r.launchUntil + Fence + Ambiguity
      BY <1>1, <1>2, <1>3, <2>1, <3>1
    <3> QED BY <2>3, <3>1, <3>2 DEF Finished
  <2> QED BY <1>3, <2>2, <2>3
<1> QED BY <1>4, <1>5

\* Reading the ledger and asking for the inventory.
LEMMA LedgerQuiet ==
    ASSUME AdmissionInv, SealInv', NEW p \in Lambdas, ReadLedger(p) \/ QueryInventory(p)
    PROVE  AdmissionInv'
<1>1. UNCHANGED <<shared, completions>> /\ at[p] \in Launching \cap Sworn
  BY DEF ReadLedger, QueryInventory, shared, objects, ec2, Launching, Sworn
<1>2. UNCHANGED <<now, instances>>
  BY <1>1 DEF shared
<1>3. Clock(p) \in Nat
  BY ClockType DEF AdmissionInv
<1>4. /\ ledger \in Ledger /\ ledger.reservations \subseteq Reservation
      /\ ledgerRead[p] \in Ledger /\ ledgerRead[p].reservations \subseteq Reservation
      /\ ledger.observedAt \in Nat
  BY DEF AdmissionInv, AdmissionType, Ledger
<1>5. {"inventory", "charge"} \subseteq Counting \cap Launching \cap Sworn
      /\ {"inventory", "charge"} \cap (Holding \cup Sending) = {}
  BY DEF Counting, Launching, Sworn, Holding, Sending
<1>6. CASE ReadLedger(p)
  <2>1. CASE Return(p)
    BY <1>1, <2>1, ReturnQuiet
  <2>2. CASE Step(p, "fresh") /\ \E r \in ReservationOf(p) : r.launchUntil = LaunchUntil(mine[p])
    <3>1. "fresh" \in Launching \ (Counting \cup Sending)
      BY DEF Launching, Counting, Sending
    <3>2. Reserved(JobOf(p, mine[p]), LaunchUntil(mine[p]))
      BY <2>2 DEF ReservationOf, Reserved
    <3> QED BY <1>1, <2>2, <3>1, <3>2, StepQuiet
  <2>3. CASE ~RolledBack(p) /\ ReservationOf(p) = {}
    <3>1. PICK place \in {"inventory", "charge"} : Goto(p, place)
      BY <1>6, <2>3 DEF ReadLedger
    <3>2. /\ time' = [time EXCEPT ![p] = Clock(p)]
          /\ ledgerRead' = [ledgerRead EXCEPT ![p] = ledger]
          /\ kept' = [kept EXCEPT ![p] = {r \in ledger.reservations : ~Releasable(r, Clock(p))}]
          /\ UNCHANGED <<target, born, read, mine>>
      BY <1>6, <2>3 DEF ReadLedger
    <3>3. /\ time'[p] = Clock(p) /\ ledgerRead'[p] = ledger /\ at'[p] = place
          /\ kept'[p] = {r \in ledger.reservations : ~Releasable(r, Clock(p))}
      BY <3>1, <3>2 DEF Goto, AdmissionInv, SealInv, LocalType, AdmissionType
    <3>4. ledger.observedAt <= Clock(p)
      BY <1>3, <1>4, <2>3 DEF RolledBack
    <3>5. \A r \in ledger.reservations : r.job # JobOf(p, mine[p])
      BY <2>3 DEF ReservationOf
    <3>6. ASSUME NEW r \in ledger.reservations, Releasable(r, Clock(p))
          PROVE  Clock(p) > r.launchUntil + Fence /\ (MaxActive > 0 => Finished(r))
      BY <1>3, <1>4, <3>6, ReleasableFinished
    <3>7. \A r : Finished(r)' <=> Finished(r)
      BY <1>2 DEF Finished
    <3>8. Counts(p)'
      BY <3>2, <3>3, <3>5, <3>6, <3>7 DEF Counts, JobOf
    <3>9. /\ time' = [time EXCEPT ![p] = time'[p]]
          /\ ledgerRead' = [ledgerRead EXCEPT ![p] = ledgerRead'[p]]
          /\ kept' = [kept EXCEPT ![p] = kept'[p]]
      BY <3>2, <3>3, Zenon
    <3>10. kept'[p] \subseteq Reservation
      BY <1>4, <3>3
    <3>11. time'[p] <= Clock(p)
      BY <1>3, <3>3
    <3> QED BY <1>1, <1>4, <1>5, <3>1, <3>2, <3>3, <3>4, <3>8, <3>9, <3>10, <3>11, LaunchingQuiet
  <2> QED BY <1>6, <2>1, <2>2, <2>3 DEF ReadLedger
<1>7. CASE QueryInventory(p)
  <2> DEFINE held == ledgerRead[p].reservations
  <2>1. PICK freed \in SUBSET {r \in held : Releasable(r, time[p])} :
          kept' = [kept EXCEPT ![p] = held \ freed]
    BY <1>7 DEF QueryInventory
  <2>2. /\ Goto(p, "charge") /\ UNCHANGED <<target, born, time, read, mine, ledgerRead>>
        /\ at[p] \in Counting
    BY <1>7 DEF QueryInventory, Counting
  <2>3. at'[p] = "charge" /\ kept'[p] = held \ freed
    BY <2>1, <2>2 DEF Goto, AdmissionInv, SealInv, LocalType, AdmissionType
  <2>4. Timely(p) /\ Counts(p) /\ time[p] \in Nat
    BY DEF AdmissionInv, SealInv, LocalType
  <2>5. ASSUME NEW r \in freed
        PROVE  time[p] > r.launchUntil + Fence /\ (MaxActive > 0 => Finished(r))
    BY <1>4, <2>2, <2>4, ReleasableFinished DEF Timely
  <2>6. \A r : Finished(r)' <=> Finished(r)
    BY <1>2 DEF Finished
  <2>7. Counts(p)'
    BY <2>2, <2>3, <2>4, <2>5, <2>6 DEF Counts, JobOf
  <2>8. time[p] <= Clock(p) /\ ledgerRead[p].observedAt <= time[p]
    BY <2>2, <2>4 DEF Timely
  <2>9. /\ time' = [time EXCEPT ![p] = time'[p]]
        /\ ledgerRead' = [ledgerRead EXCEPT ![p] = ledgerRead'[p]]
        /\ kept' = [kept EXCEPT ![p] = kept'[p]]
        /\ kept'[p] \subseteq Reservation
    BY <1>4, <2>1, <2>2, <2>3 DEF AdmissionInv, SealInv, LocalType, AdmissionType
  <2> QED BY <1>1, <1>4, <1>5, <2>2, <2>7, <2>8, <2>9, LaunchingQuiet
<1> QED BY <1>6, <1>7

-----------------------------------------------------------------------------
(* Writing the work record *)

\* What a record says of its attempt, whatever became of it.
SameAttempt(a, b) ==
    a.generation = b.generation /\ a.created = b.created /\ a.launchRetryAt = b.launchRetryAt

\* Deadlines are given to jobs.
LEMMA StampsTyped ==
    ASSUME AdmissionInv
    PROVE  \A a \in Stamps : a[1] \in Jobs
<1> SUFFICES ASSUME NEW a \in Stamps PROVE a[1] \in Jobs
  OBVIOUS
<1>1. ASSUME NEW r \in Reservation  PROVE r.job \in Jobs
  BY DEF Reservation
<1>2. CASE a \in StampsIn(ledger.reservations)
  BY <1>1, <1>2 DEF StampsIn, AdmissionInv, AdmissionType, Ledger
<1>3. CASE a \in {<<CurrentJob(v), LaunchUntil(work[v])>> : v \in {u \in Works : Exists(u)}}
  <2>1. ASSUME NEW v \in Works, Exists(v)  PROVE CurrentJob(v) \in Jobs
    BY <2>1 DEF CurrentJob, Jobs, Exists, AdmissionInv, SealInv, SharedType, Attempt
  <2> QED BY <1>3, <2>1
<1>4. CASE a \in {StampOf(q) : q \in {x \in Lambdas : at[x] \in Launching}}
  <2>1. ASSUME NEW q \in Lambdas, at[q] \in Launching  PROVE JobOf(q, mine[q]) \in Jobs
    BY <2>1, JobInJobs, PlacesApart DEF AdmissionInv, SealInv, LocalInv, Deciding, Unsealed, Dated
  <2> QED BY <1>4, <2>1 DEF StampOf
<1>5. CASE a \in UNION {StampsIn(ledgerRead[q].reservations) : q \in Lambdas}
  BY <1>1, <1>5 DEF StampsIn, AdmissionInv, AdmissionType, Ledger
<1> QED BY <1>2, <1>3, <1>4, <1>5 DEF Stamps

\* A touched job stays within what was touched, when EC2 does not move and
\* nobody starts to send.
LEMMA TouchedOnly ==
    ASSUME NEW p \in Lambdas, Elsewhere(p), UNCHANGED <<launches, instances>>,
           at'[p] \notin Sending, NEW j, Touched(j)'
    PROVE  Touched(j)
BY DEF Touched, Elsewhere, JobOf

\* The attempt is marked: completed, denied or launched.  Only an untouched one
\* is denied.
LEMMA Marking ==
    ASSUME AdmissionInv, SealInv', AdmissionType', NEW p \in Lambdas, Elsewhere(p),
           NEW w \in Works, Exists(w), NEW b \in Attempt, SameAttempt(b, work[w]), ~Blank(b),
           work' = [work EXCEPT ![w] = b],
           b.denied => WellFormed(b) /\ ~Touched(CurrentJob(w)),
           UNCHANGED <<now, terminal, completions, ledger, launches, instances, charges>>,
           ledgerRead'[p].reservations \subseteq ledgerRead[p].reservations,
           Timely(p)', at'[p] \notin Launching \cup {"claim"},
           at'[p] \in Completing => instances[JobOf(p, mine[p])'] # "none"
    PROVE  AdmissionInv'
<1> USE PlacesApart
<1>1. work[w] \in Attempt /\ work' \in [Works -> Attempt \cup {NoWork}]
      /\ work \in [Works -> Attempt \cup {NoWork}]
  BY DEF AdmissionInv, SealInv, SharedType, Exists
<1>2. \A v \in Works : /\ Exists(v)' <=> Exists(v)
                       /\ Exists(v) => SameAttempt(work'[v], work[v])
                       /\ v # w => work'[v] = work[v]
  BY <1>1, NoWorkIsNoAttempt DEF Exists, SameAttempt
<1>3. \A v \in Works : Exists(v) => /\ CurrentJob(v)' = CurrentJob(v)
                                    /\ LaunchUntil(work[v])' = LaunchUntil(work[v])
  BY <1>2 DEF CurrentJob, LaunchUntil, SameAttempt
<1>4. \A j \in Jobs : Claimed(j)' <=> Claimed(j)
  BY <1>2 DEF Claimed, SameAttempt, Jobs
<1>5. at'[p] \notin Sworn \cup Counting \cup Holding \cup Sending /\ at'[p] # "deny"
  OBVIOUS
<1>6. ASSUME NEW q \in Lambdas, at'[q] \in Launching
      PROVE  /\ q # p /\ at'[q] = at[q] /\ mine'[q] = mine[q] /\ target'[q] = target[q]
             /\ JobOf(q, mine[q])' = JobOf(q, mine[q])
             /\ LaunchUntil(mine[q])' = LaunchUntil(mine[q])
             /\ target[q] \in Works
  <2>1. q # p
    BY <1>6
  <2>2. at'[q] = at[q] /\ mine'[q] = mine[q] /\ target'[q] = target[q]
    BY <2>1 DEF Elsewhere
  <2>3. target[q] \in Works
    BY <1>6, <2>2 DEF AdmissionInv, SealInv, LocalInv, Deciding
  <2> QED BY <2>1, <2>2, <2>3 DEF JobOf, LaunchUntil
<1>7. ASSUME NEW q \in Lambdas  PROVE Timely(q)' /\ Claiming(q)' /\ Counts(q)'
  <2>1. CASE q = p
    BY <1>5, <2>1 DEF Claiming, Counts
  <2>2. CASE q # p
    <3>1. /\ at'[q] = at[q] /\ target'[q] = target[q] /\ born'[q] = born[q]
          /\ time'[q] = time[q] /\ read'[q] = read[q] /\ mine'[q] = mine[q]
          /\ ledgerRead'[q] = ledgerRead[q] /\ kept'[q] = kept[q]
      BY <2>2 DEF Elsewhere
    <3>2. Timely(q) /\ Claiming(q) /\ Counts(q)
      BY DEF AdmissionInv
    <3>3. Timely(q)'
      BY <3>1, <3>2 DEF Timely, Clock, LaunchUntil
    <3>4. Counts(q)'
      BY <3>1, <3>2 DEF Counts, Finished, JobOf
    <3>5. Claiming(q)'
      <4>1. at[q] \in Launching => target[q] \in Works
        BY <1>6, <3>1
      <4> QED BY <1>2, <3>1, <3>2, <4>1 DEF Claiming, Precedes, SameAttempt
    <3> QED BY <3>3, <3>4, <3>5
  <2> QED BY <2>1, <2>2
<1>8. LedgerRemembers' /\ BudgetNeverExceeded' /\ LaunchesTimely'
  BY DEF AdmissionInv, LedgerRemembers, BudgetNeverExceeded, LaunchesTimely
<1>9. Distinct'
  BY <1>6 DEF AdmissionInv, Distinct
<1>10. OneDeadline'
  <2>1. ASSUME NEW q \in Lambdas, at'[q] \in Launching  PROVE StampOf(q)' \in Stamps
    BY <1>6, <2>1 DEF StampOf, Stamps
  <2>2. ASSUME NEW a \in Stamps'  PROVE a \in Stamps
    <3>1. CASE a \in StampsIn(ledger'.reservations)
      BY <3>1 DEF Stamps
    <3>2. CASE a \in {<<CurrentJob(v), LaunchUntil(work[v])>> : v \in {u \in Works : Exists(u)}}'
      BY <1>2, <1>3, <3>2 DEF Stamps
    <3>3. CASE a \in {StampOf(q) : q \in {x \in Lambdas : at[x] \in Launching}}'
      BY <2>1, <3>3
    <3>4. CASE a \in UNION {StampsIn(ledgerRead'[q].reservations) : q \in Lambdas}
      <4>1. \A q \in Lambdas : ledgerRead'[q].reservations \subseteq ledgerRead[q].reservations
        BY DEF Elsewhere
      <4> QED BY <3>4, <4>1 DEF Stamps, StampsIn
    <3> QED BY <2>2, <3>1, <3>2, <3>3, <3>4 DEF Stamps
  <2>3. \A a \in Stamps : Claimed(a[1])'
    BY <1>4, StampsTyped DEF AdmissionInv, OneDeadline
  <2> QED BY <2>2, <2>3 DEF AdmissionInv, OneDeadline
<1>11. ResultsAreEarned'
  <2>1. ASSUME NEW q \in Lambdas, at'[q] \in Completing
        PROVE  instances[JobOf(q, mine[q])'] # "none"
    BY <2>1 DEF Elsewhere, JobOf, AdmissionInv, ResultsAreEarned
  <2> QED BY <2>1 DEF AdmissionInv, ResultsAreEarned
<1>12. \A j : Touched(j)' => Touched(j)
  BY <1>5, TouchedOnly
<1>13. \A j, until : Held(j, until)' <=> Held(j, until)
  BY DEF Held, Reserved
<1>14. TouchedIsHeld'
  <2>1. \A j \in Jobs : Touched(j)' => Claimed(j)'
    BY <1>4, <1>12 DEF AdmissionInv, TouchedIsHeld
  <2>2. ASSUME NEW v \in Works, Exists(v)', Touched(CurrentJob(v))'
        PROVE  Held(CurrentJob(v), LaunchUntil(work[v]))'
    <3>1. PICK j : j = CurrentJob(v) /\ Touched(j)'
      BY <1>2, <1>3, <2>2
    <3>2. Held(CurrentJob(v), LaunchUntil(work[v]))
      BY <1>2, <1>12, <2>2, <3>1 DEF AdmissionInv, TouchedIsHeld
    <3> QED BY <1>2, <1>3, <1>13, <2>2, <3>2
  <2>3. ASSUME NEW q \in Lambdas, at'[q] \in Holding
        PROVE  Held(JobOf(q, mine[q]), LaunchUntil(mine[q]))'
    BY <1>6, <1>13, <2>3 DEF AdmissionInv, TouchedIsHeld
  <2> QED BY <2>1, <2>2, <2>3 DEF TouchedIsHeld
<1>15. DeniedUntouched'
  <2>1. ASSUME NEW v \in Works, Exists(v)', work'[v].denied
        PROVE  WellFormed(work'[v]) /\ ~Touched(CurrentJob(v))'
    <3>1. WellFormed(work'[v]) /\ ~Touched(CurrentJob(v))
      <4>1. CASE v = w
        BY <1>1, <2>1, <4>1
      <4>2. CASE v # w
        BY <1>2, <2>1, <4>2 DEF AdmissionInv, DeniedUntouched
      <4> QED BY <4>1, <4>2
    <3>2. PICK j : j = CurrentJob(v) /\ CurrentJob(v)' = j
      BY <1>2, <1>3, <2>1
    <3>3. ~Touched(j)'
      BY <1>12, <3>1, <3>2
    <3> QED BY <3>1, <3>2, <3>3
  <2>2. ASSUME NEW q \in Lambdas, at'[q] = "deny", work'[target'[q]] = mine'[q]
        PROVE  ~Touched(JobOf(q, mine[q]))'
    <3>1. /\ at[q] = "deny" /\ mine'[q] = mine[q] /\ target'[q] = target[q]
          /\ JobOf(q, mine[q])' = JobOf(q, mine[q]) /\ target[q] \in Works
      BY <1>6, <2>2
    <3>2. Blank(mine[q])
      BY <3>1 DEF AdmissionInv, Claiming
    <3>3. target[q] # w
      BY <1>1, <2>2, <3>1, <3>2
    <3>4. ~Touched(JobOf(q, mine[q]))
      BY <1>2, <2>2, <3>1, <3>3 DEF AdmissionInv, DeniedUntouched
    <3>5. PICK j : j = JobOf(q, mine[q]) /\ JobOf(q, mine[q])' = j
      BY <3>1
    <3>6. ~Touched(j)'
      BY <1>12, <3>4, <3>5
    <3> QED BY <3>5, <3>6
  <2> QED BY <2>1, <2>2 DEF DeniedUntouched, WellFormed
<1>16. Slots'
  <2>1. Alive' = Alive
    BY DEF Alive
  <2>2. ASSUME MaxActive > 0, NEW q \in Lambdas, at'[q] \in Holding
        PROVE  \/ instances[JobOf(q, mine[q])]' = "terminated"
               \/ Reserved(JobOf(q, mine[q]), LaunchUntil(mine[q]))'
    BY <1>6, <2>2 DEF AdmissionInv, Slots, Reserved
  <2>3. MaxActive > 0 =>
          /\ IsFiniteSet(ledger.reservations)' /\ (Cardinality(ledger.reservations) <= MaxActive)'
          /\ (\A j \in Alive : \E r \in ledger.reservations : r.job = j)'
          /\ (\A x \in launches :
               \/ instances[x.job] = "terminated"
               \/ \E r \in ledger.reservations :
                    r.job = x.job /\ (Ambiguity # 0 => x.by < r.launchUntil + Fence + Ambiguity))'
    BY <2>1 DEF AdmissionInv, Slots
  <2> QED BY <2>2, <2>3 DEF Slots
<1> QED BY <1>7, <1>8, <1>9, <1>10, <1>11, <1>14, <1>15, <1>16 DEF AdmissionInv

\* The record of a result is sealed, or the race for it is lost.
LEMMA SealingKeeps ==
    ASSUME AdmissionInv, SealInv', NEW p \in Lambdas, Complete(p) \/ SealWrite(p)
    PROVE  AdmissionInv'
<1>1. UNCHANGED <<now, terminal, completions, ledger, launches, instances, charges>>
      /\ at[p] \in Completing
  BY DEF Complete, SealWrite, objects, ec2, Completing
<1>2. ASSUME Lost(target[p], read[p])  PROVE UNCHANGED shared
  BY <1>1, <1>2 DEF Lost, shared
<1>3. CASE Lost(target[p], read[p]) /\ Retry(p)
  <2>1. at[p] # "idle"
    BY <1>1, PlacesApart
  <2> QED BY <1>1, <1>2, <1>3, <2>1, RetryQuiet
<1>4. CASE Lost(target[p], read[p]) /\ Step(p, "seal")
  BY <1>1, <1>2, <1>4, CompletingQuiet
     DEF Step, locals, Completing, AdmissionInv, SealInv, LocalType
<1>5. CASE /\ Exchanged(target[p], read[p], Completed(read[p]))
           /\ Step(p, "seal") \/ Step(p, "publish")
  <2> DEFINE w == target[p]
             b == Completed(read[p])
  <2>1. /\ w \in Works /\ Dated(read[p]) /\ SameStored(read[p], mine[p])
        /\ Complete(p) \/ SealWrite(p)
    BY DEF Complete, SealWrite, AdmissionInv, SealInv, LocalInv, Deciding, Evident, Sealed,
           Completing, SameStored
  <2>2. /\ work[w] = read[p] /\ work' = [work EXCEPT ![w] = b] /\ Exists(w)
    BY <1>5, <2>1, NoWorkIsNoAttempt DEF Exchanged, Exists, Dated
  <2>3. b \in Attempt /\ SameAttempt(b, work[w]) /\ ~Blank(b) /\ (b.denied => work[w].denied)
    BY <2>1, <2>2, CompletedDated DEF Completed, Dated, SameAttempt, Blank
  <2>4. instances[JobOf(p, mine[p])] # "none" /\ JobOf(p, mine[p]) = CurrentJob(w)
    BY <1>1, <2>1, <2>2 DEF AdmissionInv, ResultsAreEarned, JobOf, CurrentJob, SameStored
  <2>5. ~work[w].denied
    BY <2>1, <2>2, <2>4 DEF AdmissionInv, DeniedUntouched, Touched
  <2>6. PICK place \in {"seal", "publish"} : Step(p, place)
    BY <1>5
  <2>7. /\ UNCHANGED <<target, born, time, read, mine, ledgerRead, kept>> /\ at'[p] = place
        /\ Elsewhere(p)
    BY <2>6 DEF Step, Goto, locals, Elsewhere, AdmissionInv, SealInv, LocalType
  <2>8. place \in Completing /\ place \notin Launching \cup {"claim"}
    BY DEF Completing, Launching
  <2>9. AdmissionType'
    BY <1>1, <2>7 DEF AdmissionInv, AdmissionType
  <2>10. Timely(p)'
    <3>1. place \notin Sworn \cup Counting /\ at[p] # "idle"
      BY <1>1, <2>8, PlacesApart
    <3> QED BY <1>1, <2>7, <3>1 DEF AdmissionInv, Timely
  <2>11. JobOf(p, mine[p])' = JobOf(p, mine[p])
    BY <2>7 DEF JobOf
  <2> QED BY <1>1, <2>1, <2>2, <2>3, <2>4, <2>5, <2>7, <2>8, <2>9, <2>10, <2>11, Marking
<1> QED BY <1>3, <1>4, <1>5 DEF Complete, SealWrite

\* The owner marks its attempt, unless somebody else owns the record by now.
LEMMA OwnerMarks ==
    ASSUME AdmissionInv, SealInv', NEW p \in Lambdas, at[p] \in Launching, NEW b \in Attempt,
           SameAttempt(b, mine[p]), ~Blank(b),
           b.denied => WellFormed(b) /\ at[p] = "deny",
           Exchanged(target[p], mine[p], b) \/ Lost(target[p], mine[p]), Return(p),
           UNCHANGED <<now, terminal, completions, ledger, launches, instances, charges>>
    PROVE  AdmissionInv'
<1>1. CASE Lost(target[p], mine[p])
  BY <1>1, ReturnQuiet DEF Lost, shared
<1>2. CASE Exchanged(target[p], mine[p], b)
  <2> DEFINE w == target[p]
  <2>1. w \in Works /\ Exists(w) /\ work[w] = mine[p] /\ work' = [work EXCEPT ![w] = b]
    BY <1>2, PlacesApart DEF Exchanged, AdmissionInv, SealInv, LocalInv, Deciding, Claiming
  <2>2. CurrentJob(w) = JobOf(p, mine[p])
    BY <2>1 DEF CurrentJob, JobOf
  <2>3. at[p] = "deny" => ~Touched(CurrentJob(w))
    BY <2>1, <2>2 DEF AdmissionInv, DeniedUntouched
  <2>4. Elsewhere(p)
    BY DEF Elsewhere, Return, Goto, AdmissionInv, SealInv, LocalType, AdmissionType
  <2>5. AdmissionType'
    BY EmptyLedgerType DEF Return, AdmissionInv, AdmissionType
  <2>6. at'[p] = "idle" /\ ledgerRead'[p].reservations = {}
    BY EmptyLedgerType DEF Return, Goto, AdmissionInv, SealInv, LocalType, AdmissionType
  <2>7. Timely(p)' /\ at'[p] \notin Launching \cup {"claim"} \cup Completing
    BY <2>6, PlacesApart DEF Timely
  <2> QED BY <2>1, <2>3, <2>4, <2>5, <2>6, <2>7, Marking
<1> QED BY <1>1, <1>2

\* A denial, and the mark of a launch.
LEMMA MarksKeep ==
    ASSUME AdmissionInv, SealInv', NEW p \in Lambdas, Deny(p) \/ MarkLaunched(p)
    PROVE  AdmissionInv'
<1>1. UNCHANGED <<now, terminal, completions, ledger, launches, instances, charges>>
      /\ at[p] \in Launching /\ Return(p)
  BY DEF Deny, MarkLaunched, objects, ec2, Launching
<1>2. Dated(mine[p]) /\ Blank(mine[p])
  BY <1>1 DEF AdmissionInv, SealInv, LocalInv, Unsealed, Claiming
<1>3. CASE Deny(p)
  <2> DEFINE b == Denied(mine[p])
  <2>1. b \in Attempt /\ SameAttempt(b, mine[p]) /\ ~Blank(b) /\ WellFormed(b)
    BY <1>2 DEF Denied, Dated, Attempt, SameAttempt, Blank, WellFormed
  <2> QED BY <1>1, <1>3, <2>1, OwnerMarks DEF Deny
<1>4. CASE MarkLaunched(p)
  <2> DEFINE b == Launched(mine[p])
  <2>1. b \in Attempt /\ SameAttempt(b, mine[p]) /\ ~Blank(b) /\ ~b.denied
    BY <1>2 DEF Launched, Dated, Attempt, SameAttempt, Blank
  <2> QED BY <1>1, <1>4, <2>1, OwnerMarks DEF MarkLaunched
<1> QED BY <1>3, <1>4

\* A claim comes after every earlier owner's attempt, and is none of them.
LEMMA ClaimIsLater ==
    ASSUME NEW a \in Attempt, NEW b \in Attempt, NEW c \in Attempt, a # NoWork,
           Precedes(c, a), Succeeds(b, a)
    PROVE  Precedes(c, b) /\ c # b
<1>1. /\ a.generation \in Nat /\ b.generation \in Nat /\ c.generation \in Nat
      /\ a.launchRetryAt \in Nat /\ b.launchRetryAt \in Nat /\ c.launchRetryAt \in Nat
  BY JobConstantsAssumption DEF Attempt
<1>2. c.generation < b.generation \/
        (c.generation = b.generation /\ c.created = b.created /\ c.launchRetryAt < b.launchRetryAt)
  BY <1>1 DEF Precedes, Succeeds
<1> QED BY <1>1, <1>2 DEF Precedes

\* An attempt is claimed: the first, the next generation, or one whose launch
\* was never confirmed.  The new owner is alone with its record.
LEMMA Claims ==
    ASSUME AdmissionInv, SealInv', NEW p \in Lambdas, at[p] = "claim",
           Exchanged(target[p], read[p], mine[p]), Goto(p, "request"),
           read' = [read EXCEPT ![p] = NoWork], time' = [time EXCEPT ![p] = 0],
           UNCHANGED <<target, born, mine, ledgerRead, kept>>,
           UNCHANGED <<now, terminal, completions, ledger, launches, instances, charges>>
    PROVE  AdmissionInv'
<1> USE PlacesApart
<1> DEFINE w == target[p]
           b == mine[p]
<1>1. /\ w \in Works /\ work[w] = read[p] /\ work' = [work EXCEPT ![w] = b]
      /\ Blank(b) /\ Succeeds(b, work[w]) /\ b \in Attempt
  BY DEF Exchanged, AdmissionInv, SealInv, LocalInv, Deciding, Unsealed, Claiming, Dated
<1>2. /\ work \in [Works -> Attempt \cup {NoWork}] /\ work'[w] = b /\ b # NoWork
      /\ \A v \in Works : v # w => work'[v] = work[v]
  BY <1>1, NoWorkIsNoAttempt DEF AdmissionInv, SealInv, SharedType
<1>3. Elsewhere(p)
  BY DEF Elsewhere, Goto, AdmissionInv, SealInv, LocalType
<1>4. AdmissionType'
  BY DEF AdmissionInv, AdmissionType
<1>5. at'[p] = "request" /\ "request" \in Launching \ (Sworn \cup Counting \cup Holding \cup Sending)
  BY DEF Goto, AdmissionInv, SealInv, LocalType, Launching, Sworn, Counting, Holding, Sending
<1>6. ASSUME NEW q \in Lambdas, at[q] \in Launching
      PROVE  /\ target[q] \in Works /\ Exists(target[q]) /\ mine[q] \in Attempt
             /\ Precedes(mine[q], work[target[q]]) /\ Blank(mine[q])
  BY <1>6 DEF AdmissionInv, SealInv, LocalInv, Deciding, Unsealed, Claiming, Dated
<1>7. ASSUME NEW q \in Lambdas, at[q] \in Launching
      PROVE  Precedes(mine[q], work'[target[q]]) /\ (target[q] = w => mine[q] # b)
  <2>1. CASE target[q] # w
    BY <1>2, <1>6, <1>7, <2>1
  <2>2. CASE target[q] = w
    <3>1. work[w] # NoWork /\ work[w] \in Attempt
      BY <1>2, <1>6, <1>7, <2>2 DEF Exists
    <3> QED BY <1>1, <1>2, <1>6, <1>7, <2>2, <3>1, ClaimIsLater
  <2> QED BY <2>1, <2>2
<1>8. ASSUME NEW q \in Lambdas  PROVE Timely(q)' /\ Claiming(q)' /\ Counts(q)'
  <2>1. CASE q = p
    <3>1. Timely(p)'
      BY <1>5 DEF Timely, AdmissionInv
    <3>2. Claiming(p)'
      BY <1>1, <1>2, <1>5 DEF Claiming, Exists, Precedes, Attempt
    <3>3. Counts(p)'
      BY <1>5 DEF Counts
    <3> QED BY <2>1, <3>1, <3>2, <3>3
  <2>2. CASE q # p
    <3>1. /\ at'[q] = at[q] /\ target'[q] = target[q] /\ born'[q] = born[q]
          /\ time'[q] = time[q] /\ read'[q] = read[q] /\ mine'[q] = mine[q]
          /\ ledgerRead'[q] = ledgerRead[q] /\ kept'[q] = kept[q]
      BY <1>3, <2>2 DEF Elsewhere
    <3>2. Timely(q) /\ Claiming(q) /\ Counts(q)
      BY DEF AdmissionInv
    <3>3. Timely(q)'
      BY <3>1, <3>2 DEF Timely, Clock, LaunchUntil
    <3>4. Counts(q)'
      BY <3>1, <3>2 DEF Counts, Finished, JobOf
    <3>5. Claiming(q)'
      BY <1>2, <1>6, <1>7, <3>1, <3>2 DEF Claiming, Exists
    <3> QED BY <3>3, <3>4, <3>5
  <2> QED BY <2>1, <2>2
<1>9. LedgerRemembers' /\ BudgetNeverExceeded' /\ LaunchesTimely'
  BY DEF AdmissionInv, LedgerRemembers, BudgetNeverExceeded, LaunchesTimely
<1>10. ASSUME NEW q \in Lambdas  PROVE at'[q] \in Launching <=> q = p \/ at[q] \in Launching
  BY <1>3, <1>5 DEF Elsewhere
<1>11. Distinct'
  BY <1>7, <1>10 DEF AdmissionInv, Distinct
<1>12. \A j : Touched(j)' => Touched(j)
  BY <1>3, <1>5, TouchedOnly
<1>13. \A j, until : Held(j, until)' <=> Held(j, until)
  BY DEF Held, Reserved

<1>14. ASSUME NEW j \in Jobs, Claimed(j)
       PROVE  /\ Claimed(j)'
              /\ j = <<w, b.generation>> =>
                   /\ Exists(w) /\ b.generation = work[w].generation
                   /\ b.created = work[w].created
  <2>1. CASE j[1] # w
    BY <1>2, <1>14, <2>1 DEF Claimed, Exists, Jobs
  <2>2. CASE j[1] = w
    <3>1. work[w] # NoWork /\ work[w] \in Attempt /\ j[2] <= work[w].generation
      BY <1>1, <1>2, <1>14, <2>2 DEF Claimed, Exists
    <3>2. work[w].generation \in Nat /\ b.generation \in Nat /\ j[2] \in Nat
      BY <1>1, <3>1 DEF Attempt, Jobs
    <3>3. CASE b.generation = work[w].generation + 1
      <4>1. j[2] <= b.generation /\ j[2] # b.generation
        BY <3>1, <3>2, <3>3
      <4> QED BY <1>2, <2>2, <4>1 DEF Claimed, Exists
    <3>4. CASE b.generation = work[w].generation /\ b.created = work[w].created
      BY <1>2, <2>2, <3>1, <3>4 DEF Claimed, Exists
    <3> QED BY <1>1, <3>1, <3>3, <3>4 DEF Succeeds
  <2> QED BY <2>1, <2>2
<1>15. <<w, b.generation>> \in Jobs /\ JobOf(p, mine[p]) = <<w, b.generation>>
       /\ CurrentJob(w)' = <<w, b.generation>> /\ LaunchUntil(work[w])' = LaunchUntil(b)
       /\ Exists(w)' /\ Claimed(<<w, b.generation>>)'
  BY <1>1, <1>2 DEF Jobs, Attempt, JobOf, CurrentJob, LaunchUntil, Exists, Claimed
<1>16. \A v \in Works : v # w => /\ CurrentJob(v)' = CurrentJob(v)
                                 /\ LaunchUntil(work[v])' = LaunchUntil(work[v])
                                 /\ Exists(v)' <=> Exists(v)
  BY <1>2 DEF CurrentJob, LaunchUntil, Exists
<1>17. OneDeadline'
  <2> DEFINE new == <<<<w, b.generation>>, LaunchUntil(b)>>
  <2>1. ASSUME NEW q \in Lambdas, at'[q] \in Launching  PROVE StampOf(q)' \in Stamps \cup {new}
    <3>1. StampOf(q)' = StampOf(q)
      BY DEF StampOf, JobOf, LaunchUntil
    <3>2. CASE q = p
      BY <1>15, <3>1, <3>2 DEF StampOf
    <3>3. CASE q # p
      BY <1>10, <2>1, <3>1, <3>3 DEF Stamps
    <3> QED BY <3>2, <3>3
  <2>2. ASSUME NEW a \in Stamps'  PROVE a \in Stamps \cup {new}
    <3>1. CASE a \in StampsIn(ledger'.reservations)
      BY <3>1 DEF Stamps
    <3>2. CASE a \in {<<CurrentJob(v), LaunchUntil(work[v])>> : v \in {u \in Works : Exists(u)}}'
      <4>1. PICK v \in Works : Exists(v)' /\ a = <<CurrentJob(v), LaunchUntil(work[v])>>'
        BY <3>2
      <4>2. CASE v = w
        BY <1>15, <4>1, <4>2
      <4>3. CASE v # w
        BY <1>16, <4>1, <4>3 DEF Stamps
      <4> QED BY <4>2, <4>3
    <3>3. CASE a \in {StampOf(q) : q \in {x \in Lambdas : at[x] \in Launching}}'
      BY <2>1, <3>3
    <3>4. CASE a \in UNION {StampsIn(ledgerRead'[q].reservations) : q \in Lambdas}
      BY <3>4 DEF Stamps
    <3> QED BY <2>2, <3>1, <3>2, <3>3, <3>4 DEF Stamps
  <2>3. ASSUME NEW a \in Stamps  PROVE Claimed(a[1])' /\ (a[1] = new[1] => a[2] = new[2])
    <3>1. a[1] \in Jobs /\ Claimed(a[1])
      BY StampsTyped DEF AdmissionInv, OneDeadline
    <3>2. Claimed(a[1])'
      BY <1>14, <3>1
    <3>3. ASSUME a[1] = <<w, b.generation>>  PROVE a[2] = LaunchUntil(b)
      <4>1. Exists(w) /\ b.generation = work[w].generation /\ b.created = work[w].created
        BY <1>14, <3>1, <3>3
      <4>2. <<CurrentJob(w), LaunchUntil(work[w])>> \in Stamps
        BY <1>1, <4>1 DEF Stamps
      <4>3. a[1] = CurrentJob(w) /\ LaunchUntil(work[w]) = LaunchUntil(b)
        BY <3>3, <4>1 DEF CurrentJob, LaunchUntil
      <4> QED BY <4>2, <4>3 DEF AdmissionInv, OneDeadline
    <3> QED BY <3>2, <3>3
  <2>4. ASSUME NEW a, a = new  PROVE Claimed(a[1])'
    <3>1. a[1] = <<w, b.generation>> /\ w' = w /\ b' = b
      BY <2>4
    <3> QED BY <1>15, <3>1
  <2>5. \A a, c \in Stamps : a[1] = c[1] => a[2] = c[2]
    BY DEF AdmissionInv, OneDeadline
  <2>6. \A a, c \in Stamps \cup {new} : a[1] = c[1] => a[2] = c[2]
    <3> HIDE DEF new
    <3> QED BY <2>3, <2>5
  <2>7. \A a \in Stamps' : a \in Stamps \cup {new}
    BY <2>2
  <2>8. \A a \in Stamps' : Claimed(a[1])'
    <3> HIDE DEF new
    <3> QED BY <2>3, <2>4, <2>7
  <2> HIDE DEF new
  <2> QED BY <2>6, <2>7, <2>8 DEF OneDeadline
<1>18. ResultsAreEarned'
  <2>1. ASSUME NEW q \in Lambdas, at'[q] \in Completing
        PROVE  instances[JobOf(q, mine[q])'] # "none"
    BY <1>3, <1>5, <2>1 DEF Elsewhere, JobOf, AdmissionInv, ResultsAreEarned
  <2> QED BY <2>1 DEF AdmissionInv, ResultsAreEarned
<1>19. ASSUME Touched(<<w, b.generation>>)
       PROVE  /\ Exists(w) /\ CurrentJob(w) = <<w, b.generation>>
              /\ LaunchUntil(work[w]) = LaunchUntil(b)
  BY <1>14, <1>15, <1>19 DEF AdmissionInv, TouchedIsHeld, CurrentJob, LaunchUntil
<1>20. TouchedIsHeld'
  <2>1. \A j \in Jobs : Touched(j)' => Claimed(j)'
    BY <1>12, <1>14 DEF AdmissionInv, TouchedIsHeld
  <2>2. ASSUME NEW v \in Works, Exists(v)', Touched(CurrentJob(v))'
        PROVE  Held(CurrentJob(v), LaunchUntil(work[v]))'
    <3>1. PICK j : j = CurrentJob(v)' /\ Touched(j)'
      BY <2>2
    <3>2. Touched(j)
      BY <1>12, <3>1
    <3>3. CASE v = w
      <4>1. j = <<w, b.generation>>
        BY <1>15, <3>1, <3>3
      <4>2. Held(j, LaunchUntil(b))
        BY <1>1, <1>19, <3>2, <4>1 DEF AdmissionInv, TouchedIsHeld
      <4> QED BY <1>13, <1>15, <3>3, <4>1, <4>2
    <3>4. CASE v # w
      <4>1. Held(CurrentJob(v), LaunchUntil(work[v]))
        BY <1>16, <2>2, <3>1, <3>2, <3>4 DEF AdmissionInv, TouchedIsHeld
      <4> QED BY <1>13, <1>16, <3>4, <4>1
    <3> QED BY <3>3, <3>4
  <2>3. ASSUME NEW q \in Lambdas, at'[q] \in Holding
        PROVE  Held(JobOf(q, mine[q]), LaunchUntil(mine[q]))'
    <3>1. at[q] \in Holding
      BY <1>3, <1>5, <2>3 DEF Elsewhere
    <3>2. JobOf(q, mine[q])' = JobOf(q, mine[q]) /\ LaunchUntil(mine[q])' = LaunchUntil(mine[q])
      BY DEF JobOf, LaunchUntil
    <3> QED BY <1>13, <3>1, <3>2 DEF AdmissionInv, TouchedIsHeld
  <2> QED BY <2>1, <2>2, <2>3 DEF TouchedIsHeld
<1>21. DeniedUntouched'
  <2>1. ASSUME NEW v \in Works, Exists(v)', work'[v].denied
        PROVE  WellFormed(work'[v]) /\ ~Touched(CurrentJob(v))'
    <3>1. v # w
      BY <1>1, <1>2, <2>1 DEF Blank
    <3>2. WellFormed(work'[v]) /\ ~Touched(CurrentJob(v))
      BY <1>2, <1>16, <2>1, <3>1 DEF AdmissionInv, DeniedUntouched
    <3>3. PICK j : j = CurrentJob(v) /\ CurrentJob(v)' = j
      BY <1>16, <3>1
    <3>4. ~Touched(j)'
      BY <1>12, <3>2, <3>3
    <3> QED BY <3>2, <3>3, <3>4
  <2>2. ASSUME NEW q \in Lambdas, at'[q] = "deny", work'[target'[q]] = mine'[q]
        PROVE  ~Touched(JobOf(q, mine[q]))'
    <3>1. at[q] = "deny" /\ q # p
      BY <1>3, <1>5, <2>2 DEF Elsewhere
    <3>2. target[q] # w
      BY <1>2, <1>7, <2>2, <3>1
    <3>3. ~Touched(JobOf(q, mine[q]))
      BY <1>2, <1>6, <2>2, <3>1, <3>2 DEF AdmissionInv, DeniedUntouched
    <3>4. PICK j : j = JobOf(q, mine[q]) /\ JobOf(q, mine[q])' = j
      BY DEF JobOf
    <3>5. ~Touched(j)'
      BY <1>12, <3>3, <3>4
    <3> QED BY <3>4, <3>5
  <2> QED BY <2>1, <2>2 DEF DeniedUntouched, WellFormed
<1>22. Slots'
  <2>1. Alive' = Alive
    BY DEF Alive
  <2>2. ASSUME MaxActive > 0, NEW q \in Lambdas, at'[q] \in Holding
        PROVE  \/ instances[JobOf(q, mine[q])]' = "terminated"
               \/ Reserved(JobOf(q, mine[q]), LaunchUntil(mine[q]))'
    <3>1. at[q] \in Holding
      BY <1>3, <1>5, <2>2 DEF Elsewhere
    <3>2. JobOf(q, mine[q])' = JobOf(q, mine[q]) /\ LaunchUntil(mine[q])' = LaunchUntil(mine[q])
      BY DEF JobOf, LaunchUntil
    <3> QED BY <2>2, <3>1, <3>2 DEF AdmissionInv, Slots, Reserved
  <2>3. MaxActive > 0 =>
          /\ IsFiniteSet(ledger.reservations)' /\ (Cardinality(ledger.reservations) <= MaxActive)'
          /\ (\A j \in Alive : \E r \in ledger.reservations : r.job = j)'
          /\ (\A x \in launches :
               \/ instances[x.job] = "terminated"
               \/ \E r \in ledger.reservations :
                    r.job = x.job /\ (Ambiguity # 0 => x.by < r.launchUntil + Fence + Ambiguity))'
    BY <2>1 DEF AdmissionInv, Slots
  <2> QED BY <2>2, <2>3 DEF Slots
<1> QED BY <1>4, <1>8, <1>9, <1>11, <1>17, <1>18, <1>20, <1>21, <1>22 DEF AdmissionInv

\* The claim succeeds, or somebody else was faster.
LEMMA ClaimAdmission ==
    ASSUME AdmissionInv, SealInv', NEW p \in Lambdas, Claim(p)
    PROVE  AdmissionInv'
<1>1. UNCHANGED <<now, terminal, completions, ledger, launches, instances, charges>>
      /\ at[p] = "claim"
  BY DEF Claim, objects, ec2
<1>2. CASE Lost(target[p], read[p]) /\ Retry(p)
  BY <1>1, <1>2, RetryQuiet DEF Lost, shared
<1>3. CASE ~(Lost(target[p], read[p]) /\ Retry(p))
  BY <1>1, <1>3, Claims DEF Claim
<1> QED BY <1>2, <1>3

-----------------------------------------------------------------------------
(* EC2, workers, storage and time *)

\* A step outside the records and the ledger, that touches no further job and
\* revives no worker.
LEMMA Outside ==
    ASSUME AdmissionInv, SealInv', AdmissionType',
           UNCHANGED <<work, completions, ledger, charges, target, born, time, read, mine,
                       ledgerRead, kept>>,
           \A q \in Lambdas : at'[q] = at[q] \/ (at[q] = "launch" /\ at'[q] = "sent"),
           \A q \in Lambdas : Timely(q)', LaunchesTimely',
           \A j \in Jobs : Touched(j)' => Touched(j),
           \A j \in Jobs : instances[j] # "none" => instances'[j] # "none",
           \A j \in Jobs : instances[j] = "terminated" => instances'[j] = "terminated",
           \A j \in Jobs : terminal'[j] # "none" => instances'[j] # "none",
           \A q \in Lambdas : MaxActive > 0 =>
              \A r \in ledgerRead[q].reservations : Finished(r) => Finished(r)',
           MaxActive > 0 => \A j \in Alive' : \E r \in ledger.reservations : r.job = j,
           MaxActive > 0 => \A x \in launches' :
              \/ instances'[x.job] = "terminated"
              \/ \E r \in ledger.reservations :
                    r.job = x.job /\ (Ambiguity # 0 => x.by < r.launchUntil + Fence + Ambiguity)
    PROVE  AdmissionInv'
<1> USE PlacesApart
<1>1. "launch" \in Sending /\ "sent" \in Sending
      /\ {"launch", "sent"} \cap Counting = {}
  BY DEF Sending, Counting
<1>2. ASSUME NEW q \in Lambdas
      PROVE  /\ at'[q] \in Launching <=> at[q] \in Launching
             /\ at'[q] \in Holding <=> at[q] \in Holding
             /\ at'[q] \in Counting <=> at[q] \in Counting
             /\ at'[q] \in Completing <=> at[q] \in Completing
             /\ at'[q] = "claim" <=> at[q] = "claim"
             /\ at'[q] = "deny" <=> at[q] = "deny"
  BY <1>1
<1>3. \A q \in Lambdas : /\ JobOf(q, mine[q])' = JobOf(q, mine[q])
                         /\ LaunchUntil(mine[q])' = LaunchUntil(mine[q])
  BY DEF JobOf, LaunchUntil
<1>4. \A w \in Works : /\ Exists(w)' <=> Exists(w)
                       /\ CurrentJob(w)' = CurrentJob(w)
                       /\ LaunchUntil(work[w])' = LaunchUntil(work[w])
  BY DEF Exists, CurrentJob, LaunchUntil
<1>14. /\ \A w \in Works : Exists(w) => CurrentJob(w) \in Jobs
       /\ \A q \in Lambdas : at[q] \in Launching => JobOf(q, mine[q]) \in Jobs
  BY JobInJobs DEF Exists, CurrentJob, Jobs, Attempt, AdmissionInv, SealInv, SharedType, LocalInv,
                   Deciding, Unsealed, Dated
<1>5. ASSUME NEW q \in Lambdas  PROVE Claiming(q)' /\ Counts(q)'
  <2>1. Claiming(q) /\ Counts(q)
    BY DEF AdmissionInv
  <2>2. Claiming(q)'
    BY <1>2, <2>1 DEF Claiming, Exists
  <2>3. Counts(q)'
    BY <1>2, <1>3, <2>1 DEF Counts
  <2> QED BY <2>2, <2>3
<1>6. LedgerRemembers' /\ BudgetNeverExceeded'
  BY DEF AdmissionInv, LedgerRemembers, BudgetNeverExceeded
<1>7. Distinct'
  BY <1>2 DEF AdmissionInv, Distinct
<1>8. OneDeadline'
  <2>1. \A q \in Lambdas : StampOf(q)' = StampOf(q)
    BY <1>3 DEF StampOf
  <2>2. Stamps' = Stamps
    <3>1. {<<CurrentJob(w), LaunchUntil(work[w])>> : w \in {v \in Works : Exists(v)}}'
            = {<<CurrentJob(w), LaunchUntil(work[w])>> : w \in {v \in Works : Exists(v)}}
      BY <1>4
    <3>2. {StampOf(q) : q \in {x \in Lambdas : at[x] \in Launching}}'
            = {StampOf(q) : q \in {x \in Lambdas : at[x] \in Launching}}
      BY <1>2, <2>1
    <3>3. StampsIn(ledger.reservations)' = StampsIn(ledger.reservations)
      BY DEF StampsIn
    <3>4. (UNION {StampsIn(ledgerRead[p].reservations) : p \in Lambdas})'
            = UNION {StampsIn(ledgerRead[p].reservations) : p \in Lambdas}
      BY DEF StampsIn
    <3> QED BY <3>1, <3>2, <3>3, <3>4 DEF Stamps
  <2>3. \A j : Claimed(j)' <=> Claimed(j)
    BY DEF Claimed, Exists
  <2> QED BY <2>2, <2>3 DEF AdmissionInv, OneDeadline
<1>9. ResultsAreEarned'
  <2>1. ASSUME NEW q \in Lambdas, at'[q] \in Completing
        PROVE  instances'[JobOf(q, mine[q])'] # "none"
    <3>1. instances[JobOf(q, mine[q])] # "none" /\ JobOf(q, mine[q]) \in Jobs
      BY <1>2, <2>1, JobInJobs DEF AdmissionInv, ResultsAreEarned, SealInv, LocalInv, Deciding,
                                  Evident, Dated
    <3> QED BY <1>3, <3>1
  <2>2. \A j \in Jobs : terminal'[j] # "none" \/ j \in completions' => instances'[j] # "none"
    BY DEF AdmissionInv, ResultsAreEarned
  <2> QED BY <2>1, <2>2 DEF ResultsAreEarned
<1>10. \A j, until : Held(j, until)' <=> Held(j, until)
  BY DEF Held, Reserved
<1>11. TouchedIsHeld'
  <2>1. \A j \in Jobs : Touched(j)' => Claimed(j)'
    BY DEF AdmissionInv, TouchedIsHeld, Claimed, Exists
  <2>2. ASSUME NEW w \in Works, Exists(w)', Touched(CurrentJob(w))'
        PROVE  Held(CurrentJob(w), LaunchUntil(work[w]))'
    <3>1. PICK j : j = CurrentJob(w) /\ CurrentJob(w)' = j /\ Touched(j)'
      BY <1>4, <2>2
    <3>2. Held(CurrentJob(w), LaunchUntil(work[w]))
      BY <1>4, <1>14, <2>2, <3>1 DEF AdmissionInv, TouchedIsHeld
    <3> QED BY <1>4, <1>10, <3>2
  <2>3. ASSUME NEW q \in Lambdas, at'[q] \in Holding
        PROVE  Held(JobOf(q, mine[q]), LaunchUntil(mine[q]))'
    BY <1>2, <1>3, <1>10, <2>3 DEF AdmissionInv, TouchedIsHeld
  <2> QED BY <2>1, <2>2, <2>3 DEF TouchedIsHeld
<1>12. DeniedUntouched'
  <2>1. ASSUME NEW w \in Works, Exists(w)', work'[w].denied
        PROVE  WellFormed(work'[w]) /\ ~Touched(CurrentJob(w))'
    <3>1. WellFormed(work[w]) /\ ~Touched(CurrentJob(w))
      BY <1>4, <2>1 DEF AdmissionInv, DeniedUntouched
    <3>2. PICK j \in Jobs : j = CurrentJob(w) /\ CurrentJob(w)' = j
      BY <1>4, <1>14, <2>1
    <3>3. ~Touched(j)'
      BY <3>1, <3>2
    <3> QED BY <3>1, <3>2, <3>3
  <2>2. ASSUME NEW q \in Lambdas, at'[q] = "deny", work'[target'[q]] = mine'[q]
        PROVE  ~Touched(JobOf(q, mine[q]))'
    <3>1. ~Touched(JobOf(q, mine[q]))
      BY <1>2, <2>2 DEF AdmissionInv, DeniedUntouched
    <3>2. PICK j \in Jobs : j = JobOf(q, mine[q]) /\ JobOf(q, mine[q])' = j
      BY <1>2, <1>3, <1>14, <2>2
    <3>3. ~Touched(j)'
      BY <3>1, <3>2
    <3> QED BY <3>2, <3>3
  <2> QED BY <2>1, <2>2 DEF DeniedUntouched, WellFormed
<1>13. Slots'
  <2>1. ASSUME MaxActive > 0, NEW q \in Lambdas, at'[q] \in Holding
        PROVE  \/ instances[JobOf(q, mine[q])]' = "terminated"
               \/ Reserved(JobOf(q, mine[q]), LaunchUntil(mine[q]))'
    <3>1. at[q] \in Holding /\ at[q] \in Launching
      BY <1>2, <2>1
    <3>2. JobOf(q, mine[q]) \in Jobs
      BY <3>1, JobInJobs DEF AdmissionInv, SealInv, LocalInv, Deciding, Unsealed, Dated
    <3> QED BY <1>3, <2>1, <3>1, <3>2 DEF AdmissionInv, Slots, Reserved
  <2>2. MaxActive > 0 =>
          IsFiniteSet(ledger.reservations)' /\ (Cardinality(ledger.reservations) <= MaxActive)'
    BY DEF AdmissionInv, Slots
  <2> QED BY <2>1, <2>2 DEF Slots
<1> QED BY <1>5, <1>6, <1>7, <1>8, <1>9, <1>11, <1>12, <1>13 DEF AdmissionInv

\* Nobody's clock or lifetime is affected by a step that takes no time.
LEMMA TimelyStays ==
    ASSUME AdmissionInv, NEW q \in Lambdas, now' = now,
           at'[q] = at[q] \/ (at[q] = "launch" /\ at'[q] = "sent"),
           UNCHANGED <<born, time, mine, ledgerRead>>
    PROVE  Timely(q)'
<1>1. Timely(q)
  BY DEF AdmissionInv
<1>2. {"launch", "sent"} \subseteq Sworn \ Counting
  BY DEF Sworn, Counting
<1> QED BY <1>1, <1>2 DEF Timely, Clock, LaunchUntil

\* EC2 acts on a request, or loses it.
LEMMA AcceptKeeps ==
    ASSUME AdmissionInv, SealInv', NEW x \in launches, Accept(x) \/ Drop(x)
    PROVE  AdmissionInv'
<1>1. /\ x.job \in Jobs /\ x.by \in Nat /\ launches' = launches \ {x}
      /\ UNCHANGED <<now, work, terminal, completions, ledger, charges, at, target, born, time,
                     read, mine, ledgerRead, kept>>
  BY DEF Accept, Drop, objects, locals, AdmissionInv, AdmissionType
<1>2. /\ instances \in [Jobs -> {"none", "running", "finished", "terminated"}]
      /\ \A j \in Jobs : \/ instances'[j] = instances[j]
                         \/ j = x.job /\ instances[j] = "none" /\ instances'[j] = "running"
      /\ instances' \in [Jobs -> {"none", "running", "finished", "terminated"}]
  BY <1>1 DEF Accept, Drop, AdmissionInv, AdmissionType
<1>3. AdmissionType'
  BY <1>1, <1>2 DEF AdmissionInv, AdmissionType
<1>4. \A q \in Lambdas : Timely(q)'
  BY <1>1, TimelyStays
<1>5. LaunchesTimely'
  BY <1>1 DEF AdmissionInv, LaunchesTimely
<1>6. ASSUME NEW j \in Jobs, Touched(j)'  PROVE Touched(j)
  <2>1. CASE instances'[j] # "none"
    BY <1>2, <2>1 DEF Touched
  <2>3. CASE \E y \in launches' : y.job = j
    BY <1>1, <2>3 DEF Touched
  <2>4. CASE \E p \in Lambdas : at'[p] \in Sending /\ JobOf(p, mine[p])' = j
    BY <1>1, <2>4 DEF Touched, JobOf
  <2> QED BY <1>6, <2>1, <2>3, <2>4 DEF Touched
<1>7. ASSUME MaxActive > 0, instances[x.job] = "none"
      PROVE  \E r \in ledger.reservations :
                /\ r.job = x.job /\ r \in Reservation
                /\ Ambiguity # 0 => now < r.launchUntil + Fence + Ambiguity
  <2>1. PICK r \in ledger.reservations :
          r.job = x.job /\ (Ambiguity # 0 => x.by < r.launchUntil + Fence + Ambiguity)
    BY <1>7 DEF AdmissionInv, Slots
  <2>2. now <= x.by /\ now \in Nat /\ r \in Reservation /\ r.launchUntil \in Nat
    BY DEF AdmissionInv, LaunchesTimely, SealInv, SharedType, AdmissionType, Ledger, Reservation
  <2> QED BY <1>1, <2>1, <2>2, JobConstantsAssumption
<1>8. ASSUME NEW q \in Lambdas, MaxActive > 0, NEW r \in ledgerRead[q].reservations, Finished(r)
      PROVE  Finished(r)'
  <2>1. r.job \in Jobs /\ r.launchUntil \in Nat /\ now \in Nat
    <3>1. ledgerRead[q] \in Ledger /\ now \in Nat
      BY DEF AdmissionInv, AdmissionType, SealInv, SharedType
    <3>2. r \in Reservation
      BY <3>1 DEF Ledger
    <3> QED BY <3>1, <3>2 DEF Reservation
  <2>2. CASE instances'[r.job] = instances[r.job]
    BY <1>1, <1>8, <2>2 DEF Finished
  <2>3. CASE instances'[r.job] # instances[r.job]
    <3>1. r.job = x.job /\ instances[r.job] = "none"
      BY <1>2, <2>1, <2>3
    <3>2. PICK s \in ledger.reservations :
            s.job = x.job /\ s \in Reservation
            /\ (Ambiguity # 0 => now < s.launchUntil + Fence + Ambiguity)
      BY <1>7, <1>8, <3>1
    <3>3. <<s.job, s.launchUntil>> \in Stamps /\ <<r.job, r.launchUntil>> \in Stamps
      BY <1>8 DEF Stamps, StampsIn
    <3>4. s.launchUntil = r.launchUntil
      BY <3>1, <3>2, <3>3 DEF AdmissionInv, OneDeadline
    <3>5. Ambiguity # 0 /\ now > r.launchUntil + Fence + Ambiguity
      BY <1>8, <3>1 DEF Finished
    <3> QED BY <2>1, <3>2, <3>4, <3>5, JobConstantsAssumption
  <2> QED BY <2>2, <2>3
<1>9. ASSUME MaxActive > 0, NEW j \in Alive'  PROVE \E r \in ledger.reservations : r.job = j
  <2>1. j \in Jobs /\ instances'[j] \in {"running", "finished"}
    BY DEF Alive
  <2>2. CASE instances'[j] = instances[j]
    BY <1>9, <2>1, <2>2 DEF Alive, AdmissionInv, Slots
  <2>3. CASE j = x.job /\ instances[j] = "none"
    BY <1>7, <1>9, <2>3
  <2> QED BY <1>2, <2>1, <2>2, <2>3
<1>10. ASSUME MaxActive > 0, NEW y \in launches'
       PROVE  \/ instances'[y.job] = "terminated"
              \/ \E r \in ledger.reservations :
                   r.job = y.job /\ (Ambiguity # 0 => y.by < r.launchUntil + Fence + Ambiguity)
  <2>1. y \in launches /\ y.job \in Jobs
    BY <1>1 DEF AdmissionInv, AdmissionType
  <2>2. instances[y.job] = "terminated" => instances'[y.job] = "terminated"
    BY <1>2, <2>1
  <2> QED BY <1>10, <2>1, <2>2 DEF AdmissionInv, Slots
<1>11. \A j \in Jobs : terminal'[j] # "none" => instances'[j] # "none"
  BY <1>1, <1>2 DEF AdmissionInv, ResultsAreEarned
<1> QED BY <1>1, <1>2, <1>3, <1>4, <1>5, <1>6, <1>8, <1>9, <1>10, <1>11, Outside

\* A worker puts its result or goes away; the bucket forgets.
LEMMA WorkerKeeps ==
    ASSUME AdmissionInv, SealInv', NEW j \in Jobs,
           \/ \E outcome \in Outcomes : PutTerminal(j, outcome)
           \/ Terminate(j) \/ ExpireTerminal(j) \/ ExpireRequest(j)
    PROVE  AdmissionInv'
<1>1. UNCHANGED <<now, work, completions, ledger, launches, charges, at, target, born, time,
                  read, mine, ledgerRead, kept>>
  BY DEF PutTerminal, Terminate, ExpireTerminal, ExpireRequest, objects, ec2, locals
<1>2. /\ instances \in [Jobs -> {"none", "running", "finished", "terminated"}]
      /\ \A i \in Jobs : \/ instances'[i] = instances[i]
                         \/ instances[i] = "running" /\ instances'[i] = "finished"
                         \/ instances[i] \in {"running", "finished"} /\ instances'[i] = "terminated"
      /\ instances' \in [Jobs -> {"none", "running", "finished", "terminated"}]
  BY DEF PutTerminal, Terminate, ExpireTerminal, ExpireRequest, ec2, AdmissionInv, AdmissionType
<1>3. terminal' \in [Jobs -> {"none", "valid", "invalid", "failed"}]
  BY JobConstantsAssumption
     DEF PutTerminal, Terminate, ExpireTerminal, ExpireRequest, objects, AdmissionInv, AdmissionType
<1>4. \A i \in Jobs : terminal'[i] # "none" => instances'[i] # "none"
  <2>1. \A i \in Jobs : terminal'[i] # "none" => terminal[i] # "none" \/ instances[i] # "none"
    BY DEF PutTerminal, Terminate, ExpireTerminal, ExpireRequest, objects, AdmissionInv,
           AdmissionType
  <2> QED BY <1>2, <2>1 DEF AdmissionInv, ResultsAreEarned
<1>5. AdmissionType'
  BY <1>1, <1>2, <1>3 DEF AdmissionInv, AdmissionType
<1>6. (\A q \in Lambdas : Timely(q)') /\ LaunchesTimely'
  BY <1>1, TimelyStays DEF AdmissionInv, LaunchesTimely
<1>7. ASSUME NEW i \in Jobs, Touched(i)'  PROVE Touched(i)
  <2>1. instances'[i] # "none" => instances[i] # "none"
    BY <1>2
  <2> QED BY <1>1, <1>7, <2>1 DEF Touched, JobOf
<1>8. ASSUME NEW q \in Lambdas, NEW r \in ledgerRead[q].reservations, Finished(r)
      PROVE  Finished(r)'
  <2>1. r.job \in Jobs
    BY DEF AdmissionInv, AdmissionType, Ledger, Reservation
  <2> QED BY <1>1, <1>2, <1>8, <2>1 DEF Finished
<1>9. ASSUME MaxActive > 0, NEW i \in Alive'  PROVE \E r \in ledger.reservations : r.job = i
  <2>1. i \in Alive
    BY <1>2 DEF Alive
  <2> QED BY <1>9, <2>1 DEF AdmissionInv, Slots
<1>10. ASSUME MaxActive > 0, NEW y \in launches'
       PROVE  \/ instances'[y.job] = "terminated"
              \/ \E r \in ledger.reservations :
                   r.job = y.job /\ (Ambiguity # 0 => y.by < r.launchUntil + Fence + Ambiguity)
  <2>1. y \in launches /\ y.job \in Jobs
    BY <1>1 DEF AdmissionInv, AdmissionType
  <2>2. instances[y.job] = "terminated" => instances'[y.job] = "terminated"
    BY <1>2, <2>1
  <2> QED BY <1>10, <2>1, <2>2 DEF AdmissionInv, Slots
<1> QED BY <1>1, <1>2, <1>4, <1>5, <1>6, <1>7, <1>8, <1>9, <1>10, Outside

\* Time passes: nobody outlives its lifetime, EC2 keeps to the contract.
LEMMA TickKeeps ==
    ASSUME AdmissionInv, SealInv', Tick
    PROVE  AdmissionInv'
<1>1. /\ now' = now + 1 /\ now \in Nat
      /\ UNCHANGED <<work, completions, terminal, ledger, launches, instances, charges, at, target,
                     born, time, read, mine, ledgerRead, kept>>
  BY DEF Tick, objects, ec2, locals, AdmissionInv, SealInv, SharedType
<1>2. AdmissionType'
  BY <1>1 DEF AdmissionInv, AdmissionType
<1>3. ASSUME NEW q \in Lambdas  PROVE Timely(q)'
  <2>1. Timely(q) /\ born[q] \in Nat /\ time[q] \in Nat /\ Lag[q] \in Nat /\ Lifetime \in Nat
    BY ClockType, JobConstantsAssumption DEF AdmissionInv, AdmissionType, SealInv, LocalType
  <2>2. at[q] # "idle" => born[q] <= now + 1 /\ now + 1 <= born[q] + Lifetime
    BY <1>1, <2>1 DEF Tick, Timely
  <2>3. at[q] \in Counting => time[q] <= now + 1 - Lag[q] /\ ledgerRead[q].observedAt <= time[q]
    BY <1>1, <2>1 DEF Timely, Clock
  <2>4. at[q] \in Sworn => born[q] < LaunchUntil(mine[q]) + Lag[q]
    BY <2>1 DEF Timely
  <2>5. LaunchUntil(mine[q])' = LaunchUntil(mine[q])
    BY <1>1 DEF LaunchUntil
  <2>6. Clock(q)' = now + 1 - Lag[q]
    BY <1>1, <2>1 DEF Clock
  <2> QED BY <1>1, <2>2, <2>3, <2>4, <2>5, <2>6 DEF Timely
<1>4. LaunchesTimely'
  BY <1>1 DEF Tick, LaunchesTimely, AdmissionInv, AdmissionType
<1>5. \A j : Touched(j)' => Touched(j)
  BY <1>1 DEF Touched, JobOf
<1>6. ASSUME NEW q \in Lambdas, NEW r \in ledgerRead[q].reservations, Finished(r)
      PROVE  Finished(r)'
  <2>1. r.launchUntil \in Nat
    BY DEF AdmissionInv, AdmissionType, Ledger, Reservation
  <2> QED BY <1>1, <1>6, <2>1, JobConstantsAssumption DEF Finished
<1>7. /\ Alive' = Alive
      /\ \A j \in Jobs : terminal'[j] # "none" => instances'[j] # "none"
  BY <1>1 DEF Alive, AdmissionInv, ResultsAreEarned
<1>8. MaxActive > 0 =>
        /\ \A j \in Alive' : \E r \in ledger.reservations : r.job = j
        /\ \A x \in launches' :
              \/ instances'[x.job] = "terminated"
              \/ \E r \in ledger.reservations :
                    r.job = x.job /\ (Ambiguity # 0 => x.by < r.launchUntil + Fence + Ambiguity)
  BY <1>1, <1>7 DEF AdmissionInv, Slots
<1> QED BY <1>1, <1>2, <1>3, <1>4, <1>5, <1>6, <1>7, <1>8, Outside

\* launch_before: the request that is sent is due before its slot can be given away.
LEMMA LaunchBeforeKeeps ==
    ASSUME AdmissionInv, SealInv', NEW p \in Lambdas, LaunchBefore(p)
    PROVE  AdmissionInv'
<1>1. UNCHANGED <<now, work, terminal, completions, ledger, instances, charges>>
      /\ at[p] = "launch"
  BY DEF LaunchBefore, objects
<1>2. CASE Return(p) /\ UNCHANGED launches
  BY <1>1, <1>2, ReturnQuiet DEF shared
<1>3. CASE ~(Return(p) /\ UNCHANGED launches)
  <2> DEFINE j == JobOf(p, mine[p])
             x == [job |-> j, by |-> born[p] + Lifetime + AcceptDelay]
  <2>1. launches' = launches \cup {x} /\ Step(p, "sent")
    BY <1>3 DEF LaunchBefore
  <2>2. /\ UNCHANGED <<target, born, time, read, mine, ledgerRead, kept>>
        /\ \A q \in Lambdas : at'[q] = at[q] \/ (at[q] = "launch" /\ at'[q] = "sent")
        /\ \A q \in Lambdas : at'[q] = at[q] \/ q = p
    BY <1>1, <2>1 DEF Step, Goto, locals, AdmissionInv, SealInv, LocalType
  <2>3. at[p] \in Sending /\ at[p] \in Sworn /\ at[p] \in Holding /\ at[p] # "idle"
        /\ at[p] \in Launching
    BY <1>1 DEF Sending, Sworn, Holding, Launching
  <2>4. /\ j \in Jobs /\ Dated(mine[p]) /\ born[p] \in Nat /\ Lag[p] \in Nat
        /\ born[p] <= now /\ now <= born[p] + Lifetime /\ now \in Nat
        /\ born[p] < LaunchUntil(mine[p]) + Lag[p] /\ LaunchUntil(mine[p]) \in Nat
    <3>1. j \in Jobs /\ Dated(mine[p])
      BY <2>3, JobInJobs DEF AdmissionInv, SealInv, LocalInv, Deciding, Unsealed, Dated
    <3>2. LaunchUntil(mine[p]) \in Nat
      BY <3>1, JobConstantsAssumption DEF LaunchUntil, Dated, Attempt
    <3>3. Timely(p) /\ born[p] \in Nat /\ Lag[p] \in Nat /\ now \in Nat
      BY ClockType DEF AdmissionInv, AdmissionType
    <3> QED BY <2>3, <3>1, <3>2, <3>3 DEF Timely
  <2>5. /\ x.by \in Nat /\ now <= x.by
        /\ Ambiguity # 0 => x.by < LaunchUntil(mine[p]) + Fence + Ambiguity
    <3>1. /\ Lifetime \in Nat /\ Fence \in Nat /\ AcceptDelay \in Nat /\ Ambiguity \in Nat
          /\ Lifetime <= Fence /\ (Ambiguity # 0 => AcceptDelay + Lag[p] <= Ambiguity)
      BY JobConstantsAssumption
    <3> QED BY <2>4, <3>1
  <2>6. AdmissionType'
    BY <1>1, <2>1, <2>2, <2>4, <2>5 DEF AdmissionInv, AdmissionType
  <2>7. \A q \in Lambdas : Timely(q)'
    BY <1>1, <2>2, TimelyStays
  <2>8. LaunchesTimely'
    BY <1>1, <2>1, <2>5 DEF AdmissionInv, LaunchesTimely
  <2>9. ASSUME NEW i \in Jobs, Touched(i)'  PROVE Touched(i)
    <3>1. CASE instances'[i] # "none"
      BY <1>1, <3>1 DEF Touched
    <3>2. CASE \E y \in launches' : y.job = i
      <4>1. j = i => Touched(i)
        BY <2>3 DEF Touched
      <4> QED BY <2>1, <3>2, <4>1 DEF Touched
    <3>3. CASE \E q \in Lambdas : at'[q] \in Sending /\ JobOf(q, mine[q])' = i
      BY <2>2, <2>3, <3>3 DEF Touched, JobOf
    <3> QED BY <2>9, <3>1, <3>2, <3>3 DEF Touched
  <2>10. \A r : Finished(r)' <=> Finished(r)
    BY <1>1 DEF Finished
  <2>11. Alive' = Alive
    BY <1>1 DEF Alive
  <2>12. ASSUME MaxActive > 0, NEW y \in launches'
         PROVE  \/ instances'[y.job] = "terminated"
                \/ \E r \in ledger.reservations :
                     r.job = y.job /\ (Ambiguity # 0 => y.by < r.launchUntil + Fence + Ambiguity)
    <3>1. CASE y \in launches
      BY <1>1, <2>12, <3>1 DEF AdmissionInv, Slots
    <3>2. CASE y = x
      <4>1. instances[j] = "terminated" \/ Reserved(j, LaunchUntil(mine[p]))
        BY <2>3, <2>12 DEF AdmissionInv, Slots
      <4>2. y.job = j /\ y.by = x.by
        BY <3>2
      <4> HIDE DEF x, j
      <4> QED BY <1>1, <2>5, <4>1, <4>2 DEF Reserved
    <3> QED BY <2>1, <3>1, <3>2
  <2>13. \A i \in Jobs : terminal'[i] # "none" => instances'[i] # "none"
    BY <1>1 DEF AdmissionInv, ResultsAreEarned
  <2>14. MaxActive > 0 => \A i \in Alive' : \E r \in ledger.reservations : r.job = i
    BY <2>11 DEF AdmissionInv, Slots
  <2> QED BY <1>1, <2>2, <2>6, <2>7, <2>8, <2>9, <2>10, <2>12, <2>13, <2>14, Outside
<1> QED BY <1>2, <1>3

-----------------------------------------------------------------------------
(* The starts the ledger remembers *)

\* The equation that the filter of InWindow solves.
Filters(s, t, f) ==
    f = [n \in 0 .. Len(s) |-> IF n = 0 THEN <<>>
                               ELSE IF t - s[n] <= Window THEN Append(f[n - 1], s[n])
                               ELSE f[n - 1]]

\* The elements of s from n + 1 to i.
Slice(s, n, i) == [k \in 1 .. IF i <= n THEN 0 ELSE i - n |-> s[n + k]]

\* A slice grows by its next element.
LEMMA SliceStep ==
    ASSUME NEW s \in Seq(Nat), NEW n \in Nat, NEW i \in 1 .. Len(s)
    PROVE  /\ i <= n => Slice(s, n, i) = <<>> /\ Slice(s, n, i - 1) = <<>>
           /\ n < i => Slice(s, n, i) = Append(Slice(s, n, i - 1), s[i])
           /\ Slice(s, n, 0) = <<>>
           /\ Slice(s, n, i) \in Seq(Nat)
<1>1. i \in Nat /\ i >= 1 /\ i <= Len(s) /\ Len(s) \in Nat
  OBVIOUS
<1>2. \A m \in Nat : m <= n => Slice(s, n, m) = <<>>
  BY DEF Slice
<1>3. ASSUME NEW m \in Nat, n < m, m <= Len(s)
      PROVE  /\ Slice(s, n, m) \in Seq(Nat) /\ Len(Slice(s, n, m)) = m - n
             /\ \A k \in 1 .. m - n : Slice(s, n, m)[k] = s[n + k]
  <2>1. Slice(s, n, m) = [k \in 1 .. m - n |-> s[n + k]]
    BY <1>3 DEF Slice
  <2>2. m - n \in Nat /\ \A k \in 1 .. m - n : n + k \in 1 .. Len(s)
    BY <1>3
  <2>3. ASSUME NEW k \in 1 .. m - n  PROVE s[n + k] \in Nat
    <3>1. PICK h \in 1 .. Len(s) : h = n + k
      BY <2>2
    <3>2. s[h] \in Nat
      BY ElementOfSeq
    <3> QED BY <3>1, <3>2
  <2> QED BY <2>1, <2>2, <2>3
<1>4. ASSUME n < i  PROVE Slice(s, n, i) = Append(Slice(s, n, i - 1), s[i])
  <2> DEFINE a == Slice(s, n, i)
             b == Slice(s, n, i - 1)
  <2>1. a \in Seq(Nat) /\ Len(a) = i - n /\ \A k \in 1 .. i - n : a[k] = s[n + k]
    BY <1>1, <1>3, <1>4
  <2>2. b \in Seq(Nat) /\ Len(b) = i - 1 - n /\ \A k \in 1 .. i - 1 - n : b[k] = s[n + k]
    <3>1. i - 1 \in Nat /\ i - 1 <= Len(s)
      BY <1>1
    <3>2. CASE i - 1 <= n
      <4>1. b = <<>>
        BY <1>2, <3>1, <3>2
      <4>2. i - 1 - n = 0
        BY <1>1, <1>4, <3>2
      <4> HIDE DEF b
      <4> QED BY <4>1, <4>2
    <3>3. CASE n < i - 1
      BY <1>3, <3>1, <3>3
    <3> QED BY <3>1, <3>2, <3>3
  <2>3. s[i] \in Nat
    BY <1>1
  <2> HIDE DEF a, b
  <2>4. Append(b, s[i]) \in Seq(Nat) /\ Len(Append(b, s[i])) = i - n
    BY <1>1, <2>2, <2>3
  <2>5. ASSUME NEW k \in 1 .. i - n  PROVE Append(b, s[i])[k] = s[n + k]
    <3>1. CASE k = i - n
      BY <1>1, <2>2, <2>3, <3>1
    <3>2. CASE k # i - n
      BY <1>1, <2>2, <2>3, <3>2
    <3> QED BY <3>1, <3>2
  <2>6. a = Append(b, s[i])
    BY <2>1, <2>4, <2>5, SeqEqual
  <2> QED BY <2>6 DEF a, b
<1>5. ASSUME i <= n  PROVE Slice(s, n, i) = <<>> /\ Slice(s, n, i - 1) = <<>>
  <2>1. i - 1 \in Nat /\ i - 1 <= n
    BY <1>1, <1>5
  <2> QED BY <1>1, <1>2, <1>5, <2>1
<1>6. Slice(s, n, 0) = <<>>
  BY <1>2
<1>7. Slice(s, n, i) \in Seq(Nat)
  <2>1. CASE i <= n
    BY <1>5, <2>1
  <2>2. CASE n < i
    BY <1>1, <1>3, <2>2
  <2> QED BY <1>1, <2>1, <2>2
<1> QED BY <1>4, <1>5, <1>6, <1>7

\* A sorted sequence: what is out of the window is a prefix.
LEMMA Cut ==
    ASSUME NEW s \in Seq(Nat), NEW t \in Nat,
           \A i, k \in 1 .. Len(s) : i <= k => s[i] <= s[k]
    PROVE  \E n \in 0 .. Len(s) : /\ \A i \in 1 .. n : ~(t - s[i] <= Window)
                                  /\ \A i \in n + 1 .. Len(s) : t - s[i] <= Window
<1> DEFINE M == {m \in Nat : m >= 1 /\ (m > Len(s) \/ t - s[m] <= Window)}
<1>1. Len(s) \in Nat /\ Window \in Nat
  BY JobConstantsAssumption
<1>2. Len(s) + 1 \in M
  BY <1>1
<1>3. PICK m \in M : \A k \in M : m <= k
  <2>1. M \subseteq Nat /\ M # {}
    BY <1>2
  <2> HIDE DEF M
  <2> QED BY <2>1, SmallestNat
<1>4. m \in Nat /\ m >= 1 /\ m <= Len(s) + 1
  BY <1>1, <1>2, <1>3
<1>5. ASSUME NEW i \in 1 .. m - 1  PROVE ~(t - s[i] <= Window)
  BY <1>1, <1>3, <1>4
<1>6. ASSUME NEW i \in m .. Len(s)  PROVE t - s[i] <= Window
  <2>1. m \in 1 .. Len(s) /\ i \in 1 .. Len(s) /\ m <= i
    BY <1>1, <1>4
  <2>2. t - s[m] <= Window
    BY <1>1, <1>3, <2>1
  <2>3. s[m] <= s[i] /\ s[m] \in Nat /\ s[i] \in Nat
    BY <2>1, ElementOfSeq
  <2> QED BY <1>1, <2>2, <2>3
<1>7. m - 1 \in 0 .. Len(s) /\ (m - 1) + 1 = m
  BY <1>1, <1>4
<1> QED BY <1>5, <1>6, <1>7

\* The slice from the cut on solves the equation, and nothing else does.
LEMMA WindowIsSlice ==
    ASSUME NEW s \in Seq(Nat), NEW t \in Nat, NEW n \in 0 .. Len(s),
           \A i \in 1 .. n : ~(t - s[i] <= Window),
           \A i \in n + 1 .. Len(s) : t - s[i] <= Window
    PROVE  InWindow(s, t) = Slice(s, n, Len(s))
<1> DEFINE g == [i \in 0 .. Len(s) |-> Slice(s, n, i)]
<1>1. Len(s) \in Nat /\ n \in Nat
  OBVIOUS
<1>2. ASSUME NEW i \in 0 .. Len(s), i # 0
      PROVE  /\ i \in 1 .. Len(s) /\ i - 1 \in 0 .. Len(s)
             /\ Slice(s, n, i) = IF t - s[i] <= Window THEN Append(Slice(s, n, i - 1), s[i])
                                 ELSE Slice(s, n, i - 1)
  <2>1. i \in 1 .. Len(s) /\ i - 1 \in 0 .. Len(s)
    BY <1>1, <1>2
  <2>2. CASE i <= n
    <3>1. ~(t - s[i] <= Window)
      BY <2>1, <2>2
    <3> QED BY <1>1, <2>1, <2>2, <3>1, SliceStep
  <2>3. CASE n < i
    <3>1. t - s[i] <= Window
      BY <1>1, <2>1, <2>3
    <3> QED BY <1>1, <2>1, <2>3, <3>1, SliceStep
  <2> QED BY <1>1, <2>1, <2>2, <2>3
<1>3. Slice(s, n, 0) = <<>>
  BY <1>1 DEF Slice
<1>4. Filters(s, t, g)
  <2>1. ASSUME NEW i \in 0 .. Len(s)
        PROVE  g[i] = IF i = 0 THEN <<>>
                      ELSE IF t - s[i] <= Window THEN Append(g[i - 1], s[i]) ELSE g[i - 1]
    <3>1. CASE i = 0
      BY <1>3, <3>1
    <3>2. CASE i # 0
      <4>1. g[i] = Slice(s, n, i) /\ g[i - 1] = Slice(s, n, i - 1)
        BY <1>2, <3>2
      <4> HIDE DEF g
      <4> QED BY <1>2, <3>2, <4>1
    <3> QED BY <3>1, <3>2
  <2>2. g = [i \in 0 .. Len(s) |-> g[i]]
    OBVIOUS
  <2> HIDE DEF g
  <2> QED BY <2>1, <2>2, Zenon DEF Filters
<1>5. PICK f : Filters(s, t, f) /\ InWindow(s, t) = f[Len(s)]
  <2> DEFINE f == CHOOSE h : Filters(s, t, h)
  <2> HIDE DEF g
  <2>1. Filters(s, t, f)
    BY <1>4, Zenon
  <2>2. InWindow(s, t) = f[Len(s)]
    BY Zenon DEF InWindow, Filters
  <2> QED BY <2>1, <2>2, Zenon
<1>6. \A i \in 0 .. Len(s) : f[i] = Slice(s, n, i)
  <2> DEFINE B == {i \in 0 .. Len(s) : f[i] # Slice(s, n, i)}
  <2>0. \A i \in 0 .. Len(s) : f[i] = IF i = 0 THEN <<>>
                 ELSE IF t - s[i] <= Window THEN Append(f[i - 1], s[i]) ELSE f[i - 1]
    BY <1>5, Zenon DEF Filters
  <2>1. SUFFICES ASSUME B # {} PROVE FALSE
    OBVIOUS
  <2>2. PICK i \in B : \A k \in B : i <= k
    <3>1. B \subseteq Nat
      BY <1>1
    <3> HIDE DEF B
    <3> QED BY <2>1, <3>1, SmallestNat
  <2>3. i # 0
    BY <1>3, <2>0, <2>2
  <2>4. i \in 0 .. Len(s) /\ i - 1 \in 0 .. Len(s) /\ i - 1 < i
    BY <1>1, <2>2, <2>3
  <2>5. f[i - 1] = Slice(s, n, i - 1)
    BY <1>1, <2>2, <2>4
  <2>6. f[i] = Slice(s, n, i)
    BY <1>2, <2>0, <2>3, <2>4, <2>5
  <2> QED BY <2>2, <2>6
<1> QED BY <1>1, <1>5, <1>6

\* Pruning at t keeps what the ledger has to remember at t.
LEMMA PrunedRemembers ==
    ASSUME NEW c \in Seq(Nat), NEW s \in Seq(Nat), NEW o \in Nat, NEW t \in Nat, o <= t,
           Remembers(c, s, o)
    PROVE  InWindow(s, t) \in Seq(Nat) /\ Remembers(c, InWindow(s, t), t)
<1> DEFINE d == Len(c) - Len(s)
           w == InWindow(s, t)
<1>1. /\ Len(c) \in Nat /\ Len(s) \in Nat /\ d \in Nat /\ Window \in Nat
      /\ \A i \in 1 .. Len(s) : s[i] = c[d + i] /\ s[i] \in Nat /\ d + i \in 1 .. Len(c)
      /\ \A i \in 1 .. Len(c) : c[i] \in Nat /\ c[i] <= o
      /\ \A i \in 1 .. d : o - c[i] > Window
      /\ \A i, k \in 1 .. Len(c) : i <= k => c[i] <= c[k]
  <2>1. Len(c) \in Nat /\ Len(s) \in Nat /\ d \in Nat /\ Window \in Nat
    BY JobConstantsAssumption DEF Remembers
  <2>2. \A i \in 1 .. Len(s) : d + i \in 1 .. Len(c)
    BY <2>1
  <2>3. /\ \A i \in 1 .. Len(s) : s[i] \in Nat
        /\ \A i \in 1 .. Len(c) : c[i] \in Nat
    BY ElementOfSeq
  <2> QED BY <2>1, <2>2, <2>3 DEF Remembers
<1>2. \A i, k \in 1 .. Len(s) : i <= k => s[i] <= s[k]
  <2> SUFFICES ASSUME NEW i \in 1 .. Len(s), NEW k \in 1 .. Len(s), i <= k
               PROVE  s[i] <= s[k]
    OBVIOUS
  <2>1. d + i <= d + k
    BY <1>1
  <2>2. s[i] = c[d + i] /\ s[k] = c[d + k] /\ d + i \in 1 .. Len(c) /\ d + k \in 1 .. Len(c)
    BY <1>1
  <2> HIDE DEF d
  <2> QED BY <1>1, <2>1, <2>2
<1>3. PICK n \in 0 .. Len(s) : /\ \A i \in 1 .. n : ~(t - s[i] <= Window)
                               /\ \A i \in n + 1 .. Len(s) : t - s[i] <= Window
  BY <1>2, Cut
<1>4. w = Slice(s, n, Len(s))
  BY <1>3, WindowIsSlice
<1>5. n \in Nat /\ n <= Len(s) /\ Len(s) - n \in Nat
  BY <1>1
<1>6. w = [k \in 1 .. Len(s) - n |-> s[n + k]]
  <2>1. (IF Len(s) <= n THEN 0 ELSE Len(s) - n) = Len(s) - n
    BY <1>1, <1>5
  <2> HIDE DEF w
  <2> QED BY <1>4, <2>1 DEF Slice
<1>7. \A k \in 1 .. Len(s) - n : n + k \in 1 .. Len(s) /\ s[n + k] \in Nat
  <2>1. \A k \in 1 .. Len(s) - n : n + k \in 1 .. Len(s)
    BY <1>1, <1>5
  <2> QED BY <1>1, <2>1
<1>8. w \in Seq(Nat) /\ Len(w) = Len(s) - n /\ \A k \in 1 .. Len(w) : w[k] = s[n + k]
  <2> HIDE DEF w
  <2> QED BY <1>5, <1>6, <1>7
<1>9. Len(c) - Len(w) = d + n /\ Len(w) <= Len(c) /\ Len(w) \in Nat
  BY <1>1, <1>5, <1>8
<1>10. ASSUME NEW k \in 1 .. Len(w)  PROVE w[k] = c[Len(c) - Len(w) + k]
  <2>1. n + k \in 1 .. Len(s) /\ w[k] = s[n + k]
    BY <1>7, <1>8
  <2>2. s[n + k] = c[d + (n + k)]
    BY <1>1, <2>1
  <2>3. d + (n + k) = Len(c) - Len(w) + k
    <3> HIDE DEF d, w
    <3>1. /\ d \in Nat /\ n \in Nat /\ k \in Nat /\ Len(c) - Len(w) = d + n
      BY <1>1, <1>5, <1>9
    <3>2. d + (n + k) = (d + n) + k
      BY <3>1
    <3> QED BY <3>1, <3>2, Zenon
  <2> QED BY <2>1, <2>2, <2>3
<1>11. ASSUME NEW i \in 1 .. d + n  PROVE t - c[i] > Window
  <2>1. CASE i <= d
    <3>1. i \in 1 .. d /\ i \in 1 .. Len(c)
      BY <1>1, <1>5, <2>1
    <3>2. o - c[i] > Window /\ c[i] \in Nat
      BY <1>1, <3>1
    <3> HIDE DEF d
    <3> QED BY <1>1, <3>2
  <2>2. CASE d < i
    <3>1. i - d \in 1 .. n /\ i - d \in 1 .. Len(s) /\ d + (i - d) = i
      <4>1. d \in Nat /\ Len(s) \in Nat
        BY <1>1
      <4> HIDE DEF d
      <4> QED BY <1>5, <2>2, <4>1
    <3>2. PICK k \in 1 .. n : k = i - d
      BY <3>1
    <3>3. ~(t - s[k] <= Window) /\ s[k] = c[i] /\ s[k] \in Nat
      BY <1>1, <1>3, <3>1, <3>2
    <3>4. Window \in Nat
      BY <1>1
    <3> HIDE DEF d
    <3> QED BY <3>3, <3>4
  <2> QED BY <1>1, <1>5, <2>1, <2>2
<1>12. \A i \in 1 .. Len(c) : c[i] <= t
  BY <1>1
<1> HIDE DEF w, d
<1>13. Remembers(c, w, t)
  BY <1>1, <1>9, <1>10, <1>11, <1>12 DEF Remembers
<1> QED BY <1>8, <1>13 DEF w

\* A charge at t: the ledger remembers it, and MaxStarts charges before it are
\* out of the window.
LEMMA ChargedRemembers ==
    ASSUME NEW c \in Seq(Nat), NEW s \in Seq(Nat), NEW t \in Nat, Remembers(c, s, t),
           Len(s) < MaxStarts,
           \A i \in 1 .. Len(c) : i + MaxStarts <= Len(c) => c[i + MaxStarts] - c[i] > Window
    PROVE  /\ Append(c, t) \in Seq(Nat) /\ Append(s, t) \in Seq(Nat)
           /\ Remembers(Append(c, t), Append(s, t), t)
           /\ \A i \in 1 .. Len(Append(c, t)) : i + MaxStarts <= Len(Append(c, t)) =>
                 Append(c, t)[i + MaxStarts] - Append(c, t)[i] > Window
<1> DEFINE m == Len(c)
           n == Len(s)
           e == Append(c, t)
           u == Append(s, t)
<1>1. /\ m \in Nat /\ n \in Nat /\ n <= m /\ Window \in Nat /\ MaxStarts \in Nat /\ MaxStarts > 0
      /\ \A i \in 1 .. n : s[i] = c[m - n + i]
      /\ \A i \in 1 .. m - n : t - c[i] > Window
      /\ \A i \in 1 .. m : c[i] \in Nat /\ c[i] <= t
      /\ \A i, k \in 1 .. m : i <= k => c[i] <= c[k]
      /\ n < MaxStarts
      /\ \A i \in 1 .. m : i + MaxStarts <= m => c[i + MaxStarts] - c[i] > Window
  BY JobConstantsAssumption, ElementOfSeq DEF Remembers
<1>2. /\ e \in Seq(Nat) /\ Len(e) = m + 1 /\ e[m + 1] = t
      /\ \A i \in 1 .. m : e[i] = c[i]
      /\ u \in Seq(Nat) /\ Len(u) = n + 1 /\ u[n + 1] = t
      /\ \A i \in 1 .. n : u[i] = s[i]
  BY AppendProperties
<1> HIDE DEF m, n, e, u
<1>3. ASSUME NEW i \in 1 .. n + 1  PROVE u[i] = e[(m + 1) - (n + 1) + i]
  <2>1. CASE i = n + 1
    <3>1. (m + 1) - (n + 1) + i = m + 1
      BY <1>1, <2>1
    <3> QED BY <1>2, <2>1, <3>1
  <2>2. CASE i # n + 1
    <3>1. i \in 1 .. n /\ (m + 1) - (n + 1) + i = m - n + i /\ m - n + i \in 1 .. m
      BY <1>1, <2>2
    <3> QED BY <1>1, <1>2, <3>1
  <2> QED BY <2>1, <2>2
<1>4. ASSUME NEW i \in 1 .. (m + 1) - (n + 1)  PROVE t - e[i] > Window
  <2>1. i \in 1 .. m - n /\ i \in 1 .. m
    BY <1>1
  <2> QED BY <1>1, <1>2, <2>1
<1>5. ASSUME NEW i \in 1 .. m + 1  PROVE e[i] \in Nat /\ e[i] <= t
  <2>1. CASE i = m + 1
    BY <1>2, <2>1
  <2>2. CASE i # m + 1
    <3>1. i \in 1 .. m
      BY <1>1, <2>2
    <3> QED BY <1>1, <1>2, <3>1
  <2> QED BY <2>1, <2>2
<1>6. ASSUME NEW i \in 1 .. m + 1, NEW k \in 1 .. m + 1, i <= k  PROVE e[i] <= e[k]
  <2>1. CASE k = m + 1
    BY <1>2, <1>5, <2>1
  <2>2. CASE k # m + 1
    <3>1. i \in 1 .. m /\ k \in 1 .. m
      BY <1>1, <1>6, <2>2
    <3> QED BY <1>1, <1>2, <1>6, <3>1
  <2> QED BY <2>1, <2>2
<1>7. Remembers(e, u, t)
  <2>1. Len(u) <= Len(e)
    BY <1>1, <1>2
  <2> QED BY <1>2, <1>3, <1>4, <1>5, <1>6, <2>1 DEF Remembers
<1>8. ASSUME NEW i \in 1 .. m + 1, i + MaxStarts <= m + 1
      PROVE  e[i + MaxStarts] - e[i] > Window
  <2>1. CASE i + MaxStarts = m + 1
    <3>1. i \in 1 .. (m + 1) - (n + 1)
      BY <1>1, <2>1
    <3> QED BY <1>2, <1>4, <2>1, <3>1
  <2>2. CASE i + MaxStarts # m + 1
    <3>1. i \in 1 .. m /\ i + MaxStarts \in 1 .. m
      BY <1>1, <1>8, <2>2
    <3>2. e[i] = c[i] /\ e[i + MaxStarts] = c[i + MaxStarts]
      BY <1>2, <3>1
    <3>3. i + MaxStarts <= m
      BY <3>1
    <3> QED BY <1>1, <3>1, <3>2, <3>3
  <2> QED BY <2>1, <2>2
<1>9. \A i \in 1 .. Len(e) : i + MaxStarts <= Len(e) => e[i + MaxStarts] - e[i] > Window
  BY <1>2, <1>8
<1> QED BY <1>2, <1>7, <1>9 DEF e, u

-----------------------------------------------------------------------------
(* Writing the ledger *)

SlotOf(p) == [job |-> JobOf(p, mine[p]), launchUntil |-> LaunchUntil(mine[p]),
              startedAt |-> time[p]]

\* What an invocation knows when it writes the ledger it has read.
LEMMA ChargeFacts ==
    ASSUME AdmissionInv, NEW p \in Lambdas, at[p] = "charge", ledger = ledgerRead[p]
    PROVE  /\ kept[p] \subseteq ledger.reservations
           /\ \A r \in ledger.reservations :
                 /\ r.job # JobOf(p, mine[p]) /\ r \in Reservation
                 /\ r \notin kept[p] => /\ time[p] > r.launchUntil + Fence
                                        /\ MaxActive > 0 => Finished(r)
           /\ time[p] \in Nat /\ ledger.observedAt \in Nat /\ ledger.observedAt <= time[p]
           /\ target[p] \in Works /\ Exists(target[p]) /\ Blank(mine[p])
           /\ JobOf(p, mine[p]) \in Jobs /\ LaunchUntil(mine[p]) \in Nat
           /\ SlotOf(p) \in Reservation
           /\ time[p] <= LaunchUntil(mine[p]) + Fence
           /\ born[p] <= now /\ now <= born[p] + Lifetime
           /\ born[p] < LaunchUntil(mine[p]) + Lag[p]
<1>1. at[p] \in Counting /\ at[p] \in Sworn /\ at[p] \in Launching /\ at[p] # "idle"
  BY DEF Counting, Sworn, Launching
<1>2. Timely(p) /\ Counts(p) /\ Claiming(p)
  BY DEF AdmissionInv
<1>3. /\ target[p] \in Works /\ Dated(mine[p]) /\ time[p] \in Nat /\ born[p] \in Nat
      /\ ledger.observedAt \in Nat /\ ledger.reservations \subseteq Reservation
  BY <1>1 DEF AdmissionInv, SealInv, LocalInv, Deciding, Unsealed, LocalType, AdmissionType, Ledger
<1>4. JobOf(p, mine[p]) \in Jobs /\ LaunchUntil(mine[p]) \in Nat
  BY <1>3, JobInJobs, JobConstantsAssumption DEF LaunchUntil, Dated, Attempt
<1>5. SlotOf(p) \in Reservation
  BY <1>3, <1>4 DEF SlotOf, Reservation
<1>6. /\ born[p] <= now /\ now <= born[p] + Lifetime
      /\ born[p] < LaunchUntil(mine[p]) + Lag[p]
      /\ time[p] <= Clock(p) /\ ledger.observedAt <= time[p]
  BY <1>1, <1>2 DEF Timely
<1>7. time[p] <= LaunchUntil(mine[p]) + Fence
  <2>1. Clock(p) = now - Lag[p] /\ now \in Nat /\ Lag[p] \in Nat
    BY ClockType DEF AdmissionInv
  <2> QED BY <1>3, <1>4, <1>6, <2>1, JobConstantsAssumption
<1> QED BY <1>1, <1>2, <1>3, <1>4, <1>5, <1>6, <1>7 DEF Counts, Claiming

\* The ledger is written: some slots are released, perhaps one is taken.
LEMMA LedgerWritten ==
    ASSUME AdmissionInv, SealInv', NEW p \in Lambdas, at[p] = "charge", ledger = ledgerRead[p],
           NEW place \in {"deny", "fresh"}, LeaveLedger(p, place),
           ledger' \in Ledger, ledger'.observedAt = time[p],
           kept[p] \subseteq ledger'.reservations,
           ledger'.reservations \subseteq kept[p] \cup {SlotOf(p)},
           place = "fresh" => SlotOf(p) \in ledger'.reservations,
           charges' \in Seq(Nat), LedgerRemembers', BudgetNeverExceeded',
           MaxActive > 0 => /\ IsFiniteSet(ledger'.reservations)
                            /\ Cardinality(ledger'.reservations) <= MaxActive,
           UNCHANGED <<now, work, terminal, completions, launches, instances>>
    PROVE  AdmissionInv'
<1> USE PlacesApart
<1> DEFINE t == time[p]
           j == JobOf(p, mine[p])
           until == LaunchUntil(mine[p])
<1>1. /\ kept[p] \subseteq ledger.reservations
      /\ \A r \in ledger.reservations :
            /\ r.job # j /\ r \in Reservation
            /\ r \notin kept[p] => /\ t > r.launchUntil + Fence
                                   /\ MaxActive > 0 => Finished(r)
      /\ t \in Nat /\ ledger.observedAt \in Nat /\ ledger.observedAt <= t
      /\ target[p] \in Works /\ Exists(target[p]) /\ Blank(mine[p])
      /\ j \in Jobs /\ until \in Nat /\ SlotOf(p) \in Reservation /\ t <= until + Fence
  BY ChargeFacts
<1>2. /\ SlotOf(p).job = j /\ SlotOf(p).launchUntil = until
  BY DEF SlotOf
<1>3. /\ Elsewhere(p) /\ UNCHANGED <<target, born, read, mine>>
      /\ at'[p] = place /\ ledgerRead'[p] = EmptyLedger
  BY DEF Elsewhere, LeaveLedger, Goto, AdmissionInv, SealInv, LocalType, AdmissionType
<1>4. AdmissionType'
  BY EmptyLedgerType DEF AdmissionInv, AdmissionType, LeaveLedger
<1>5. /\ place \in Sworn /\ place \in Launching /\ place \notin Counting \cup Sending \cup Completing
      /\ place \in Holding => place = "fresh"
      /\ at[p] \in Launching /\ at[p] \in Sworn /\ at[p] # "idle"
  BY DEF Sworn, Launching, Counting, Sending, Completing, Holding
<1>6. ASSUME NEW q \in Lambdas  PROVE Timely(q)' /\ Claiming(q)' /\ Counts(q)'
  <2>1. CASE q = p
    <3>1. Timely(p) /\ Claiming(p)
      BY DEF AdmissionInv
    <3>2. Timely(p)'
      BY <1>3, <1>5, <3>1 DEF Timely, LaunchUntil
    <3>3. Claiming(p)'
      BY <1>3, <1>5, <3>1 DEF Claiming, Exists
    <3>4. Counts(p)'
      BY <1>3, <1>5 DEF Counts
    <3> QED BY <2>1, <3>2, <3>3, <3>4
  <2>2. CASE q # p
    BY <1>3, <2>2, OtherStays
  <2> QED BY <2>1, <2>2
<1>7. LaunchesTimely'
  BY DEF AdmissionInv, LaunchesTimely
<1>8. ASSUME NEW q \in Lambdas
      PROVE  /\ at'[q] \in Launching <=> at[q] \in Launching
             /\ JobOf(q, mine[q])' = JobOf(q, mine[q])
             /\ LaunchUntil(mine[q])' = LaunchUntil(mine[q])
  BY <1>3, <1>5 DEF Elsewhere, JobOf, LaunchUntil
<1>9. Distinct'
  BY <1>3, <1>8 DEF AdmissionInv, Distinct
<1>10. \A w \in Works : /\ Exists(w)' <=> Exists(w)
                        /\ CurrentJob(w)' = CurrentJob(w)
                        /\ LaunchUntil(work[w])' = LaunchUntil(work[w])
  BY DEF Exists, CurrentJob, LaunchUntil
<1>11. OneDeadline'
  <2>1. ASSUME NEW a \in Stamps'  PROVE a \in Stamps
    <3>1. CASE a \in StampsIn(ledger'.reservations)
      <4>1. PICK r \in ledger'.reservations : a = <<r.job, r.launchUntil>>
        BY <3>1 DEF StampsIn
      <4>2. CASE r \in kept[p]
        BY <1>1, <4>1, <4>2 DEF Stamps, StampsIn
      <4>3. CASE r = SlotOf(p)
        BY <1>2, <1>5, <4>1, <4>3 DEF Stamps, StampOf
      <4> QED BY <4>2, <4>3
    <3>2. CASE a \in {<<CurrentJob(w), LaunchUntil(work[w])>> : w \in {v \in Works : Exists(v)}}'
      BY <1>10, <3>2 DEF Stamps
    <3>3. CASE a \in {StampOf(q) : q \in {x \in Lambdas : at[x] \in Launching}}'
      <4>1. PICK q \in Lambdas : at'[q] \in Launching /\ a = StampOf(q)'
        BY <3>3
      <4>2. at[q] \in Launching /\ a = StampOf(q)
        BY <1>8, <4>1 DEF StampOf
      <4> QED BY <4>2 DEF Stamps
    <3>4. CASE a \in UNION {StampsIn(ledgerRead'[q].reservations) : q \in Lambdas}
      <4>1. \A q \in Lambdas : ledgerRead'[q].reservations \subseteq ledgerRead[q].reservations
        BY <1>3, EmptyLedgerType DEF Elsewhere
      <4> QED BY <3>4, <4>1 DEF Stamps, StampsIn
    <3> QED BY <2>1, <3>1, <3>2, <3>3, <3>4 DEF Stamps
  <2>2. \A i : Claimed(i)' <=> Claimed(i)
    BY DEF Claimed, Exists
  <2> QED BY <2>1, <2>2 DEF AdmissionInv, OneDeadline
<1>12. ResultsAreEarned'
  <2>1. ASSUME NEW q \in Lambdas, at'[q] \in Completing
        PROVE  instances[JobOf(q, mine[q])'] # "none"
    BY <1>3, <1>5, <1>8, <2>1 DEF Elsewhere, AdmissionInv, ResultsAreEarned
  <2> QED BY <2>1 DEF AdmissionInv, ResultsAreEarned
<1>13. \A i : Touched(i)' => Touched(i)
  BY <1>3, <1>5, TouchedOnly
<1>14. ASSUME NEW i, NEW u \in Nat, Held(i, u)  PROVE Held(i, u)'
  <2>1. CASE ledger.observedAt > u + Fence
    BY <1>1, <2>1, JobConstantsAssumption DEF Held
  <2>2. CASE Reserved(i, u)
    <3>1. PICK r \in ledger.reservations : r.job = i /\ r.launchUntil = u
      BY <2>2 DEF Reserved
    <3>2. CASE r \in kept[p]
      BY <3>1, <3>2 DEF Held, Reserved
    <3>3. CASE r \notin kept[p]
      BY <1>1, <3>1, <3>3 DEF Held
    <3> QED BY <3>2, <3>3
  <2> QED BY <1>14, <2>1, <2>2 DEF Held
<1>15. /\ \A w \in Works : Exists(w) => LaunchUntil(work[w]) \in Nat
       /\ \A q \in Lambdas : at[q] \in Launching => LaunchUntil(mine[q]) \in Nat
  BY JobConstantsAssumption DEF LaunchUntil, Exists, AdmissionInv, SealInv, SharedType, Attempt,
       LocalInv, Unsealed, Dated
<1>16. TouchedIsHeld'
  <2>1. \A i \in Jobs : Touched(i)' => Claimed(i)'
    BY <1>13 DEF AdmissionInv, TouchedIsHeld, Claimed, Exists
  <2>2. ASSUME NEW w \in Works, Exists(w)', Touched(CurrentJob(w))'
        PROVE  Held(CurrentJob(w), LaunchUntil(work[w]))'
    <3>1. PICK i : i = CurrentJob(w) /\ CurrentJob(w)' = i /\ Touched(i)'
      BY <1>10, <2>2
    <3>2. PICK u \in Nat : u = LaunchUntil(work[w]) /\ LaunchUntil(work[w])' = u
      BY <1>10, <1>15, <2>2
    <3>3. Held(i, u)
      BY <1>10, <1>13, <2>2, <3>1, <3>2 DEF AdmissionInv, TouchedIsHeld
    <3>4. Held(i, u)'
      BY <1>14, <3>3
    <3> QED BY <3>1, <3>2, <3>4
  <2>3. ASSUME NEW q \in Lambdas, at'[q] \in Holding
        PROVE  Held(JobOf(q, mine[q]), LaunchUntil(mine[q]))'
    <3>1. PICK i : i = JobOf(q, mine[q]) /\ JobOf(q, mine[q])' = i
      BY <1>8
    <3>2. PICK u \in Nat : u = LaunchUntil(mine[q]) /\ LaunchUntil(mine[q])' = u
      BY <1>8, <1>15, <2>3
    <3>3. CASE q = p
      <4>1. Reserved(i, u)'
        BY <1>2, <1>3, <1>5, <2>3, <3>1, <3>2, <3>3 DEF Reserved
      <4> QED BY <3>1, <3>2, <4>1 DEF Held
    <3>4. CASE q # p
      <4>1. at[q] \in Holding
        BY <1>3, <2>3, <3>4 DEF Elsewhere
      <4>2. Held(i, u)
        BY <3>1, <3>2, <4>1 DEF AdmissionInv, TouchedIsHeld
      <4>3. Held(i, u)'
        BY <1>14, <4>2
      <4> QED BY <3>1, <3>2, <4>3
    <3> QED BY <3>3, <3>4
  <2> QED BY <2>1, <2>2, <2>3 DEF TouchedIsHeld
<1>17. DeniedUntouched'
  <2>1. ASSUME NEW w \in Works, Exists(w)', work'[w].denied
        PROVE  WellFormed(work'[w]) /\ ~Touched(CurrentJob(w))'
    <3>1. WellFormed(work[w]) /\ ~Touched(CurrentJob(w))
      BY <1>10, <2>1 DEF AdmissionInv, DeniedUntouched
    <3>2. PICK i : i = CurrentJob(w) /\ CurrentJob(w)' = i
      BY <1>10
    <3>3. ~Touched(i)'
      BY <1>13, <3>1, <3>2
    <3> QED BY <3>1, <3>2, <3>3
  <2>2. ASSUME NEW q \in Lambdas, at'[q] = "deny", work'[target'[q]] = mine'[q]
        PROVE  ~Touched(JobOf(q, mine[q]))'
    <3>1. PICK i : i = JobOf(q, mine[q]) /\ JobOf(q, mine[q])' = i
      BY <1>8
    <3>2. ASSUME Touched(i)  PROVE FALSE
      <4>1. CASE q # p
        <5>1. at[q] = "deny" /\ work[target[q]] = mine[q]
          BY <1>3, <2>2, <4>1 DEF Elsewhere
        <5> QED BY <3>1, <3>2, <5>1 DEF AdmissionInv, DeniedUntouched
      <4>2. CASE q = p
        <5>1. work[target[p]] = mine[p] /\ CurrentJob(target[p]) = i
          BY <1>3, <2>2, <3>1, <4>2 DEF CurrentJob, JobOf
        <5>2. Held(i, until)
          BY <1>1, <3>2, <5>1 DEF AdmissionInv, TouchedIsHeld
        <5>3. ~Reserved(i, until)
          BY <1>1, <3>1, <4>2 DEF Reserved
        <5>4. ledger.observedAt > until + Fence
          BY <5>2, <5>3 DEF Held
        <5> QED BY <1>1, <5>4, JobConstantsAssumption
      <4> QED BY <4>1, <4>2
    <3>3. ~Touched(i)'
      BY <1>13, <3>2
    <3> QED BY <3>1, <3>3
  <2> QED BY <2>1, <2>2 DEF DeniedUntouched, WellFormed
<1>18. Slots'
  <2> SUFFICES ASSUME MaxActive > 0
               PROVE  /\ (\A i \in Alive : \E r \in ledger.reservations : r.job = i)'
                      /\ (\A x \in launches :
                            \/ instances[x.job] = "terminated"
                            \/ \E r \in ledger.reservations :
                                 /\ r.job = x.job
                                 /\ Ambiguity # 0 => x.by < r.launchUntil + Fence + Ambiguity)'
                      /\ (\A q \in Lambdas : at[q] \in Holding =>
                            \/ instances[JobOf(q, mine[q])] = "terminated"
                            \/ Reserved(JobOf(q, mine[q]), LaunchUntil(mine[q])))'
    BY DEF Slots
  <2>1. now \in Nat /\ Fence \in Nat /\ Ambiguity \in Nat /\ Lifetime \in Nat /\ AcceptDelay \in Nat
        /\ Lifetime <= Fence
    BY JobConstantsAssumption DEF AdmissionInv, SealInv, SharedType
  <2>2. ASSUME NEW i \in Alive'  PROVE \E r \in ledger'.reservations : r.job = i
    <3>1. i \in Alive /\ instances[i] \in {"running", "finished"}
      BY DEF Alive
    <3>2. PICK r \in ledger.reservations : r.job = i
      BY <3>1 DEF AdmissionInv, Slots
    <3>3. r \in kept[p]
      BY <1>1, <3>1, <3>2 DEF Finished
    <3> QED BY <3>2, <3>3
  <2>3. ASSUME NEW x \in launches, instances[x.job] # "terminated"
        PROVE  \E r \in ledger'.reservations :
                  r.job = x.job /\ (Ambiguity # 0 => x.by < r.launchUntil + Fence + Ambiguity)
    <3>1. PICK r \in ledger.reservations :
            r.job = x.job /\ (Ambiguity # 0 => x.by < r.launchUntil + Fence + Ambiguity)
      BY <2>3 DEF AdmissionInv, Slots
    <3>2. ASSUME r \notin kept[p]  PROVE FALSE
      <4>1. Ambiguity # 0 /\ now > r.launchUntil + Fence + Ambiguity
        BY <1>1, <2>3, <3>1, <3>2 DEF Finished
      <4>2. now <= x.by /\ x.by \in Nat /\ r.launchUntil \in Nat
        BY <1>1 DEF AdmissionInv, LaunchesTimely, AdmissionType, Reservation
      <4> QED BY <2>1, <3>1, <4>1, <4>2
    <3> QED BY <3>1, <3>2
  <2>4. ASSUME NEW q \in Lambdas, at'[q] \in Holding, instances[JobOf(q, mine[q])] # "terminated"
        PROVE  \E r \in ledger'.reservations :
                  r.job = JobOf(q, mine[q]) /\ r.launchUntil = LaunchUntil(mine[q])
    <3>1. CASE q = p
      BY <1>2, <1>3, <1>5, <2>4, <3>1
    <3>2. CASE q # p
      <4>1. at[q] \in Holding
        BY <1>3, <2>4, <3>2 DEF Elsewhere
      <4>2. PICK r \in ledger.reservations :
              r.job = JobOf(q, mine[q]) /\ r.launchUntil = LaunchUntil(mine[q])
        BY <2>4, <4>1 DEF AdmissionInv, Slots, Reserved
      <4>3. ASSUME r \notin kept[p]  PROVE FALSE
        <5>1. Ambiguity # 0 /\ now > r.launchUntil + Fence + Ambiguity
          BY <1>1, <2>4, <4>2, <4>3 DEF Finished
        <5>2. Timely(q) /\ born[q] \in Nat /\ Lag[q] \in Nat /\ r.launchUntil \in Nat
          BY <1>1, ClockType DEF AdmissionInv, AdmissionType, Reservation
        <5>3. now <= born[q] + Lifetime /\ born[q] < r.launchUntil + Lag[q]
          BY <4>1, <4>2, <5>2 DEF Timely
        <5>4. AcceptDelay + Lag[q] <= Ambiguity
          BY <5>1, JobConstantsAssumption
        <5>5. Lag[q] <= Ambiguity
          BY <2>1, <5>2, <5>4
        <5>6. now <= born[q] + Fence
          BY <2>1, <5>2, <5>3
        <5>7. now < r.launchUntil + Ambiguity + Fence
          BY <2>1, <5>2, <5>3, <5>5, <5>6
        <5> QED BY <2>1, <5>1, <5>2, <5>7
      <4> QED BY <4>2, <4>3
    <3> QED BY <3>1, <3>2
  <2>5. \A q \in Lambdas : at'[q] \in Holding =>
          \/ instances[JobOf(q, mine[q])]' = "terminated"
          \/ Reserved(JobOf(q, mine[q]), LaunchUntil(mine[q]))'
    BY <1>8, <2>4 DEF Reserved
  <2> QED BY <2>2, <2>3, <2>5
<1> QED BY <1>4, <1>6, <1>7, <1>9, <1>11, <1>12, <1>16, <1>17, <1>18 DEF AdmissionInv

\* The ledger moved on since it was read: the invocation reads it again.
LEMMA ChargeLost ==
    ASSUME AdmissionInv, SealInv', NEW p \in Lambdas, at[p] = "charge", LeaveLedger(p, "ledger"),
           UNCHANGED <<now, work, objects, ec2, ledger, charges>>
    PROVE  AdmissionInv'
<1>1. UNCHANGED <<shared, completions>>
  BY DEF shared, objects, ec2
<1>2. /\ at[p] \in Launching \cap Sworn /\ "ledger" \in Launching
      /\ "ledger" \notin Counting \cup Holding \cup Sending
  BY DEF Launching, Sworn, Counting, Holding, Sending
<1>3. /\ Goto(p, "ledger") /\ UNCHANGED <<target, born, read, mine>>
      /\ time' = [time EXCEPT ![p] = time'[p]]
      /\ ledgerRead' = [ledgerRead EXCEPT ![p] = ledgerRead'[p]]
      /\ kept' = [kept EXCEPT ![p] = kept'[p]]
      /\ ledgerRead'[p] = EmptyLedger /\ kept'[p] = {} /\ at'[p] = "ledger"
  BY DEF LeaveLedger, Goto, AdmissionInv, AdmissionType, SealInv, LocalType
<1>4. Counts(p)'
  BY <1>2, <1>3 DEF Counts
<1> QED BY <1>1, <1>2, <1>3, <1>4, EmptyLedgerType, LaunchingQuiet

\* A charge, a denial or a lost race for the ledger.
LEMMA ChargeKeeps ==
    ASSUME AdmissionInv, SealInv', NEW p \in Lambdas, Charge(p)
    PROVE  AdmissionInv'
<1> DEFINE t == time[p]
           slots == kept[p]
           window == InWindow(ledger.starts, t)
<1>1. /\ at[p] = "charge" /\ UNCHANGED <<now, work, objects, ec2>>
      /\ UNCHANGED <<terminal, completions, launches, instances>>
  BY DEF Charge, objects, ec2
<1>2. CASE ~LedgerUnchanged(p)
  BY <1>1, <1>2, ChargeLost DEF Charge
<1>3. CASE LedgerUnchanged(p)
  <2>1. ledger = ledgerRead[p]
    BY <1>3 DEF LedgerUnchanged
  <2>2. /\ slots \subseteq ledger.reservations /\ t \in Nat /\ ledger.observedAt \in Nat
        /\ ledger.observedAt <= t /\ SlotOf(p) \in Reservation
    BY <1>1, <2>1, ChargeFacts
  <2>3. /\ slots \subseteq Reservation /\ ledger.starts \in Seq(Nat) /\ charges \in Seq(Nat)
        /\ LedgerRemembers /\ BudgetNeverExceeded
    BY DEF AdmissionInv, AdmissionType, Ledger
  <2>4. window \in Seq(Nat) /\ Remembers(charges, window, t)
    BY <2>2, <2>3, PrunedRemembers DEF LedgerRemembers
  <2>5. MaxActive > 0 => IsFiniteSet(slots) /\ Cardinality(slots) <= Cardinality(ledger.reservations)
                         /\ Cardinality(ledger.reservations) <= MaxActive
                         /\ Cardinality(slots) \in Nat /\ Cardinality(ledger.reservations) \in Nat
    BY <2>2, FS_Subset, FS_CardinalityType DEF AdmissionInv, Slots
  <2>6. Pruned(ledgerRead[p], kept[p], t) =
            [reservations |-> slots, starts |-> window, observedAt |-> t]
    BY <2>1 DEF Pruned
  <2>7. CASE AtLimit(Pruned(ledgerRead[p], kept[p], t))
    <3>1. /\ ledger' = [reservations |-> slots, starts |-> window, observedAt |-> t]
          /\ charges' = charges /\ LeaveLedger(p, "deny")
      BY <1>3, <2>6, <2>7 DEF Charge
    <3>2. /\ ledger'.reservations = slots /\ ledger'.starts = window /\ ledger'.observedAt = t
          /\ ledger' \in Ledger
      <4> HIDE DEF slots, window, t
      <4> QED BY <2>2, <2>3, <2>4, <3>1 DEF Ledger
    <3>3. LedgerRemembers'
      BY <2>4, <3>1, <3>2 DEF LedgerRemembers, Remembers
    <3>4. BudgetNeverExceeded'
      BY <2>3, <3>1 DEF BudgetNeverExceeded
    <3>5. MaxActive > 0 => /\ IsFiniteSet(ledger'.reservations)
                           /\ Cardinality(ledger'.reservations) <= MaxActive
      <4> HIDE DEF slots
      <4> QED BY <2>5, <3>2, JobConstantsAssumption
    <3> QED BY <1>1, <2>1, <2>3, <3>1, <3>2, <3>3, <3>4, <3>5, LedgerWritten
  <2>8. CASE ~AtLimit(Pruned(ledgerRead[p], kept[p], t))
    <3>1. /\ ledger' = Charged(Pruned(ledgerRead[p], kept[p], t), JobOf(p, mine[p]),
                               LaunchUntil(mine[p]), t)
          /\ charges' = Append(charges, t) /\ LeaveLedger(p, "fresh")
      BY <1>3, <2>8 DEF Charge
    <3>2. ledger' = [reservations |-> slots \cup {SlotOf(p)}, starts |-> Append(window, t),
                     observedAt |-> t]
      BY <2>6, <3>1 DEF Charged, SlotOf
    <3>3. Len(window) < MaxStarts /\ (MaxActive > 0 => Cardinality(slots) < MaxActive)
      <4>1. ~(MaxActive > 0 /\ Cardinality(slots) >= MaxActive) /\ ~(Len(window) >= MaxStarts)
        BY <2>6, <2>8 DEF AtLimit
      <4>2. Len(window) \in Nat /\ MaxStarts \in Nat /\ MaxActive \in Nat
        BY <2>4, LenProperties, JobConstantsAssumption
      <4> HIDE DEF slots, window
      <4> QED BY <2>5, <4>1, <4>2
    <3>4. \A i \in 1 .. Len(charges) : i + MaxStarts <= Len(charges) =>
             charges[i + MaxStarts] - charges[i] > Window
      <4>1. DOMAIN charges = 1 .. Len(charges)
        BY <2>3, LenProperties
      <4> QED BY <2>3, <4>1 DEF BudgetNeverExceeded
    <3>5. /\ Append(charges, t) \in Seq(Nat) /\ Append(window, t) \in Seq(Nat)
          /\ Remembers(Append(charges, t), Append(window, t), t)
          /\ \A i \in 1 .. Len(Append(charges, t)) : i + MaxStarts <= Len(Append(charges, t)) =>
                Append(charges, t)[i + MaxStarts] - Append(charges, t)[i] > Window
      BY <2>2, <2>3, <2>4, <3>3, <3>4, ChargedRemembers
    <3>6. /\ ledger'.reservations = slots \cup {SlotOf(p)} /\ ledger'.observedAt = t
          /\ ledger'.starts = Append(window, t) /\ ledger' \in Ledger
      <4> HIDE DEF slots, window, t
      <4> QED BY <2>2, <2>3, <3>2, <3>5 DEF Ledger
    <3>7. LedgerRemembers'
      <4>1. PICK c, s, o : c = Append(charges, t) /\ s = Append(window, t) /\ o = t
        OBVIOUS
      <4>2. charges' = c /\ ledger'.starts = s /\ ledger'.observedAt = o /\ Remembers(c, s, o)
        BY <3>1, <3>5, <3>6, <4>1
      <4> QED BY <4>2 DEF LedgerRemembers, Remembers
    <3>8. BudgetNeverExceeded'
      <4>1. PICK c \in Seq(Nat) : c = Append(charges, t)
        BY <3>5
      <4>2. DOMAIN c = 1 .. Len(c)
        BY LenProperties
      <4> QED BY <3>1, <3>5, <4>1, <4>2 DEF BudgetNeverExceeded
    <3>9. MaxActive > 0 => /\ IsFiniteSet(slots \cup {SlotOf(p)})
                           /\ Cardinality(slots \cup {SlotOf(p)}) <= MaxActive
      <4> HIDE DEF slots
      <4>1. MaxActive > 0 => /\ IsFiniteSet(slots \cup {SlotOf(p)})
                             /\ Cardinality(slots \cup {SlotOf(p)}) \in
                                  {Cardinality(slots), Cardinality(slots) + 1}
        BY <2>5, FS_AddElement
      <4> QED BY <2>5, <3>3, <4>1, JobConstantsAssumption
    <3> QED BY <1>1, <2>1, <3>1, <3>5, <3>6, <3>7, <3>8, <3>9, LedgerWritten
  <2> QED BY <2>7, <2>8
<1> QED BY <1>2, <1>3

-----------------------------------------------------------------------------
(* The invariant holds *)

\* Nothing has been claimed, reserved or launched.
LEMMA AdmissionInit == Init => AdmissionInv
<1> SUFFICES ASSUME Init PROVE AdmissionInv
  OBVIOUS
<1>1. SealInv
  BY SealInit
<1>2. /\ \A p \in Lambdas : at[p] = "idle" /\ ledgerRead[p] = EmptyLedger
      /\ \A w \in Works : ~Exists(w)
      /\ \A j \in Jobs : instances[j] = "none" /\ terminal[j] = "none"
      /\ launches = {} /\ completions = {} /\ charges = <<>> /\ ledger = EmptyLedger
      /\ EmptyLedger.starts = <<>>
  BY DEF Init, Exists, EmptyLedger
<1>3. "idle" \notin Launching \cup Completing \cup Sworn \cup Counting \cup Holding \cup Sending
  BY DEF Launching, Completing, Sworn, Counting, Holding, Sending
<1>4. AdmissionType
  BY EmptyLedgerType DEF Init, AdmissionType
<1>5. LedgerRemembers /\ BudgetNeverExceeded
  BY <1>2 DEF LedgerRemembers, Remembers, BudgetNeverExceeded
<1>6. LaunchesTimely /\ Distinct
  BY <1>2, <1>3 DEF LaunchesTimely, Distinct
<1>7. Stamps = {}
  BY <1>2, <1>3, EmptyLedgerType DEF Stamps, StampsIn
<1>8. OneDeadline
  BY <1>7 DEF OneDeadline
<1>9. \A p \in Lambdas : Timely(p) /\ Claiming(p) /\ Counts(p)
  BY <1>2, <1>3 DEF Timely, Claiming, Counts
<1>10. ResultsAreEarned
  BY <1>2, <1>3 DEF ResultsAreEarned
<1>11. \A j \in Jobs : ~Touched(j)
  BY <1>2, <1>3 DEF Touched
<1>12. TouchedIsHeld /\ DeniedUntouched
  BY <1>2, <1>3, <1>11 DEF TouchedIsHeld, DeniedUntouched
<1>13. Slots
  <2>1. IsFiniteSet({}) /\ Cardinality({}) = 0 /\ MaxActive \in Nat
    BY FS_EmptySet, JobConstantsAssumption
  <2> QED BY <1>2, <1>3, <2>1, EmptyLedgerType DEF Slots, Alive
<1> QED BY <1>1, <1>4, <1>5, <1>6, <1>8, <1>9, <1>10, <1>12, <1>13 DEF AdmissionInv

\* Nothing changes.
LEMMA StutterKeeps ==
    ASSUME AdmissionInv, SealInv', UNCHANGED vars
    PROVE  AdmissionInv'
<1>1. UNCHANGED <<now, work, terminal, completions, ledger, launches, instances, charges, at,
                  target, born, time, read, mine, ledgerRead, kept>>
  BY DEF vars, objects, ec2, locals
<1>2. AdmissionType'
  BY <1>1 DEF AdmissionInv, AdmissionType
<1>3. (\A q \in Lambdas : Timely(q)') /\ LaunchesTimely'
  BY <1>1 DEF AdmissionInv, Timely, Clock, LaunchUntil, LaunchesTimely
<1>4. \A j \in Jobs : Touched(j)' => Touched(j)
  BY <1>1 DEF Touched, JobOf
<1>5. \A r : Finished(r) => Finished(r)'
  BY <1>1 DEF Finished
<1>6. MaxActive > 0 => \A j \in Alive' : \E r \in ledger.reservations : r.job = j
  BY <1>1 DEF AdmissionInv, Slots, Alive
<1>7. MaxActive > 0 => \A x \in launches' :
         \/ instances'[x.job] = "terminated"
         \/ \E r \in ledger.reservations :
               r.job = x.job /\ (Ambiguity # 0 => x.by < r.launchUntil + Fence + Ambiguity)
  BY <1>1 DEF AdmissionInv, Slots
<1>8. \A j \in Jobs : terminal'[j] # "none" => instances'[j] # "none"
  BY <1>1 DEF AdmissionInv, ResultsAreEarned
<1> QED BY <1>1, <1>2, <1>3, <1>4, <1>5, <1>6, <1>7, <1>8, Outside

\* Every step keeps the invariant.
LEMMA AdmissionNext == AdmissionInv /\ [Next]_vars => AdmissionInv'
<1> SUFFICES ASSUME AdmissionInv, [Next]_vars PROVE AdmissionInv'
  OBVIOUS
<1>1. SealInv'
  BY SealNext DEF AdmissionInv
<1>2. ASSUME NEW p \in Lambdas, SubmitStep(p)  PROVE AdmissionInv'
  BY <1>1, <1>2, BeginQuiet, ReadWorkQuiet, PlanQuiet, EndsQuiet, ClaimAdmission, ChecksQuiet,
     LedgerQuiet, ChargeKeeps, MarksKeep, LaunchBeforeKeeps DEF SubmitStep
<1>3. ASSUME NEW p \in Lambdas, CompletionStep(p)  PROVE AdmissionInv'
  BY <1>1, <1>3, BeginQuiet, CompletionQuiet, SealingKeeps DEF CompletionStep
<1>4. ASSUME NEW p \in Lambdas, Abort(p)  PROVE AdmissionInv'
  BY <1>1, <1>4, EndsQuiet
<1>5. CASE EnvironmentStep
  BY <1>1, <1>5, AcceptKeeps, WorkerKeeps, TickKeeps DEF EnvironmentStep
<1>6. CASE UNCHANGED vars
  BY <1>1, <1>6, StutterKeeps
<1> QED BY <1>2, <1>3, <1>4, <1>5, <1>6 DEF Next

\* The inductive invariant of admission: what the ledger, the records, EC2 and
\* the invocations under way know of each other.
THEOREM AdmissionInvHolds == Spec => []AdmissionInv
<1>1. Init => AdmissionInv
  BY AdmissionInit
<1>2. AdmissionInv /\ [Next]_vars => AdmissionInv'
  BY AdmissionNext
<1> QED BY <1>1, <1>2, PTL DEF Spec

\* reserve_worker never charges more than MaxStarts starts within a window, for
\* any number of racing invocations and any clocks, however late or early.
THEOREM StartsWithinBudget == Spec => []BudgetNeverExceeded
<1>1. AdmissionInv => BudgetNeverExceeded
  BY DEF AdmissionInv
<1> QED BY <1>1, AdmissionInvHolds, PTL

\* An attempt that is recorded as denied has no worker and none on its way: the
\* next generation, which may start at once, is alone.
THEOREM DeniedIsNeverLaunched == Spec => []DeniedNeverLaunched
<1>1. AdmissionInv => DeniedNeverLaunched
  <2> SUFFICES ASSUME AdmissionInv, NEW w \in Works, Exists(w), work[w].denied
               PROVE  /\ WellFormed(work[w])
                      /\ CurrentJob(w) \notin Alive \cup Starting
    BY DEF DeniedNeverLaunched
  <2>1. WellFormed(work[w]) /\ ~Touched(CurrentJob(w))
    BY DEF AdmissionInv, DeniedUntouched
  <2>2. CurrentJob(w) \notin Alive
    BY <2>1 DEF Alive, Touched
  <2>3. CurrentJob(w) \notin Starting
    BY <2>1 DEF Starting, Touched
  <2> QED BY <2>1, <2>2, <2>3
<1> QED BY <1>1, AdmissionInvHolds, PTL

\* With a limit on active workers, the workers that run and those a delayed
\* RunInstances may still start are never more than the limit: no slot is
\* released while a launch that was sent under it can take effect.
THEOREM WorkersAlwaysBounded == Spec => []ActiveWorkersBounded
<1>1. AdmissionInv => ActiveWorkersBounded
  <2> SUFFICES ASSUME AdmissionInv, MaxActive > 0
               PROVE  Cardinality(Alive \cup Starting) <= MaxActive
    BY DEF ActiveWorkersBounded
  <2> DEFINE R == ledger.reservations
             J == {r.job : r \in R}
             L == Alive \cup Starting
  <2>1. IsFiniteSet(R) /\ Cardinality(R) <= MaxActive
    BY DEF AdmissionInv, Slots
  <2>2. \A j \in L : j \in J
    <3>1. \A j \in Alive : j \in J
      BY DEF AdmissionInv, Slots
    <3>2. ASSUME NEW x \in launches, instances[x.job] = "none"  PROVE x.job \in J
      BY <3>2 DEF AdmissionInv, Slots
    <3> QED BY <3>1, <3>2 DEF Starting
  <2> HIDE DEF L, R
  <2>3. IsFiniteSet(J) /\ Cardinality(J) <= Cardinality(R)
    <3> DEFINE f == [r \in R |-> r.job]
    <3>1. f \in Surjection(R, J)
      BY Zenon DEF Surjection
    <3> QED BY <2>1, <3>1, FS_Surjection
  <2>4. Cardinality(L) <= Cardinality(J) /\ IsFiniteSet(L)
    BY <2>2, <2>3, FS_Subset
  <2>5. Cardinality(L) \in Nat /\ Cardinality(J) \in Nat /\ Cardinality(R) \in Nat
    BY <2>1, <2>3, <2>4, FS_CardinalityType
  <2> HIDE DEF J
  <2>6. Cardinality(L) <= MaxActive
    BY <2>1, <2>3, <2>4, <2>5, JobConstantsAssumption
  <2> QED BY <2>6 DEF L
<1> QED BY <1>1, AdmissionInvHolds, PTL

=============================================================================
