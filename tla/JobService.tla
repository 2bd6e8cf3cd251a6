----------------------------- MODULE JobService -----------------------------
(***************************************************************************)
(* The job API, src/offchain-rust/job-api: lambda invocations that share   *)
(* one S3 bucket, start EC2 workers for settlement requests, and publish   *)
(* the results.  Invocations run concurrently and can die anywhere.        *)
(*                                                                         *)
(* One step of an invocation is one call to the bucket or to EC2 together  *)
(* with the local decisions up to the next one.  A revision (S3 ETag)      *)
(* stands for the bytes of an object, so compare_exchange succeeds when    *)
(* the object still is what the caller read.  A call that fails, also one  *)
(* that fails after taking effect, ends the invocation: Abort.             *)
(***************************************************************************)
EXTENDS Integers, Sequences, FiniteSets

CONSTANTS
    Works,           \* canonical settlement requests, one per incident
    Lambdas,         \* concurrent invocations
    NoWork,          \* "there is no work record"
    Lag,             \* how far an invocation's clock is behind
    RetryDelay, LaunchDelay, JobTtl,   \* 60 s, 120 s, job_ttl_seconds
    Window, Fence,   \* 3600 s of accounting, 900 s after the launch deadline
    MaxActive, MaxStarts,              \* AdmissionPolicy; MaxActive = 0: cost only
    Ambiguity,       \* ec2_ambiguity_seconds; 0: not configured
    Lifetime,        \* how long an invocation can run
    AcceptDelay,     \* how long EC2 may take after the sender's death
    Outcomes,        \* what workers leave behind, of {"valid", "invalid", "failed"}
    Polls, Terminations, \* are results polled, and can instances terminate?
    StartTime, MaxTime, MaxGeneration  \* bounds

Jobs == Works \X (0 .. MaxGeneration)

Clocks == [Lambdas -> Nat]

ASSUME JobConstantsAssumption ==
    /\ Lag \in Clocks
    /\ RetryDelay \in Nat \ {0} /\ LaunchDelay \in Nat \ {0} /\ JobTtl \in Nat
    /\ LaunchDelay < JobTtl
    /\ Window \in Nat /\ Fence \in Nat
    /\ MaxActive \in Nat /\ MaxStarts \in Nat \ {0}
    /\ Ambiguity \in Nat /\ Lifetime \in Nat /\ AcceptDelay \in Nat
    /\ Outcomes \subseteq {"valid", "invalid", "failed"} /\ Polls \in BOOLEAN /\ Terminations \in BOOLEAN
    /\ StartTime \in Nat /\ MaxTime \in Nat /\ MaxGeneration \in Nat
    /\ \A p \in Lambdas : Lag[p] < StartTime
    /\ NoWork \notin [generation : Nat, created : Nat, launchRetryAt : Nat,
                      launched : BOOLEAN, completed : BOOLEAN, denied : BOOLEAN]
    \* The safety contract of admission_reconciliation.rs.
    /\ Lifetime <= Fence
    /\ Ambiguity # 0 => \A p \in Lambdas : AcceptDelay + Lag[p] <= Ambiguity

VARIABLES
    now,                    \* real time
    work,                   \* control/work/
    requests,               \* requests/: when the job was created, 0 if absent
    terminal,               \* terminal/: what the worker put there
    completions, completionRequests,   \* control/completions/, .../completion-requests/
    settlements,            \* settlements/v2/: jobs whose result is published
    ledger,                 \* control/admission/v1.json
    launches, instances,    \* EC2: requests in flight, workers
    charges,                \* history: the time of every start charged so far
    at, target, born, time, \* an invocation's place, work, birth, clock reading
    read, mine, ledgerRead, \* records it read; the attempt it launches or publishes
    kept                    \* the reservations it found no reason to release

objects == <<requests, terminal, completions, completionRequests, settlements>>
ec2     == <<launches, instances>>
locals  == <<target, born, time, read, mine, ledgerRead, kept>>
vars    == <<now, work, objects, ledger, ec2, charges, at, locals>>

-----------------------------------------------------------------------------
(* Types *)

Attempt == [generation : 0 .. MaxGeneration, created : Nat, launchRetryAt : Nat,
            launched : BOOLEAN, completed : BOOLEAN, denied : BOOLEAN]

Places == {"idle", "work", "inspect", "retain", "retainRequest", "complete", "seal",
           "sealWrite", "publish", "claim", "request", "recheck", "ledger",
           "inventory", "charge", "deny", "fresh", "launch", "sent"}

EmptyLedger == [reservations |-> {}, starts |-> <<>>, observedAt |-> 0]

-----------------------------------------------------------------------------
(* Reading the state *)

Clock(p) == now - Lag[p]

\* The job of an attempt of p's work: its id is derived from work and generation.
JobOf(p, a) == <<target[p], a.generation>>

LaunchUntil(a) == a.created + LaunchDelay
ExpiresAt(a)   == a.created + JobTtl

\* completion_bytes: durable evidence only once the worker's object is gone.
CompletionOf(j) ==
    IF terminal[j] # "none" THEN terminal[j]
    ELSE IF j \in completions THEN "valid" ELSE "none"

\* Mutated form: whatever attempt is current is taken for the completed one.
AnyStored(a, b) == TRUE

SameStored(a, b) == a.generation = b.generation /\ a.created = b.created

NewAttempt(g, t) ==
    [generation |-> g, created |-> t, launchRetryAt |-> t + RetryDelay,
     launched |-> FALSE, completed |-> FALSE, denied |-> FALSE]

Init ==
    /\ now = StartTime
    /\ work = [w \in Works |-> NoWork]
    /\ requests = [j \in Jobs |-> 0]
    /\ terminal = [j \in Jobs |-> "none"]
    /\ completions = {} /\ completionRequests = [j \in Jobs |-> 0]
    /\ settlements = {}
    /\ ledger = EmptyLedger
    /\ launches = {} /\ instances = [j \in Jobs |-> "none"]
    /\ charges = <<>>
    /\ at = [p \in Lambdas |-> "idle"]
    /\ target = [p \in Lambdas |-> NoWork]
    /\ born = [p \in Lambdas |-> 0] /\ time = [p \in Lambdas |-> 0]
    /\ read = [p \in Lambdas |-> NoWork] /\ mine = [p \in Lambdas |-> NoWork]
    /\ ledgerRead = [p \in Lambdas |-> EmptyLedger] /\ kept = [p \in Lambdas |-> {}]

-----------------------------------------------------------------------------
(* Control flow of an invocation *)

Goto(p, place) == at' = [at EXCEPT ![p] = place]
Step(p, place) == Goto(p, place) /\ UNCHANGED locals

\* The invocation ends: it answers, fails or dies.
Return(p) ==
    /\ Goto(p, "idle")
    /\ target' = [target EXCEPT ![p] = NoWork]
    /\ born' = [born EXCEPT ![p] = 0]
    /\ time' = [time EXCEPT ![p] = 0]
    /\ read' = [read EXCEPT ![p] = NoWork]
    /\ mine' = [mine EXCEPT ![p] = NoWork]
    /\ ledgerRead' = [ledgerRead EXCEPT ![p] = EmptyLedger]
    /\ kept' = [kept EXCEPT ![p] = {}]

\* The head of the retry loop of submit_canonical: the clock, then the record.
Retry(p) ==
    /\ Goto(p, "work")
    /\ time' = [time EXCEPT ![p] = Clock(p)]
    /\ read' = [read EXCEPT ![p] = NoWork]
    /\ mine' = [mine EXCEPT ![p] = NoWork]
    /\ UNCHANGED <<target, born, ledgerRead, kept>>

\* compare_exchange of a work record, when it succeeds.
Exchanged(w, expected, value) ==
    /\ work[w] = expected
    /\ work' = [work EXCEPT ![w] = value]

Lost(w, expected) == work[w] # expected /\ UNCHANGED work

-----------------------------------------------------------------------------
(* submit_canonical: find out what there is to do *)

Submit(p, w) ==
    /\ at[p] = "idle"
    /\ Goto(p, "work")
    /\ target' = [target EXCEPT ![p] = w]
    /\ born' = [born EXCEPT ![p] = now]
    /\ time' = [time EXCEPT ![p] = Clock(p)]
    /\ UNCHANGED <<now, work, objects, ledger, ec2, charges, read, mine, ledgerRead, kept>>

\* A record no invocation writes; a stored one is an error.
WellFormed(a) == ~(a.denied /\ (a.launched \/ a.completed))

\* The attempt is over: denied, failed or expired.  The next generation starts.
Rotates(p, a) ==
    /\ ~a.completed
    /\ \/ a.denied
       \/ CompletionOf(JobOf(p, a)) = "failed"
       \/ time[p] > ExpiresAt(a)

\* Its launch was never confirmed, and there is time to try again.
Resumes(p, a) ==
    /\ ~a.completed
    /\ ~Rotates(p, a)
    /\ CompletionOf(JobOf(p, a)) = "none"
    /\ ~a.launched
    /\ time[p] >= a.launchRetryAt
    /\ time[p] < LaunchUntil(a)

ReadWork(p) ==
    /\ at[p] = "work"
    /\ Goto(p, IF work[target[p]] = NoWork THEN "claim" ELSE "inspect")
    /\ read' = [read EXCEPT ![p] = work[target[p]]]
    /\ mine' = [mine EXCEPT ![p] = IF work[target[p]] = NoWork
                                   THEN NewAttempt(0, time[p]) ELSE NoWork]
    /\ UNCHANGED <<now, work, objects, ledger, ec2, charges, target, born, time, ledgerRead, kept>>

\* Mutated form: the record is completed before the result is retained.
CompleteFirst(p) ==
    /\ at[p] = "inspect"
    /\ WellFormed(read[p]) /\ CompletionOf(JobOf(p, read[p])) = "valid"
    /\ mine' = [mine EXCEPT ![p] = read[p]]
    /\ Goto(p, "complete")
    /\ UNCHANGED <<now, work, objects, ledger, ec2, charges, target, born, time, read, ledgerRead, kept>>

\* The invocation reads and verifies the completion, if any, and decides.
FindCompletion(p) ==
    /\ at[p] = "inspect"
    /\ WellFormed(read[p]) /\ CompletionOf(JobOf(p, read[p])) = "valid"
    /\ mine' = [mine EXCEPT ![p] = read[p]]
    /\ Goto(p, "retain")
    /\ UNCHANGED <<now, work, objects, ledger, ec2, charges, target, born, time, read, ledgerRead, kept>>

PlanAttempt(p) ==
    LET a == read[p] IN
    /\ at[p] = "inspect"
    /\ WellFormed(a) /\ CompletionOf(JobOf(p, a)) # "valid"
    /\ Rotates(p, a) \/ Resumes(p, a)
    /\ a.generation < MaxGeneration \/ Resumes(p, a)          \* bound
    /\ mine' = [mine EXCEPT ![p] =
                  IF Rotates(p, a) THEN NewAttempt(a.generation + 1, time[p])
                  ELSE [generation |-> a.generation, created |-> a.created,
                        launchRetryAt |-> time[p] + RetryDelay, launched |-> FALSE,
                        completed |-> FALSE, denied |-> FALSE]]
    /\ Goto(p, "claim")
    /\ UNCHANGED <<now, work, objects, ledger, ec2, charges, target, born, time, read, ledgerRead, kept>>

\* An attempt is under way (or its stored state is invalid): nothing to do.
Reconnect(p) ==
    LET a == read[p] IN
    /\ at[p] = "inspect"
    /\ \/ ~WellFormed(a)
       \/ CompletionOf(JobOf(p, a)) # "valid" /\ ~Rotates(p, a) /\ ~Resumes(p, a)
    /\ Return(p)
    /\ UNCHANGED <<now, work, objects, ledger, ec2, charges>>

-----------------------------------------------------------------------------
(* Completions: poll, retain, seal, publish *)

\* The stored request of a completed job that is polled: the durable copy, or
\* the request.
StoredRequest(j) ==
    IF completionRequests[j] # 0 THEN completionRequests[j] ELSE requests[j]

Poll(p, j) ==
    /\ at[p] = "idle"
    /\ CompletionOf(j) = "valid" /\ StoredRequest(j) # 0
    /\ Goto(p, "retain")
    /\ target' = [target EXCEPT ![p] = j[1]]
    /\ born' = [born EXCEPT ![p] = now]
    /\ mine' = [mine EXCEPT ![p] = NewAttempt(j[2], StoredRequest(j))]
    /\ UNCHANGED <<now, work, objects, ledger, ec2, charges, time, read, ledgerRead, kept>>

\* retain_completion: two create-only objects, one after the other.  A poll has
\* read no work record and goes on to the seal.
Retain(p) ==
    /\ at[p] = "retain"
    /\ completions' = completions \cup {JobOf(p, mine[p])}
    /\ Step(p, "retainRequest")
    /\ UNCHANGED <<now, work, requests, terminal, completionRequests, settlements,
                   ledger, ec2, charges>>

RetainRequest(p) ==
    LET j == JobOf(p, mine[p]) IN
    /\ at[p] = "retainRequest"
    /\ completionRequests[j] \in {0, mine[p].created}
    /\ completionRequests' = [completionRequests EXCEPT ![j] = mine[p].created]
    /\ Step(p, IF read[p] = NoWork \/ mine[p].completed THEN "seal" ELSE "complete")
    /\ UNCHANGED <<now, work, requests, terminal, completions, settlements,
                   ledger, ec2, charges>>

Completed(a) ==
    [generation |-> a.generation, created |-> a.created, launchRetryAt |-> a.launchRetryAt,
     launched |-> a.launched, completed |-> TRUE, denied |-> a.denied]

\* The completion in the work record; a lost race starts over.
Complete(p) ==
    /\ at[p] = "complete"
    /\ \/ Exchanged(target[p], read[p], Completed(read[p])) /\ Step(p, "seal")
       \/ Lost(target[p], read[p]) /\ Retry(p)
    /\ UNCHANGED <<now, objects, ledger, ec2, charges>>

\* Mutated form: a record that is completed already counts as published.
SealOnce(p) ==
    LET a == work[target[p]] IN
    /\ at[p] = "seal"
    /\ IF a = NoWork \/ ~SameStored(a, mine[p]) \/ a.completed
       THEN Return(p)
       ELSE /\ Goto(p, "sealWrite")
            /\ read' = [read EXCEPT ![p] = a]
            /\ UNCHANGED <<target, born, time, mine, ledgerRead, kept>>
    /\ UNCHANGED <<now, work, objects, ledger, ec2, charges>>

\* seal_settlement_completion.  A replaced attempt is never published.
Seal(p) ==
    LET a == work[target[p]] IN
    /\ at[p] = "seal"
    /\ IF a = NoWork \/ ~SameStored(a, mine[p])
       THEN Return(p)
       ELSE /\ Goto(p, IF a.completed THEN "publish" ELSE "sealWrite")
            /\ read' = [read EXCEPT ![p] = a]
            /\ UNCHANGED <<target, born, time, mine, ledgerRead, kept>>
    /\ UNCHANGED <<now, work, objects, ledger, ec2, charges>>

SealWrite(p) ==
    /\ at[p] = "sealWrite"
    /\ \/ Exchanged(target[p], read[p], Completed(read[p])) /\ Step(p, "publish")
       \/ Lost(target[p], read[p]) /\ Step(p, "seal")
    /\ UNCHANGED <<now, objects, ledger, ec2, charges>>

\* The locator names incident and root, which all valid results share; the
\* object is created once, and an existing one is verified and left alone.
Publish(p) ==
    /\ at[p] = "publish"
    /\ settlements' = IF \E j \in settlements : j[1] = target[p] THEN settlements
                      ELSE settlements \cup {JobOf(p, mine[p])}
    /\ Return(p)
    /\ UNCHANGED <<now, work, requests, terminal, completions, completionRequests,
                   ledger, ec2, charges>>

-----------------------------------------------------------------------------
(* submit_canonical: own an attempt, reserve a worker, launch it *)

\* The attempt is claimed (after the chain precheck, which may refuse: PrecheckFails).
Claim(p) ==
    /\ at[p] = "claim"
    /\ \/ /\ Exchanged(target[p], read[p], mine[p])
          /\ Goto(p, "request")
          /\ read' = [read EXCEPT ![p] = NoWork]
          /\ time' = [time EXCEPT ![p] = 0]
          /\ UNCHANGED <<target, born, mine, ledgerRead, kept>>
       \/ Lost(target[p], read[p]) /\ Retry(p)
    /\ UNCHANGED <<now, objects, ledger, ec2, charges>>

\* Create-only; an existing request must be the same one.
PutRequest(p) ==
    LET j == JobOf(p, mine[p]) IN
    /\ at[p] = "request"
    /\ requests[j] \in {0, mine[p].created}
    /\ requests' = [requests EXCEPT ![j] = mine[p].created]
    /\ Step(p, "recheck")
    /\ UNCHANGED <<now, work, terminal, completions, completionRequests, settlements,
                   ledger, ec2, charges>>

Owns(p) == work[target[p]] = mine[p] /\ Clock(p) < LaunchUntil(mine[p])

Recheck(p) ==
    /\ at[p] = "recheck"
    /\ IF Owns(p) THEN Step(p, "ledger") ELSE Return(p)
    /\ UNCHANGED <<now, work, objects, ledger, ec2, charges>>

\* Mutated form: clocks are trusted.
NoRollbackCheck(p) == FALSE

\* A clock that is behind the ledger must not revive what was pruned.
RolledBack(p) ==
    \/ Clock(p) < ledger.observedAt
    \/ \E i \in DOMAIN ledger.starts : ledger.starts[i] > Clock(p)

\* Mutated form: an empty inventory is believed at once.
ReleasableAtOnce(r, t) ==
    /\ t > r.launchUntil
    /\ instances[r.job] \in {"none", "terminated"}

\* Cost-only accounting; positive evidence of termination; or a complete
\* inventory without a live instance, taken after every launch must be visible.
Releasable(r, t) ==
    IF MaxActive = 0
    THEN t > r.startedAt + Window /\ t > r.launchUntil + Fence
    ELSE IF Ambiguity = 0
    THEN t > r.launchUntil + Fence /\ instances[r.job] = "terminated"
    ELSE t > r.launchUntil + Fence + Ambiguity /\ instances[r.job] \in {"none", "terminated"}

InWindow(starts, t) ==
    LET retained[n \in 0 .. Len(starts)] ==
          IF n = 0 THEN <<>>
          ELSE IF t - starts[n] <= Window THEN Append(retained[n - 1], starts[n])
          ELSE retained[n - 1]
    IN  retained[Len(starts)]

Pruned(l, slots, t) ==
    [reservations |-> slots, starts |-> InWindow(l.starts, t), observedAt |-> t]

AtLimit(l) ==
    \/ MaxActive > 0 /\ Cardinality(l.reservations) >= MaxActive
    \/ Len(l.starts) >= MaxStarts

Charged(l, j, until, t) ==
    [reservations |-> l.reservations \cup {[job |-> j, launchUntil |-> until, startedAt |-> t]},
     starts |-> Append(l.starts, t), observedAt |-> l.observedAt]

\* Mutated form: the ledger is written whatever happened since it was read.
LedgerUnchecked(p) == TRUE

LedgerUnchanged(p) == ledger = ledgerRead[p]

LeaveLedger(p, place) ==
    /\ Goto(p, place)
    /\ time' = [time EXCEPT ![p] = 0]
    /\ ledgerRead' = [ledgerRead EXCEPT ![p] = EmptyLedger]
    /\ kept' = [kept EXCEPT ![p] = {}]
    /\ UNCHANGED <<target, born, read, mine>>

ReservationOf(p) == {r \in ledger.reservations : r.job = JobOf(p, mine[p])}

\* reserve_worker reads the ledger.  A reservation of its own is good enough.
\* Only a limit on active workers asks EC2 about the others.
ReadLedger(p) ==
    /\ at[p] = "ledger"
    /\ IF RolledBack(p) THEN Return(p)
       ELSE IF ReservationOf(p) # {}
       THEN IF \E r \in ReservationOf(p) : r.launchUntil = LaunchUntil(mine[p])
            THEN Step(p, "fresh") ELSE Return(p)
       ELSE /\ Goto(p, IF MaxActive > 0 /\ ledger.reservations # {} THEN "inventory" ELSE "charge")
            /\ time' = [time EXCEPT ![p] = Clock(p)]
            /\ ledgerRead' = [ledgerRead EXCEPT ![p] = ledger]
            /\ kept' = [kept EXCEPT ![p] = {r \in ledger.reservations : ~Releasable(r, Clock(p))}]
            /\ UNCHANGED <<target, born, read, mine>>
    /\ UNCHANGED <<now, work, objects, ledger, ec2, charges>>

\* can_release_reservation for every slot.  One whose inventory cannot be had
\* is kept.
QueryInventory(p) ==
    LET held == ledgerRead[p].reservations IN
    /\ at[p] = "inventory"
    /\ Goto(p, "charge")
    /\ \E freed \in SUBSET {r \in held : Releasable(r, time[p])} :
          kept' = [kept EXCEPT ![p] = held \ freed]
    /\ UNCHANGED <<target, born, time, read, mine, ledgerRead>>
    /\ UNCHANGED <<now, work, objects, ledger, ec2, charges>>

\* The rest of reserve_worker.  The pruned ledger is committed even when the
\* request is denied.
Charge(p) ==
    LET t == time[p]
        pruned == Pruned(ledgerRead[p], kept[p], t)
    IN  /\ at[p] = "charge"
        /\ \/ /\ LedgerUnchanged(p)
              /\ \/ /\ AtLimit(pruned)
                    /\ ledger' = pruned /\ UNCHANGED charges
                    /\ LeaveLedger(p, "deny")
                 \/ /\ ~AtLimit(pruned)
                    /\ ledger' = Charged(pruned, JobOf(p, mine[p]), LaunchUntil(mine[p]), t)
                    /\ charges' = Append(charges, t)
                    /\ LeaveLedger(p, "fresh")
           \/ /\ ~LedgerUnchanged(p)
              /\ LeaveLedger(p, "ledger")
              /\ UNCHANGED <<ledger, charges>>
        /\ UNCHANGED <<now, work, objects, ec2>>

Denied(a) ==
    [generation |-> a.generation, created |-> a.created, launchRetryAt |-> a.launchRetryAt,
     launched |-> a.launched, completed |-> a.completed, denied |-> TRUE]

\* A denial is recorded unless somebody else owns the record by now.
Deny(p) ==
    /\ at[p] = "deny"
    /\ \/ Exchanged(target[p], mine[p], Denied(mine[p]))
       \/ Lost(target[p], mine[p])
    /\ Return(p)
    /\ UNCHANGED <<now, objects, ledger, ec2, charges>>

Fresh(p) ==
    /\ at[p] = "fresh"
    /\ IF Owns(p) THEN Step(p, "launch") ELSE Return(p)
    /\ UNCHANGED <<now, work, objects, ledger, ec2, charges>>

\* launch_before: the deadline once more, then RunInstances is sent.  EC2 acts
\* on it within AcceptDelay of the latest moment the sender can be alive.
LaunchBefore(p) ==
    /\ at[p] = "launch"
    /\ IF Clock(p) < LaunchUntil(mine[p])
       THEN /\ launches' = launches \cup
                  {[job |-> JobOf(p, mine[p]), by |-> born[p] + Lifetime + AcceptDelay]}
            /\ Step(p, "sent")
       ELSE Return(p) /\ UNCHANGED launches
    /\ UNCHANGED <<now, work, objects, ledger, instances, charges>>

Launched(a) ==
    [generation |-> a.generation, created |-> a.created, launchRetryAt |-> a.launchRetryAt,
     launched |-> TRUE, completed |-> a.completed, denied |-> a.denied]

\* RunInstances has answered that the instance exists, and the record is marked
\* unless somebody else owns it by now.
MarkLaunched(p) ==
    /\ at[p] = "sent"
    /\ instances[JobOf(p, mine[p])] # "none"
    /\ \/ Exchanged(target[p], mine[p], Launched(mine[p]))
       \/ Lost(target[p], mine[p])
    /\ Return(p)
    /\ UNCHANGED <<now, objects, ledger, ec2, charges>>

\* The precheck refuses, or RunInstances answers with an error, which says
\* nothing about the request that was sent.
PrecheckFails(p) ==
    /\ at[p] = "claim"
    /\ Return(p)
    /\ UNCHANGED <<now, work, objects, ledger, ec2, charges>>

LaunchFails(p) ==
    /\ at[p] = "sent"
    /\ Return(p)
    /\ UNCHANGED <<now, work, objects, ledger, ec2, charges>>

\* A call to the bucket fails, or the lambda crashes or times out.
Abort(p) ==
    /\ at[p] # "idle"
    /\ Return(p)
    /\ UNCHANGED <<now, work, objects, ledger, ec2, charges>>

-----------------------------------------------------------------------------
(* Workers and storage *)

\* EC2 accepts a request (once per client token, which is the job id) or loses it.
Accept(r) ==
    /\ launches' = launches \ {r}
    /\ instances' = [instances EXCEPT ![r.job] = IF @ = "none" THEN "running" ELSE @]
    /\ UNCHANGED <<now, work, objects, ledger, charges, at, locals>>

Drop(r) ==
    /\ launches' = launches \ {r}
    /\ UNCHANGED <<now, work, objects, ledger, instances, charges, at, locals>>

\* The parent process: it needs the request, and puts one terminal object.
PutTerminal(j, outcome) ==
    /\ instances[j] = "running"
    /\ requests[j] = 0 => outcome = "failed"
    /\ instances' = [instances EXCEPT ![j] = "finished"]
    /\ terminal' = [terminal EXCEPT ![j] = IF @ = "none" THEN outcome ELSE @]
    /\ UNCHANGED <<now, work, requests, completions, completionRequests, settlements,
                   ledger, launches, charges, at, locals>>

\* An instance shuts down, dies or is terminated by the janitor.
Terminate(j) ==
    /\ instances[j] \in {"running", "finished"}
    /\ instances' = [instances EXCEPT ![j] = "terminated"]
    /\ UNCHANGED <<now, work, objects, ledger, launches, charges, at, locals>>

\* Bucket life cycle: terminal objects go first, then requests, long after the
\* job has expired; control/ and settlements/ never expire.
ExpireTerminal(j) ==
    /\ terminal[j] # "none" /\ instances[j] = "terminated"
    /\ now > requests[j] + JobTtl
    /\ terminal' = [terminal EXCEPT ![j] = "none"]
    /\ UNCHANGED <<now, work, requests, completions, completionRequests, settlements,
                   ledger, ec2, charges, at, locals>>

ExpireRequest(j) ==
    /\ requests[j] # 0 /\ terminal[j] = "none"
    /\ now > requests[j] + JobTtl
    /\ requests' = [requests EXCEPT ![j] = 0]
    /\ UNCHANGED <<now, work, terminal, completions, completionRequests, settlements,
                   ledger, ec2, charges, at, locals>>

\* Nobody outlives its lifetime, and EC2 keeps to the contract.
Tick ==
    /\ now < MaxTime                                          \* bound
    /\ \A p \in Lambdas : at[p] # "idle" => now < born[p] + Lifetime
    /\ \A r \in launches : now < r.by
    /\ now' = now + 1
    /\ UNCHANGED <<work, objects, ledger, ec2, charges, at, locals>>

SubmitStep(p) ==
    \/ \E w \in Works : Submit(p, w)
    \/ ReadWork(p) \/ FindCompletion(p) \/ PlanAttempt(p) \/ Reconnect(p)
    \/ Claim(p) \/ PutRequest(p) \/ Recheck(p) \/ ReadLedger(p) \/ QueryInventory(p) \/ Charge(p)
    \/ Deny(p) \/ Fresh(p) \/ LaunchBefore(p) \/ MarkLaunched(p)
    \/ PrecheckFails(p) \/ LaunchFails(p)

CompletionStep(p) ==
    \/ Polls /\ \E j \in Jobs : Poll(p, j)
    \/ Retain(p) \/ RetainRequest(p) \/ Complete(p) \/ Seal(p) \/ SealWrite(p) \/ Publish(p)

EnvironmentStep ==
    \/ \E r \in launches : Accept(r) \/ Drop(r)
    \/ \E j \in Jobs, outcome \in Outcomes : PutTerminal(j, outcome)
    \/ Terminations /\ \E j \in Jobs : Terminate(j)
    \/ \E j \in Jobs : ExpireTerminal(j) \/ ExpireRequest(j)
    \/ Tick

Next ==
    \/ \E p \in Lambdas : SubmitStep(p) \/ CompletionStep(p) \/ Abort(p)
    \/ EnvironmentStep

Spec == Init /\ [][Next]_vars

\* Clients ask again until they have their result, an invocation keeps going,
\* and failures end: eventually an invocation stops only where it is answered.
Fairness ==
    \A p \in Lambdas :
        /\ \A w \in Works : SF_vars(Submit(p, w))
        /\ WF_vars(SubmitStep(p) \/ CompletionStep(p))
        /\ <>[][Abort(p) => SubmitStep(p) \/ CompletionStep(p)]_vars

LiveSpec == Spec /\ Fairness

-----------------------------------------------------------------------------
(* Properties *)

Exists(w) == work[w] # NoWork
CurrentJob(w) == <<w, work[w].generation>>
Alive == {j \in Jobs : instances[j] \in {"running", "finished"}}
Starting == {r.job : r \in {x \in launches : instances[x.job] = "none"}}

\* There are never more workers, running or about to start, than the policy
\* allows: no slot is given away while a delayed launch can still use it.
ActiveWorkersBounded ==
    MaxActive > 0 => Cardinality(Alive \cup Starting) <= MaxActive

\* Any MaxStarts + 1 successive charges span more than the window, whatever
\* invocations race for the ledger and however their clocks differ.
BudgetNeverExceeded ==
    \A i \in DOMAIN charges :
        i + MaxStarts <= Len(charges) => charges[i + MaxStarts] - charges[i] > Window

\* A denied attempt has no worker and none on its way, so the next generation,
\* which may start at once, is alone.  (It may still hold a slot, reserved by an
\* owner that lost the record before it could launch.)
DeniedNeverLaunched ==
    \A w \in Works : Exists(w) /\ work[w].denied =>
        /\ WellFormed(work[w])
        /\ CurrentJob(w) \notin Alive \cup Starting

\* What is published is the sealed result of the current attempt: a replaced
\* attempt that finishes late is never offered for relay.
PublishedIsSealed ==
    \A j \in settlements : Exists(j[1]) /\ work[j[1]].completed /\ CurrentJob(j[1]) = j

\* The result behind a sealed record outlives the worker's objects, wherever
\* the sealing invocation died.
SealedHasEvidence ==
    \A w \in Works : Exists(w) /\ work[w].completed =>
        /\ CurrentJob(w) \in completions
        /\ completionRequests[CurrentJob(w)] = work[w].created

\* A sealed record never changes again; in particular it is not replaced.
SealedIsFinal ==
    [][\A w \in Works : Exists(w) /\ work[w].completed => work'[w] = work[w]]_vars

\* A sealed result gets published, also when the invocation that sealed it died.
SealedIsPublished ==
    \A w \in Works : (Exists(w) /\ work[w].completed) ~> (\E j \in settlements : j[1] = w)
=============================================================================
