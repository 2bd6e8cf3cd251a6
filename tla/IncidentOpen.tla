---------------------------- MODULE IncidentOpen ----------------------------
(***************************************************************************)
(* How an incident is opened on the evidence of a price drop.              *)
(*                                                                         *)
(* src/offchain-rust/src/incident_open.rs finds the drop in the finalized  *)
(* history of a token's conversion ratio and signs an authorization, while *)
(* blocks are mined and finalized and the provider may change to another   *)
(* chain.  Before a worker is paid for, job-api's lambda asks the advisory *)
(* cache (open_advisory_cache.rs, open_advisory_rpc.rs), one object in S3  *)
(* that many invocations share by conditional writes: it holds a           *)
(* reservation for one scan of the history at a time and the last result.  *)
(*                                                                         *)
(* A block carries the contract's state after it, and its hash is the      *)
(* chain up to it.  One token is followed, its listing, the signer and the *)
(* measured image do not change.                                           *)
(***************************************************************************)
EXTENDS Integers, Sequences, FiniteSets, FiniteSetsExt

CONSTANTS
    Histories,               \* initial ratios, of blocks 0, Step, 2 * Step ...
    Ratios,                  \* conversion ratios of later blocks
    Policies, Policy0,       \* open-price policies and the first one
    Drop, Bps,               \* the minimum drop of a policy, in basis points
    Twap, Step,              \* the averaging window and the sampling step, in blocks
    MaxAge,                  \* maxReferenceBlockAge
    MaxPoints,               \* MAX_INCIDENT_OPEN_DISCOVERY_POINTS
    PhaseWindow,             \* in blocks: a block's timestamp is its number
    Invocations,             \* of the lambda
    Hold,                    \* a reservation, and the freshness of a result (60 s)
    Keep,                    \* how long a result is shown (1 h)
    CacheBudget, Deadline,   \* limits of the cache and of an invocation (24 s, 28 s)
    ForkBlocks,              \* the provider may change to a chain that differs after one of these
    MaxBlock, MaxPolicies, MaxSigned, MaxJobs, MaxTime,   \* bounds
    None                     \* no value

ASSUME OpenAssumption ==
    /\ Histories \subseteq Seq(Nat) \ {<<>>} /\ Ratios \subseteq Nat /\ ForkBlocks \subseteq Nat
    /\ Twap \in Nat /\ Step \in Nat /\ MaxAge \in Nat
    /\ Step > 0 /\ Twap % Step = 0 /\ Twap \div Step >= 2 /\ Twap < MaxAge
    /\ Policy0 \in Policies /\ \A p \in Policies : Drop[p] \in 1 .. Bps - 1
    /\ CacheBudget \in Nat \ {0} /\ Deadline \in Nat /\ Hold \in Nat /\ Keep \in Nat
    /\ CacheBudget <= Deadline /\ CacheBudget <= Hold /\ Hold <= Keep
    /\ MaxTime \in Nat /\ None \notin Nat

VARIABLES
    chain,       \* the provider's chain; chain[n + 1] is block n
    finalized,   \* the number of its finalized block
    switched,    \* has the provider changed chains?
    build,       \* build_incident_open in the enclave
    signed,      \* authorizations
    now,         \* seconds
    record,      \* the cache's object
    inv,         \* an invocation's progress
    scans,       \* finished scans: when they were reserved and what they found
    jobs         \* submitted open jobs

vars == <<chain, finalized, switched, build, signed, now, record, inv, scans, jobs>>
cacheVars == <<now, record, inv, scans, jobs>>
chainVars == <<chain, finalized, switched>>

Latest    == Len(chain) - 1
At(n)     == chain[n + 1]
HashAt(n) == SubSeq(chain, 1, n + 1)

-----------------------------------------------------------------------------
(* The contract and the chain. *)

\* _activeIncidentId at the time of block n, from the state s after a block.
\* precheck_incident_open and build_incident_open repeat this computation.
Active(s, n) ==
    s.next > 1 /\ (n <= s.deadline \/ (s.unresolved /\ n <= s.deadline + PhaseWindow))

Genesis(r) == [ratio |-> r, policy |-> Policy0, next |-> 1, deadline |-> 0, unresolved |-> FALSE,
                  opening |-> None]

\* fileClaim with an open signature: the digest binds the next incident and the
\* eligibility hash, and _openIncident bounds the reference block.
Opens(s, a, n) ==
    /\ ~Active(s, n) /\ a.id = s.next /\ a.policy = s.policy
    /\ a.reference > 0 /\ a.reference < n /\ n - a.reference <= MaxAge

Opened(s, a, n) ==
    [s EXCEPT !.next = @ + 1, !.deadline = n + PhaseWindow, !.unresolved = TRUE, !.opening = a]

\* Block n after the state s: nothing, a new policy, an incident opened, or
\* the last claim resolved.
Successors(s, n) ==
    {s} \cup {[s EXCEPT !.policy = p] : p \in {q \in Policies : ~Active(s, n)}}
        \cup {Opened(s, a, n) : a \in {b \in signed : Opens(s, b, n)}}
        \cup {[s EXCEPT !.unresolved = FALSE] : x \in {y \in {s} : Active(s, n)}}

PolicyChanges == Cardinality({n \in 1 .. Latest : At(n).policy # At(n - 1).policy})

\* Ratios between sampled blocks are never read and stay.
Mine ==
    /\ Latest < MaxBlock
    /\ LET n == Latest + 1 IN
       \E s \in Successors([At(Latest) EXCEPT !.opening = None], n) :
       \E r \in IF n % Step = 0 THEN Ratios ELSE {At(Latest).ratio} :
        /\ s.policy # At(Latest).policy => PolicyChanges < MaxPolicies
        /\ chain' = Append(chain, [s EXCEPT !.ratio = r])
    /\ UNCHANGED <<finalized, switched, build, signed, cacheVars>>

Finalize ==
    /\ finalized < Latest /\ finalized' = Latest
    /\ UNCHANGED <<chain, switched, build, signed, cacheVars>>

\* Once, the provider changes to a chain without the later changes.
Switch ==
    /\ ~switched /\ switched' = TRUE
    /\ \E b \in ForkBlocks :
        /\ b < Latest
        /\ chain' = [i \in DOMAIN chain |->
                        IF i <= b + 1 THEN chain[i] ELSE [At(b) EXCEPT !.opening = None]]
    /\ UNCHANGED <<finalized, build, signed, cacheVars>>

-----------------------------------------------------------------------------
(* discover_incident_open_twap. *)

Sum(f, S) == MapThenSumSet(LAMBDA i : f[i], S)

\* Mutated form: the first window keeps the sample it leaves.
Sticky(w, ratio, i, n) ==
    [base     |-> w.base + ratio[i + n],
     distress |-> w.distress - ratio[i + n + 1] + ratio[i + 2 * n + 1]]

\* Both windows move one sample to the right; n samples each.
Slide(w, ratio, i, n) ==
    [base     |-> w.base - ratio[i] + ratio[i + n],
     distress |-> w.distress - ratio[i + n + 1] + ratio[i + 2 * n + 1]]

Earliest(latest) == Max({latest - MaxAge, Twap, 1})
First(latest)    == ((Earliest(latest) + Step - 1) \div Step) * Step
Last(final)      == ((final - Twap) \div Step) * Step

\* The conversion ratio at every Step-th block from a first one on.
ratios_at(first, count) == [i \in 0 .. count - 1 |-> At(first + i * Step).ratio]

\* The sums of the two windows at every candidate.
windows(ratio, n, count) ==
    LET window[i \in 0 .. count - 1] ==
            IF i = 0 THEN [base |-> Sum(ratio, 0 .. n - 1), distress |-> Sum(ratio, n + 1 .. 2 * n)]
            ELSE Slide(window[i - 1], ratio, i - 1, n)
    IN  window

NoWindow == [outcome |-> "unavailable"]
NoDrop   == [outcome |-> "noDrop"]

\* Samples before a candidate against samples after it; the start of the last
\* run of candidates that qualify is selected.
discover(latest, final, policy) ==
    LET first == First(latest)
        n     == Twap \div Step
        count == (Last(final) - first) \div Step + 1
        window == windows(ratios_at(first - Twap, count + 2 * n), n, count)
        qualified(i) == window[i].distress * Bps < window[i].base * (Bps - Drop[policy])
        starts == {i \in 0 .. count - 1 : qualified(i) /\ (i > 0 => ~qualified(i - 1))}
    IN  IF final < Twap \/ first > Last(final) \/ first >= latest \/ count + 2 * n > MaxPoints
        THEN NoWindow
        ELSE IF starts = {} THEN NoDrop
        ELSE [outcome |-> "qualifying", reference |-> first + Max(starts) * Step]

-----------------------------------------------------------------------------
(* build_incident_open. *)

\* Its local variables, when it has none.
Idle == [pc |-> "idle", finalized |-> 0, finalizedHash |-> <<>>, head |-> 0, headHash |-> <<>>,
         id |-> 0, policy |-> None, reference |-> 0]

notBuild == <<chainVars, cacheVars>>

Fails == build' = Idle /\ UNCHANGED signed

Proceeds(b) == build' = b /\ UNCHANGED signed

\* A job's worker starts; it knows the token, not the advisory's result.
ReadFinalized ==
    /\ build = Idle /\ jobs # {} /\ Cardinality(signed) < MaxSigned
    /\ \A p \in Invocations : inv[p].pc = "idle"
    /\ Proceeds([Idle EXCEPT !.pc = "finalized", !.finalized = finalized,
                             !.finalizedHash = HashAt(finalized)])
    /\ UNCHANGED notBuild

ReadHead ==
    /\ build.pc = "finalized" /\ build.finalized <= Latest
    /\ Proceeds([build EXCEPT !.pc = "head", !.head = Latest, !.headHash = HashAt(Latest)])
    /\ UNCHANGED notBuild

\* The contract's state at the head's number.
ReadState ==
    /\ build.pc = "head"
    /\ LET s == At(build.head) IN
       IF Active(s, build.head) THEN Fails
       ELSE Proceeds([build EXCEPT !.pc = "state", !.id = s.next, !.policy = s.policy])
    /\ UNCHANGED notBuild

ReadRatios ==
    /\ build.pc = "state"
    /\ LET d == discover(build.head, build.finalized, build.policy) IN
       IF d.outcome # "qualifying" THEN Fails
       ELSE Proceeds([build EXCEPT !.pc = "ratios", !.reference = d.reference])
    /\ UNCHANGED notBuild

CheckFinalized ==
    /\ build.pc = "ratios"
    /\ IF HashAt(build.finalized) # build.finalizedHash THEN Fails
       ELSE Proceeds([build EXCEPT !.pc = "checked"])
    /\ UNCHANGED notBuild

CheckHead ==
    /\ build.pc = "checked"
    /\ build' = Idle
    /\ signed' = IF HashAt(build.head) # build.headHash THEN signed
                 ELSE signed \cup {[id |-> build.id, policy |-> build.policy,
                                    reference |-> build.reference, finalized |-> build.finalized,
                                    chain |-> build.headHash]}
    /\ UNCHANGED notBuild

-----------------------------------------------------------------------------
(* The advisory cache. *)

notCache == <<chainVars, build, signed>>

NoRecord == [attempt |-> None, snapshot |-> None]

\* read_binding: the configuration and the state of the contract at the head.
Commitment == [policy |-> At(Latest).policy, next |-> At(Latest).next]

eligible(d) ==
    d.outcome = "qualifying" =>
        /\ d.reference < Latest /\ Latest - d.reference <= MaxAge
        /\ d.reference + Twap <= finalized

\* The local variables of an invocation, when it has none.
NoCheck == [pc |-> "idle", at |-> 0, read |-> NoRecord, commitment |-> None, result |-> None,
            snapshot |-> None]

\* An invocation's step: its local variables become i.
Goes(p, i) == inv' = [inv EXCEPT ![p] = i]

Ends(p) == Goes(p, NoCheck)

\* The biased timer wins at the deadline.
InBudget(p) == now < inv[p].at + CacheBudget

CacheStep(p, pc) == inv[p].pc = pc /\ InBudget(p)

BeginCheck(p) ==
    /\ inv[p].pc = "idle" /\ build = Idle /\ Cardinality(jobs) < MaxJobs
    /\ Goes(p, [NoCheck EXCEPT !.pc = "get", !.at = now])
    /\ UNCHANGED <<notCache, now, record, scans, jobs>>

GetRecord(p) ==
    /\ CacheStep(p, "get") /\ Goes(p, [inv[p] EXCEPT !.pc = "bind", !.read = record])
    /\ UNCHANGED <<notCache, now, record, scans, jobs>>

\* A result is still shown.
Retained(s, t) == t >= s.checked /\ t < s.checked + Keep

\* Mutated form: the configuration a result belongs to is not compared.
AnyConfiguration(s) == TRUE

SameConfiguration(s) == s.commitment = Commitment

\* A decision that is not fresh only informs: nothing is submitted.  A fresh
\* one that found a drop is, for the configuration c.
Decide(p, s, c) ==
    IF s.result.outcome = "qualifying"
    THEN Goes(p, [inv[p] EXCEPT !.pc = "submit", !.snapshot = s, !.commitment = c]) ELSE Ends(p)

Bind(p) ==
    /\ CacheStep(p, "bind")
    /\ LET i == inv[p]
           s == i.read.snapshot
           prior == s # None /\ Retained(s, i.at) /\ SameConfiguration(s)
       IN  IF Active(At(Latest), Latest) THEN Ends(p)
           ELSE IF prior /\ i.at - s.checked < Hold /\ eligible(s.result) THEN Decide(p, s, Commitment)
           ELSE IF i.read.attempt # None /\ i.at < i.read.attempt + Hold THEN Ends(p)
           ELSE Goes(p, [i EXCEPT !.pc = "reserve", !.commitment = Commitment])
    /\ UNCHANGED <<notCache, now, record, scans, jobs>>

\* Mutated form: the write is made whatever the object holds by now.
Overwrites(p, old) == TRUE

compare_exchange(p, old) == record = old

Reservation(p) == [inv[p].read EXCEPT !.attempt = inv[p].at]

Reserve(p) ==
    /\ CacheStep(p, "reserve")
    /\ IF compare_exchange(p, inv[p].read)
       THEN record' = Reservation(p) /\ Goes(p, [inv[p] EXCEPT !.pc = "verify"])
       ELSE UNCHANGED record /\ Ends(p)
    /\ UNCHANGED <<notCache, now, scans, jobs>>

\* The reservation is read back before the scan.
Verify(p) ==
    /\ CacheStep(p, "verify")
    /\ IF record = Reservation(p) THEN Goes(p, [inv[p] EXCEPT !.pc = "scan"]) ELSE Ends(p)
    /\ UNCHANGED <<notCache, now, record, scans, jobs>>

\* precheck_incident_open: the discovery without a signature, on one chain as
\* its own checks of the two hashes ensure.
Scan(p) ==
    /\ CacheStep(p, "scan")
    /\ LET d == discover(Latest, finalized, At(Latest).policy) IN
       IF Active(At(Latest), Latest) \/ d = NoWindow THEN Ends(p) /\ UNCHANGED scans
       ELSE /\ Goes(p, [inv[p] EXCEPT !.pc = "rebind", !.result = d])
            /\ scans' = scans \cup {[at |-> inv[p].at, commitment |-> inv[p].commitment, result |-> d]}
    /\ UNCHANGED <<notCache, now, record, jobs>>

Rebind(p) ==
    /\ CacheStep(p, "rebind")
    /\ IF Active(At(Latest), Latest) \/ Commitment # inv[p].commitment \/ ~eligible(inv[p].result)
       THEN Ends(p)
       ELSE Goes(p, [inv[p] EXCEPT !.pc = "publish"])
    /\ UNCHANGED <<notCache, now, record, scans, jobs>>

Snapshot(p) == [checked |-> inv[p].at, commitment |-> inv[p].commitment, result |-> inv[p].result]

Published(p) == [Reservation(p) EXCEPT !.snapshot = Snapshot(p)]

Publish(p) ==
    /\ CacheStep(p, "publish")
    /\ IF compare_exchange(p, Reservation(p))
       THEN record' = Published(p) /\ Decide(p, Snapshot(p), inv[p].commitment)
       ELSE UNCHANGED record /\ Ends(p)
    /\ UNCHANGED <<notCache, now, scans, jobs>>

\* A provider or S3 fails, or the timer fires: no fresh decision.  A write
\* under way may still arrive.
TimeOut(p) ==
    /\ inv[p].pc # "idle" /\ Ends(p)
    /\ \/ UNCHANGED record
       \/ inv[p].pc = "reserve" /\ record = inv[p].read /\ record' = Reservation(p)
       \/ inv[p].pc = "publish" /\ record = Reservation(p) /\ record' = Published(p)
    /\ UNCHANGED <<notCache, now, scans, jobs>>

\* Submission goes on for as long as the result is fresh and the invocation lives.
InTime(p) == now < inv[p].snapshot.checked + Hold /\ now < inv[p].at + Deadline

Submit(p) ==
    /\ inv[p].pc = "submit" /\ InTime(p) /\ Ends(p)
    /\ jobs' = jobs \cup {[at |-> now, commitment |-> inv[p].commitment,
                           result |-> inv[p].snapshot.result]}
    /\ UNCHANGED <<notCache, now, record, scans>>

\* Time counts for the cache only.
Tick ==
    /\ now < MaxTime /\ build = Idle /\ now' = now + 1
    /\ UNCHANGED <<notCache, record, inv, scans, jobs>>

-----------------------------------------------------------------------------

Init ==
    /\ \E h \in Histories :
        chain = [i \in 1 .. (Len(h) - 1) * Step + 1 |-> Genesis(h[(i - 1) \div Step + 1])]
    /\ finalized = Latest /\ switched = FALSE
    /\ build = Idle /\ signed = {}
    /\ now = 0 /\ record = NoRecord /\ inv = [p \in Invocations |-> NoCheck]
    /\ scans = {} /\ jobs = {}

Next ==
    \/ Mine \/ Finalize \/ Switch
    \/ ReadFinalized \/ ReadHead \/ ReadState \/ ReadRatios \/ CheckFinalized \/ CheckHead
    \/ \E p \in Invocations :
        \/ BeginCheck(p) \/ GetRecord(p) \/ Bind(p) \/ Reserve(p) \/ Verify(p)
        \/ Scan(p) \/ Rebind(p) \/ Publish(p) \/ TimeOut(p) \/ Submit(p)
    \/ Tick

Spec == Init /\ [][Next]_vars

-----------------------------------------------------------------------------
(* Properties. *)

\* Did the ratio drop over candidate c of a chain?  Averages over the sampled
\* blocks of the window before it and of the window after it.
Dropped(blocks, c, policy) ==
    LET ratio  == [b \in {c - Twap + i * Step : i \in 0 .. 2 * (Twap \div Step)} |-> blocks[b + 1].ratio]
        before == {b \in DOMAIN ratio : b < c}
        after  == {b \in DOMAIN ratio : b > c}
    IN  Sum(ratio, after) * Bps < Sum(ratio, before) * (Bps - Drop[policy])

\* Every authorization rests on one chain, whatever the provider changed to
\* while it was built: there the ratio dropped over the reference block, with
\* evidence from finalized blocks only and a reference that is not too old, at
\* the beginning of the last drop, and the contract is in the state the
\* authorization names.
AttestedDropIsReal ==
    \A a \in signed :
        LET head == Len(a.chain) - 1
            s    == a.chain[head + 1]
            candidates == {c \in Twap .. a.finalized - Twap : c % Step = 0 /\ head - c <= MaxAge}
        IN  /\ a.reference \in candidates
            /\ Dropped(a.chain, a.reference, s.policy)
            /\ \A c \in candidates :
                    c > a.reference /\ Dropped(a.chain, c, s.policy) => Dropped(a.chain, c - Step, s.policy)
            /\ a.id = s.next /\ a.policy = s.policy /\ ~Active(s, head)

\* Two invocations never scan the history at the same time, however long each
\* of their steps takes: a reservation outlives the scan it is for.
OneScanAtATime ==
    \A p, q \in Invocations :
        inv[p].pc = "scan" /\ InBudget(p) /\ inv[q].pc = "scan" /\ InBudget(q) => p = q

\* A job is submitted only for a drop that a scan reserved less than Hold ago
\* has found, and the configuration read before that scan is the one read by
\* the invocation that submits.
JobsAreFresh ==
    \A j \in jobs : \E s \in scans :
        /\ s.result = j.result /\ s.commitment = j.commitment
        /\ s.at <= j.at /\ j.at - s.at < Hold
=============================================================================
