------------------------- MODULE IncidentOpenProofs -------------------------
(***************************************************************************)
(* What the advisory cache guarantees to the invocations that share its    *)
(* object, for every number of invocations and every length of a           *)
(* reservation, a budget and a deadline: scans never overlap, and a job is *)
(* submitted only for what a recent scan of its configuration has found.   *)
(*                                                                         *)
(* And what an authorization rests on, for every history, window, step and *)
(* policy: the sliding sums of the discovery are the sums of the windows   *)
(* they stand for, the reference it selects is the beginning of the last   *)
(* drop, and all of it is read from the one chain whose head is compared   *)
(* at the end.                                                             *)
(***************************************************************************)
EXTENDS IncidentOpen, SumLemmas, SequenceTheorems, TLAPS

-----------------------------------------------------------------------------
(* The cache *)

\* The lengths of time.
LEMMA TimeConstants ==
    /\ CacheBudget \in Nat \ {0} /\ Deadline \in Nat /\ Hold \in Nat /\ Keep \in Nat
    /\ CacheBudget <= Deadline /\ CacheBudget <= Hold /\ Hold <= Keep
    /\ MaxTime \in Nat /\ None \notin Nat
BY OpenAssumption

\* Invocations that have a copy of the object, and those that reserved a scan.
HasRead == {"bind", "reserve", "verify", "scan", "rebind", "publish"}
After   == {"verify", "scan", "rebind", "publish"}

\* The fields of an object and of an invocation, whatever their values.
RecordShape(r) == r = [attempt |-> r.attempt, snapshot |-> r.snapshot]

CheckShape(i) ==
    i = [pc |-> i.pc, at |-> i.at, read |-> i.read, commitment |-> i.commitment,
         result |-> i.result, snapshot |-> i.snapshot]

CacheType ==
    /\ now \in Nat /\ RecordShape(record)
    /\ inv = [p \in Invocations |-> inv[p]] /\ \A p \in Invocations : CheckShape(inv[p])

\* A scan reserved at time t has found d for the configuration c.
Found(t, c, d) == [at |-> t, commitment |-> c, result |-> d] \in scans

SnapshotSound(s) ==
    s.checked \in Nat /\ s.checked <= now /\ Found(s.checked, s.commitment, s.result)

RecordSound(r) ==
    /\ r.attempt = None \/ (r.attempt \in Nat /\ r.attempt <= now)
    /\ r.snapshot # None => SnapshotSound(r.snapshot)

CheckSound(p) ==
    inv[p].pc # "idle" =>
    /\ inv[p].at \in Nat /\ inv[p].at <= now
    /\ inv[p].pc \in HasRead => RecordShape(inv[p].read) /\ RecordSound(inv[p].read)
    /\ inv[p].pc = "reserve" =>
          inv[p].read.attempt = None \/ inv[p].read.attempt + Hold <= inv[p].at
    /\ inv[p].pc \in After => record.attempt \in Nat /\ inv[p].at <= record.attempt
    /\ inv[p].pc \in {"rebind", "publish"} =>
          Found(inv[p].at, inv[p].commitment, inv[p].result)
    /\ inv[p].pc = "submit" =>
          SnapshotSound(inv[p].snapshot) /\ inv[p].snapshot.commitment = inv[p].commitment

\* Reservations are made at times that are at least Hold apart.
Apart ==
    \A p, q \in Invocations :
        p # q /\ inv[p].pc \in After /\ inv[q].pc \in After =>
            inv[p].at + Hold <= inv[q].at \/ inv[q].at + Hold <= inv[p].at

\* The inductive strengthening of OneScanAtATime and JobsAreFresh.
CacheInv ==
    /\ CacheType
    /\ RecordSound(record)
    /\ \A p \in Invocations : CheckSound(p)
    /\ Apart
    /\ JobsAreFresh

-----------------------------------------------------------------------------
(* What survives the steps of others *)

Later == now' \in Nat /\ now <= now' /\ scans \subseteq scans'

\* A scan stays a scan, and the time of a snapshot stays in the past.
LEMMA SnapshotStays ==
    ASSUME CacheType, Later, NEW s, SnapshotSound(s)
    PROVE  SnapshotSound(s)'
BY DEF CacheType, Later, SnapshotSound, Found

\* So does what an object says.
LEMMA RecordStays ==
    ASSUME CacheType, Later, NEW r, RecordSound(r)
    PROVE  RecordSound(r)'
<1>1. CASE r.snapshot = None
  BY <1>1 DEF CacheType, Later, RecordSound
<1>2. CASE r.snapshot # None
  <2>1. SnapshotSound(r.snapshot)'
    BY <1>2, SnapshotStays DEF RecordSound
  <2> QED BY <2>1 DEF CacheType, Later, RecordSound
<1> QED BY <1>1, <1>2

\* What an invocation knows survives, unless a reservation is forgotten.
LEMMA CheckStays ==
    ASSUME CacheType, Later, NEW q \in Invocations, CheckSound(q), inv'[q] = inv[q],
           inv[q].pc \in After => record'.attempt \in Nat /\ inv[q].at <= record'.attempt
    PROVE  CheckSound(q)'
<1> SUFFICES ASSUME inv[q].pc # "idle"  PROVE CheckSound(q)'
  BY DEF CheckSound
<1>1. PICK i : i = inv[q] /\ inv'[q] = i
  OBVIOUS
<1>2. i.at \in Nat /\ i.at <= now'
  BY <1>1 DEF CheckSound, CacheType, Later
<1>3. i.pc \in HasRead => RecordShape(i.read) /\ RecordSound(i.read)'
  BY <1>1, RecordStays DEF CheckSound
<1>4. i.pc \in {"rebind", "publish"} => Found(i.at, i.commitment, i.result)'
  BY <1>1 DEF CheckSound, Found, Later
<1>5. i.pc = "submit" => SnapshotSound(i.snapshot)' /\ i.snapshot.commitment = i.commitment
  BY <1>1, SnapshotStays DEF CheckSound
<1> QED BY <1>1, <1>2, <1>3, <1>4, <1>5 DEF CheckSound

\* Jobs stay fresh: the scans they rest on are remembered.
LEMMA JobsStay ==
    ASSUME JobsAreFresh, Later, jobs' = jobs
    PROVE  JobsAreFresh'
BY DEF JobsAreFresh, Later

\* A step of nobody: blocks, the enclave, time.
LEMMA WorldKeeps ==
    ASSUME CacheInv, Later, UNCHANGED <<record, inv, jobs>>
    PROVE  CacheInv'
<1>1. CacheType' /\ Apart' /\ JobsAreFresh'
  BY JobsStay DEF CacheInv, CacheType, Apart, Later
<1>2. RecordSound(record)'
  <2>1. PICK r : r = record
    OBVIOUS
  <2>2. RecordSound(r)'
    BY <2>1, RecordStays DEF CacheInv
  <2> QED BY <2>1, <2>2
<1>3. \A q \in Invocations : CheckSound(q)'
  <2> SUFFICES ASSUME NEW q \in Invocations  PROVE CheckSound(q)'
    OBVIOUS
  <2>1. CheckSound(q) /\ CacheType
    BY DEF CacheInv
  <2>2. inv[q].pc \in After => record'.attempt \in Nat /\ inv[q].at <= record'.attempt
    BY <2>1 DEF CheckSound, After
  <2> QED BY <2>1, <2>2, CheckStays
<1> QED BY <1>1, <1>2, <1>3 DEF CacheInv

\* A step of p that leaves the reservations of others in place, and gets one
\* only if it is later than theirs by Hold.
LEMMA StepKeeps ==
    ASSUME CacheInv, NEW p \in Invocations, NEW i, CheckShape(i), Goes(p, i), now' = now,
           scans \subseteq scans', RecordShape(record'), RecordSound(record)', CheckSound(p)',
           JobsAreFresh',
           \A q \in Invocations \ {p} : inv[q].pc \in After =>
              record'.attempt \in Nat /\ inv[q].at <= record'.attempt,
           i.pc \in After =>
              \/ inv[p].pc \in After /\ i.at = inv[p].at
              \/ \A q \in Invocations \ {p} : inv[q].pc \in After => inv[q].at + Hold <= i.at
    PROVE  CacheInv'
<1>1. Later
  BY DEF Later, CacheInv, CacheType
<1>2. inv'[p] = i /\ \A q \in Invocations \ {p} : inv'[q] = inv[q]
  BY DEF Goes, CacheInv, CacheType
<1>3. CacheType'
  BY <1>1, <1>2 DEF CacheInv, CacheType, Goes, Later
<1>4. ASSUME NEW q \in Invocations  PROVE CheckSound(q)'
  <2>1. CASE q = p
    BY <2>1
  <2>2. CASE q # p
    BY <1>1, <1>2, <2>2, CheckStays DEF CacheInv
  <2> QED BY <2>1, <2>2
<1>5. ASSUME NEW q \in Invocations, q # p, inv'[p].pc \in After, inv'[q].pc \in After
      PROVE  inv'[p].at + Hold <= inv'[q].at \/ inv'[q].at + Hold <= inv'[p].at
  BY <1>2, <1>5 DEF CacheInv, Apart
<1>6. Apart'
  <2> SUFFICES ASSUME NEW a \in Invocations, NEW b \in Invocations, a # b,
                      inv'[a].pc \in After, inv'[b].pc \in After
               PROVE  inv'[a].at + Hold <= inv'[b].at \/ inv'[b].at + Hold <= inv'[a].at
    BY DEF Apart
  <2>1. CASE a # p /\ b # p
    BY <1>2, <2>1 DEF CacheInv, Apart
  <2> QED BY <1>5, <2>1
<1> QED BY <1>3, <1>4, <1>6 DEF CacheInv

\* A step of p that leaves the object alone and gets no reservation.
LEMMA QuietKeeps ==
    ASSUME CacheInv, NEW p \in Invocations, NEW i, CheckShape(i), Goes(p, i), now' = now,
           scans \subseteq scans', UNCHANGED record, CheckSound(p)', JobsAreFresh',
           i.pc \in After => inv[p].pc \in After /\ i.at = inv[p].at
    PROVE  CacheInv'
<1>1. RecordShape(record') /\ Later /\ CacheType
  BY DEF CacheInv, CacheType, Later
<1>2. RecordSound(record)'
  <2>1. PICK r : r = record
    OBVIOUS
  <2>2. RecordSound(r)'
    BY <1>1, <2>1, RecordStays DEF CacheInv
  <2> QED BY <2>1, <2>2
<1>3. \A q \in Invocations \ {p} : inv[q].pc \in After =>
         record'.attempt \in Nat /\ inv[q].at <= record'.attempt
  BY DEF CacheInv, CheckSound, After
<1> QED BY <1>1, <1>2, <1>3, StepKeeps

\* An invocation ends and leaves the object alone.
LEMMA EndKeeps ==
    ASSUME CacheInv, NEW p \in Invocations, Ends(p), UNCHANGED <<now, record>>,
           scans \subseteq scans', JobsAreFresh'
    PROVE  CacheInv'
<1>1. PICK i : i = NoCheck
  OBVIOUS
<1>2. CheckShape(i) /\ i.pc = "idle" /\ i.pc \notin After
  BY <1>1 DEF CheckShape, NoCheck, After
<1>3. Goes(p, i) /\ inv'[p] = i
  BY <1>1 DEF Ends, Goes, CacheInv, CacheType
<1>4. CheckSound(p)'
  BY <1>2, <1>3 DEF CheckSound
<1> QED BY <1>2, <1>3, <1>4, QuietKeeps

-----------------------------------------------------------------------------
(* The steps *)

\* What an invocation that is not idle knows.
LEMMA Known ==
    ASSUME CacheInv, NEW p \in Invocations, inv[p].pc # "idle"
    PROVE  /\ inv[p].at \in Nat /\ inv[p].at <= now /\ CheckShape(inv[p])
           /\ inv[p].pc \in HasRead => RecordShape(inv[p].read) /\ RecordSound(inv[p].read)
           /\ inv[p].pc = "reserve" =>
                 inv[p].read.attempt = None \/ inv[p].read.attempt + Hold <= inv[p].at
           /\ inv[p].pc \in After => record.attempt \in Nat /\ inv[p].at <= record.attempt
           /\ inv[p].pc \in {"rebind", "publish"} =>
                 Found(inv[p].at, inv[p].commitment, inv[p].result)
           /\ inv[p].pc = "submit" =>
                 SnapshotSound(inv[p].snapshot) /\ inv[p].snapshot.commitment = inv[p].commitment
BY DEF CacheInv, CheckSound, CacheType

\* A check begins.
LEMMA BeginKeeps ==
    ASSUME CacheInv, NEW p \in Invocations, BeginCheck(p)
    PROVE  CacheInv'
<1>1. PICK i : i = [NoCheck EXCEPT !.pc = "get", !.at = now]
  OBVIOUS
<1>2. CheckShape(i) /\ i.pc = "get" /\ i.at = now
  BY <1>1 DEF CheckShape, NoCheck
<1>3. UNCHANGED <<now, record, scans, jobs>> /\ Goes(p, i) /\ now \in Nat
  BY <1>1 DEF BeginCheck, CacheInv, CacheType
<1>4. inv'[p] = i /\ Later
  BY <1>3 DEF Goes, CacheInv, CacheType, Later
<1>5. "get" \notin HasRead /\ "get" \notin After
  BY DEF HasRead, After
<1>6. CheckSound(p)'
  BY <1>2, <1>3, <1>4, <1>5 DEF CheckSound
<1>7. JobsAreFresh'
  BY <1>3, <1>4, JobsStay DEF CacheInv
<1> QED BY <1>2, <1>3, <1>5, <1>6, <1>7, QuietKeeps

\* The object is read.
LEMMA GetKeeps ==
    ASSUME CacheInv, NEW p \in Invocations, GetRecord(p)
    PROVE  CacheInv'
<1>1. PICK c, r, i : c = inv[p] /\ r = record /\ i = [c EXCEPT !.pc = "bind", !.read = r]
  OBVIOUS
<1>2. UNCHANGED <<now, record, scans, jobs>> /\ Goes(p, i) /\ c.pc = "get" /\ now \in Nat
  BY <1>1 DEF GetRecord, CacheStep, CacheInv, CacheType
<1>3. c.at \in Nat /\ c.at <= now /\ CheckShape(c) /\ RecordShape(r) /\ RecordSound(r)
  BY <1>1, <1>2, Known DEF CacheInv, CacheType
<1>4. CheckShape(i) /\ i.pc = "bind" /\ i.at = c.at /\ i.read = r
  BY <1>1, <1>3 DEF CheckShape
<1>5. inv'[p] = i /\ Later
  BY <1>2 DEF Goes, CacheInv, CacheType, Later
<1>6. RecordSound(r)'
  BY <1>3, <1>5, RecordStays DEF CacheInv
<1>7. "bind" \notin After
  BY DEF After
<1>8. CheckSound(p)'
  BY <1>2, <1>3, <1>4, <1>5, <1>6, <1>7 DEF CheckSound
<1>9. JobsAreFresh'
  BY <1>2, <1>5, JobsStay DEF CacheInv
<1> QED BY <1>2, <1>4, <1>7, <1>8, <1>9, QuietKeeps

\* A decision on a snapshot of a scan for the configuration it is made for.
LEMMA DecideKeeps ==
    ASSUME CacheInv, NEW p \in Invocations, inv[p].pc # "idle", NEW s, NEW g, Decide(p, s, g),
           SnapshotSound(s), s.commitment = g, UNCHANGED <<now, record, scans, jobs>>
    PROVE  CacheInv'
<1>1. PICK c, i : c = inv[p]
                  /\ i = [c EXCEPT !.pc = "submit", !.snapshot = s, !.commitment = g]
  OBVIOUS
<1>2. Later /\ JobsAreFresh'
  <2>1. Later
    BY DEF Later, CacheInv, CacheType
  <2> QED BY <2>1, JobsStay DEF CacheInv
<1>3. CASE Ends(p)
  BY <1>2, <1>3, EndKeeps
<1>4. CASE Goes(p, i)
  <2>1. c.at \in Nat /\ c.at <= now /\ CheckShape(c)
    BY <1>1, Known
  <2>2. CheckShape(i) /\ i.pc = "submit" /\ i.at = c.at /\ i.snapshot = s /\ i.commitment = g
    BY <1>1, <2>1 DEF CheckShape
  <2>3. inv'[p] = i
    BY <1>4 DEF Goes, CacheInv, CacheType
  <2>4. SnapshotSound(s)'
    BY <1>2, SnapshotStays DEF CacheInv
  <2>5. "submit" \notin After /\ "submit" \notin HasRead
    BY DEF After, HasRead
  <2>6. CheckSound(p)'
    BY <2>1, <2>2, <2>3, <2>4, <2>5 DEF CheckSound
  <2> QED BY <1>2, <1>4, <2>2, <2>5, <2>6, QuietKeeps
<1> QED BY <1>1, <1>3, <1>4 DEF Decide

\* The configuration is read: a fresh result is used, a running scan waited
\* for, or a reservation tried whose time is Hold after the last one.
LEMMA BindKeeps ==
    ASSUME CacheInv, NEW p \in Invocations, Bind(p)
    PROVE  CacheInv'
<1>1. PICK c, g, i : c = inv[p] /\ g = Commitment
                     /\ i = [c EXCEPT !.pc = "reserve", !.commitment = g]
  OBVIOUS
<1>2. UNCHANGED <<now, record, scans, jobs>> /\ c.pc = "bind" /\ now \in Nat
  BY <1>1 DEF Bind, CacheStep, CacheInv, CacheType
<1>3. Later /\ JobsAreFresh'
  <2>1. Later
    BY <1>2 DEF Later, CacheInv, CacheType
  <2> QED BY <1>2, <2>1, JobsStay DEF CacheInv
<1>4. /\ c.at \in Nat /\ c.at <= now /\ CheckShape(c) /\ RecordShape(c.read)
      /\ RecordSound(c.read)
  BY <1>1, <1>2, Known DEF HasRead
<1>5. CASE Ends(p)
  BY <1>2, <1>3, <1>5, EndKeeps
<1>6. CASE /\ c.read.snapshot # None /\ c.read.snapshot.commitment = g
           /\ Decide(p, c.read.snapshot, g)
  BY <1>1, <1>2, <1>4, <1>6, DecideKeeps DEF RecordSound
<1>7. CASE Goes(p, i) /\ ~(c.read.attempt # None /\ c.at < c.read.attempt + Hold)
  <2>1. CheckShape(i) /\ i.pc = "reserve" /\ i.at = c.at /\ i.read = c.read
    BY <1>1, <1>4 DEF CheckShape
  <2>2. inv'[p] = i
    BY <1>7 DEF Goes, CacheInv, CacheType
  <2>3. RecordSound(c.read)'
    BY <1>3, <1>4, RecordStays DEF CacheInv
  <2>4. "reserve" \notin After
    BY DEF After
  <2>5. i.read.attempt = None \/ i.read.attempt + Hold <= i.at
    BY <1>4, <1>7, <2>1, TimeConstants DEF RecordSound
  <2>6. CheckSound(p)'
    BY <1>2, <1>4, <2>1, <2>2, <2>3, <2>4, <2>5 DEF CheckSound
  <2> QED BY <1>2, <1>3, <1>7, <2>1, <2>4, <2>6, QuietKeeps
<1> QED BY <1>1, <1>5, <1>6, <1>7 DEF Bind, SameConfiguration

\* The object with p's reservation in it.
LEMMA ReservationFields ==
    ASSUME CacheInv, NEW p \in Invocations, inv[p].pc \in HasRead
    PROVE  /\ RecordShape(Reservation(p)) /\ Reservation(p).attempt = inv[p].at
           /\ Reservation(p).snapshot = inv[p].read.snapshot /\ RecordSound(Reservation(p))
<1>1. PICK r, t : r = inv[p].read /\ t = inv[p].at
  OBVIOUS
<1>2. t \in Nat /\ t <= now /\ RecordShape(r) /\ RecordSound(r)
  BY <1>1, Known DEF HasRead
<1>3. PICK n : n = [r EXCEPT !.attempt = t]
  OBVIOUS
<1>4. RecordShape(n) /\ n.attempt = t /\ n.snapshot = r.snapshot
  BY <1>2, <1>3 DEF RecordShape
<1>5. RecordSound(n)
  BY <1>2, <1>4 DEF RecordSound
<1> QED BY <1>1, <1>3, <1>4, <1>5 DEF Reservation

\* A reservation replaces what was read, Hold after the one in it.
LEMMA ReservedKeeps ==
    ASSUME CacheInv, NEW p \in Invocations, inv[p].pc = "reserve", record = inv[p].read,
           record' = Reservation(p), UNCHANGED <<now, scans, jobs>>,
           Ends(p) \/ Goes(p, [inv[p] EXCEPT !.pc = "verify"])
    PROVE  CacheInv'
<1>1. PICK c, r : c = inv[p] /\ r = Reservation(p)
  OBVIOUS
<1>2. Later /\ JobsAreFresh' /\ now \in Nat
  <2>1. Later /\ now \in Nat
    BY DEF Later, CacheInv, CacheType
  <2> QED BY <2>1, JobsStay DEF CacheInv
<1>3. /\ c.at \in Nat /\ c.at <= now /\ CheckShape(c) /\ RecordShape(c.read) /\ RecordSound(c.read)
      /\ c.read.attempt = None \/ c.read.attempt + Hold <= c.at
  BY <1>1, Known DEF HasRead
<1>4. RecordShape(r) /\ r.attempt = c.at /\ RecordSound(r)
  BY <1>1, ReservationFields DEF HasRead
<1>5. RecordSound(r)'
  BY <1>2, <1>4, RecordStays DEF CacheInv
<1>6. RecordSound(record)' /\ RecordShape(record') /\ record'.attempt = c.at
  BY <1>1, <1>4, <1>5
<1>7. ASSUME NEW q \in Invocations \ {p}, inv[q].pc \in After
      PROVE  /\ record'.attempt \in Nat /\ inv[q].at <= record'.attempt
             /\ inv[q].at + Hold <= c.at
  <2>1. record.attempt \in Nat /\ inv[q].at <= record.attempt /\ inv[q].at \in Nat
    BY <1>7, Known DEF After
  <2>2. record.attempt + Hold <= c.at
    BY <1>1, <1>3, <2>1, TimeConstants
  <2> QED BY <1>3, <1>6, <2>1, <2>2, TimeConstants
<1>8. PICK i : i \in {NoCheck, [c EXCEPT !.pc = "verify"]} /\ Goes(p, i)
  BY <1>1 DEF Ends
<1>9. inv'[p] = i
  BY <1>8 DEF Goes, CacheInv, CacheType
<1>10. CASE i = NoCheck
  <2>1. CheckShape(i) /\ i.pc = "idle" /\ i.pc \notin After
    BY <1>10 DEF CheckShape, NoCheck, After
  <2>2. CheckSound(p)'
    BY <1>9, <2>1 DEF CheckSound
  <2> QED BY <1>2, <1>6, <1>7, <1>8, <2>1, <2>2, StepKeeps
<1>11. CASE i = [c EXCEPT !.pc = "verify"]
  <2>1. CheckShape(i) /\ i.pc = "verify" /\ i.at = c.at /\ i.read = c.read
    BY <1>3, <1>11 DEF CheckShape
  <2>2. RecordSound(c.read)'
    BY <1>2, <1>3, RecordStays DEF CacheInv
  <2>3. CheckSound(p)'
    BY <1>3, <1>6, <1>9, <2>1, <2>2 DEF CheckSound
  <2> QED BY <1>2, <1>6, <1>7, <1>8, <2>1, <2>3, StepKeeps
<1> QED BY <1>8, <1>10, <1>11

\* The reservation is tried.
LEMMA ReserveKeeps ==
    ASSUME CacheInv, NEW p \in Invocations, Reserve(p)
    PROVE  CacheInv'
<1>1. UNCHANGED <<now, scans, jobs>> /\ inv[p].pc = "reserve"
  BY DEF Reserve, CacheStep
<1>2. Later /\ JobsAreFresh'
  <2>1. Later
    BY <1>1 DEF Later, CacheInv, CacheType
  <2> QED BY <1>1, <2>1, JobsStay DEF CacheInv
<1>3. CASE record = inv[p].read
  BY <1>1, <1>3, ReservedKeeps DEF Reserve, compare_exchange
<1>4. CASE record # inv[p].read
  BY <1>1, <1>2, <1>4, EndKeeps DEF Reserve, compare_exchange
<1> QED BY <1>3, <1>4

\* A step within the reservation: the object is left alone.
LEMMA HoldsKeeps ==
    ASSUME CacheInv, NEW p \in Invocations, inv[p].pc \in After, NEW i, CheckShape(i), Goes(p, i),
           i.pc \in After, i.at = inv[p].at, i.read = inv[p].read,
           i.pc \in {"rebind", "publish"} => Found(i.at, i.commitment, i.result)',
           UNCHANGED <<now, record, jobs>>, scans \subseteq scans'
    PROVE  CacheInv'
<1>1. Later /\ JobsAreFresh' /\ now \in Nat
  <2>1. Later /\ now \in Nat
    BY DEF Later, CacheInv, CacheType
  <2> QED BY <2>1, JobsStay DEF CacheInv
<1>2. PICK c : c = inv[p]
  OBVIOUS
<1>3. /\ c.at \in Nat /\ c.at <= now /\ RecordShape(c.read) /\ RecordSound(c.read)
      /\ record.attempt \in Nat /\ c.at <= record.attempt
  BY <1>2, Known DEF HasRead, After
<1>4. RecordSound(c.read)'
  BY <1>1, <1>3, RecordStays DEF CacheInv
<1>5. inv'[p] = i
  BY DEF Goes, CacheInv, CacheType
<1>6. i.pc # "reserve" /\ i.pc # "submit"
  BY DEF After
<1>7. CheckSound(p)'
  BY <1>2, <1>3, <1>4, <1>5, <1>6 DEF CheckSound
<1> QED BY <1>1, <1>7, QuietKeeps

\* The reservation is read back, the history scanned and the configuration
\* read again.
LEMMA ScanKeeps ==
    ASSUME CacheInv, NEW p \in Invocations, Verify(p) \/ Scan(p) \/ Rebind(p)
    PROVE  CacheInv'
<1>1. UNCHANGED <<now, record, jobs>> /\ inv[p].pc \in After
  BY DEF Verify, Scan, Rebind, CacheStep, After
<1>2. PICK c : c = inv[p]
  OBVIOUS
<1>3. CheckShape(c)
  BY <1>2 DEF CacheInv, CacheType
<1>4. CASE Ends(p)
  <2>1. scans \subseteq scans'
    BY DEF Verify, Scan, Rebind
  <2>2. Later
    BY <1>1, <2>1 DEF Later, CacheInv, CacheType
  <2> QED BY <1>1, <1>4, <2>1, <2>2, EndKeeps, JobsStay DEF CacheInv
<1>5. CASE ~Ends(p) /\ Verify(p)
  <2>1. PICK i : i = [c EXCEPT !.pc = "scan"]
    OBVIOUS
  <2>2. CheckShape(i) /\ i.pc = "scan" /\ i.at = c.at /\ i.read = c.read
    BY <1>3, <2>1 DEF CheckShape
  <2>3. Goes(p, i) /\ scans' = scans /\ "scan" \in After
    BY <1>2, <1>5, <2>1 DEF Verify, After
  <2> QED BY <1>1, <1>2, <2>2, <2>3, HoldsKeeps
<1>6. CASE ~Ends(p) /\ Scan(p)
  <2>1. PICK d : d = discover(Latest, finalized, At(Latest).policy)
    OBVIOUS
  <2>2. PICK i : i = [c EXCEPT !.pc = "rebind", !.result = d]
    OBVIOUS
  <2>3. CheckShape(i) /\ i.pc = "rebind" /\ i.at = c.at /\ i.read = c.read
        /\ i.commitment = c.commitment /\ i.result = d
    BY <1>3, <2>2 DEF CheckShape
  <2>4. /\ Goes(p, i) /\ "rebind" \in After
        /\ scans' = scans \cup {[at |-> c.at, commitment |-> c.commitment, result |-> d]}
    BY <1>2, <1>6, <2>1, <2>2 DEF Scan, After
  <2>5. Found(i.at, i.commitment, i.result)'
    BY <2>3, <2>4 DEF Found
  <2> QED BY <1>1, <1>2, <2>3, <2>4, <2>5, HoldsKeeps
<1>7. CASE ~Ends(p) /\ Rebind(p)
  <2>1. PICK i : i = [c EXCEPT !.pc = "publish"]
    OBVIOUS
  <2>2. CheckShape(i) /\ i.pc = "publish" /\ i.at = c.at /\ i.read = c.read
        /\ i.commitment = c.commitment /\ i.result = c.result
    BY <1>3, <2>1 DEF CheckShape
  <2>3. Goes(p, i) /\ scans' = scans /\ "publish" \in After /\ c.pc = "rebind"
    BY <1>2, <1>7, <2>1 DEF Rebind, After, CacheStep
  <2>4. Found(c.at, c.commitment, c.result)
    BY <1>2, <2>3, Known
  <2>5. Found(i.at, i.commitment, i.result)'
    BY <2>2, <2>3, <2>4 DEF Found
  <2> QED BY <1>1, <1>2, <2>2, <2>3, <2>5, HoldsKeeps
<1> QED BY <1>4, <1>5, <1>6, <1>7

\* The object with p's snapshot in it.
LEMMA PublishedFields ==
    ASSUME CacheInv, NEW p \in Invocations, inv[p].pc = "publish"
    PROVE  /\ RecordShape(Published(p)) /\ Published(p).attempt = inv[p].at
           /\ RecordSound(Published(p)) /\ SnapshotSound(Snapshot(p))
           /\ Snapshot(p).commitment = inv[p].commitment
<1>1. PICK c, r, s : c = inv[p] /\ r = Reservation(p) /\ s = Snapshot(p)
  OBVIOUS
<1>2. RecordShape(r) /\ r.attempt = c.at
  BY <1>1, ReservationFields DEF HasRead
<1>3. c.at \in Nat /\ c.at <= now /\ Found(c.at, c.commitment, c.result)
  BY <1>1, Known
<1>4. s.checked = c.at /\ s.commitment = c.commitment /\ s.result = c.result
  BY <1>1 DEF Snapshot
<1>5. SnapshotSound(s)
  BY <1>3, <1>4 DEF SnapshotSound
<1>6. PICK n : n = [r EXCEPT !.snapshot = s]
  OBVIOUS
<1>7. RecordShape(n) /\ n.attempt = c.at /\ n.snapshot = s
  BY <1>2, <1>6 DEF RecordShape
<1>8. RecordSound(n)
  BY <1>3, <1>5, <1>7 DEF RecordSound
<1> QED BY <1>1, <1>4, <1>5, <1>6, <1>7, <1>8 DEF Published

\* A publication keeps the time of the reservation that it completes.
LEMMA PublishedKeeps ==
    ASSUME CacheInv, NEW p \in Invocations, inv[p].pc = "publish", record = Reservation(p),
           record' = Published(p), UNCHANGED <<now, scans, jobs>>,
           Ends(p) \/ Decide(p, Snapshot(p), inv[p].commitment)
    PROVE  CacheInv'
<1>1. PICK c, r, s : c = inv[p] /\ r = Published(p) /\ s = Snapshot(p)
  OBVIOUS
<1>2. Later /\ JobsAreFresh' /\ now \in Nat
  <2>1. Later /\ now \in Nat
    BY DEF Later, CacheInv, CacheType
  <2> QED BY <2>1, JobsStay DEF CacheInv
<1>3. /\ RecordShape(r) /\ r.attempt = c.at /\ RecordSound(r) /\ SnapshotSound(s)
      /\ s.commitment = c.commitment
  BY <1>1, PublishedFields
<1>4. RecordSound(r)' /\ SnapshotSound(s)'
  BY <1>2, <1>3, RecordStays, SnapshotStays DEF CacheInv
<1>5. RecordSound(record)' /\ RecordShape(record') /\ record'.attempt = record.attempt
  BY <1>1, <1>3, <1>4, ReservationFields DEF HasRead
<1>6. \A q \in Invocations \ {p} : inv[q].pc \in After =>
         record'.attempt \in Nat /\ inv[q].at <= record'.attempt
  BY <1>5, Known DEF After
<1>7. c.at \in Nat /\ c.at <= now /\ CheckShape(c)
  BY <1>1, Known
<1>8. PICK i : Goes(p, i) /\
        (i = NoCheck \/ i = [c EXCEPT !.pc = "submit", !.snapshot = s, !.commitment = c.commitment])
  BY <1>1 DEF Ends, Decide
<1>9. inv'[p] = i
  BY <1>8 DEF Goes, CacheInv, CacheType
<1>10. CASE i = NoCheck
  <2>1. CheckShape(i) /\ i.pc = "idle" /\ i.pc \notin After
    BY <1>10 DEF CheckShape, NoCheck, After
  <2>2. CheckSound(p)'
    BY <1>9, <2>1 DEF CheckSound
  <2> QED BY <1>2, <1>5, <1>6, <1>8, <2>1, <2>2, StepKeeps
<1>11. CASE i = [c EXCEPT !.pc = "submit", !.snapshot = s, !.commitment = c.commitment]
  <2>1. CheckShape(i) /\ i.pc = "submit" /\ i.at = c.at /\ i.snapshot = s
        /\ i.commitment = c.commitment
    BY <1>7, <1>11 DEF CheckShape
  <2>2. "submit" \notin After /\ "submit" \notin HasRead
    BY DEF After, HasRead
  <2>3. CheckSound(p)'
    BY <1>3, <1>4, <1>7, <1>9, <2>1, <2>2 DEF CheckSound
  <2> QED BY <1>2, <1>5, <1>6, <1>8, <2>1, <2>2, <2>3, StepKeeps
<1> QED BY <1>8, <1>10, <1>11

\* The result is published, or another reservation has replaced this one.
LEMMA PublishKeeps ==
    ASSUME CacheInv, NEW p \in Invocations, Publish(p)
    PROVE  CacheInv'
<1>1. UNCHANGED <<now, scans, jobs>> /\ inv[p].pc = "publish"
  BY DEF Publish, CacheStep
<1>2. Later /\ JobsAreFresh'
  <2>1. Later
    BY <1>1 DEF Later, CacheInv, CacheType
  <2> QED BY <1>1, <2>1, JobsStay DEF CacheInv
<1>3. CASE record = Reservation(p)
  BY <1>1, <1>3, PublishedKeeps DEF Publish, compare_exchange
<1>4. CASE record # Reservation(p)
  BY <1>1, <1>2, <1>4, EndKeeps DEF Publish, compare_exchange
<1> QED BY <1>3, <1>4

\* An invocation gives up; a write of it may still be made.
LEMMA TimeOutKeeps ==
    ASSUME CacheInv, NEW p \in Invocations, TimeOut(p)
    PROVE  CacheInv'
<1>1. UNCHANGED <<now, scans, jobs>> /\ Ends(p)
  BY DEF TimeOut
<1>2. Later /\ JobsAreFresh'
  <2>1. Later
    BY <1>1 DEF Later, CacheInv, CacheType
  <2> QED BY <1>1, <2>1, JobsStay DEF CacheInv
<1>3. CASE UNCHANGED record
  BY <1>1, <1>2, <1>3, EndKeeps
<1>4. CASE inv[p].pc = "reserve" /\ record = inv[p].read /\ record' = Reservation(p)
  BY <1>1, <1>4, ReservedKeeps
<1>5. CASE inv[p].pc = "publish" /\ record = Reservation(p) /\ record' = Published(p)
  BY <1>1, <1>5, PublishedKeeps
<1> QED BY <1>3, <1>4, <1>5 DEF TimeOut

\* A job is submitted while its snapshot is fresh.
LEMMA SubmitKeeps ==
    ASSUME CacheInv, NEW p \in Invocations, Submit(p)
    PROVE  CacheInv'
<1>1. PICK s, g : s = inv[p].snapshot /\ g = inv[p].commitment
  OBVIOUS
<1>2. UNCHANGED <<now, record, scans>> /\ inv[p].pc = "submit" /\ Ends(p)
      /\ now < s.checked + Hold
      /\ jobs' = jobs \cup {[at |-> now, commitment |-> g, result |-> s.result]}
  BY <1>1 DEF Submit, InTime
<1>3. SnapshotSound(s) /\ s.commitment = g
  BY <1>1, <1>2, Known
<1>4. now \in Nat /\ Hold \in Nat /\ s.checked \in Nat /\ s.checked <= now
  BY <1>3, TimeConstants DEF SnapshotSound, CacheInv, CacheType
<1>5. PICK x : x = [at |-> s.checked, commitment |-> g, result |-> s.result] /\ x \in scans
  BY <1>3 DEF SnapshotSound, Found
<1>6. JobsAreFresh'
  <2> SUFFICES ASSUME NEW j \in jobs'
               PROVE  \E y \in scans' : /\ y.result = j.result /\ y.commitment = j.commitment
                                        /\ y.at <= j.at /\ j.at - y.at < Hold
    BY DEF JobsAreFresh
  <2>1. CASE j \in jobs
    BY <1>2, <2>1 DEF CacheInv, JobsAreFresh
  <2>2. CASE j = [at |-> now, commitment |-> g, result |-> s.result]
    <3>1. x.result = j.result /\ x.commitment = j.commitment /\ x.at = s.checked /\ j.at = now
      BY <1>5, <2>2
    <3>2. x.at <= j.at /\ j.at - x.at < Hold
      BY <1>2, <1>4, <3>1
    <3> QED BY <1>2, <1>5, <3>1, <3>2
  <2> QED BY <1>2, <2>1, <2>2
<1> QED BY <1>2, <1>6, EndKeeps

-----------------------------------------------------------------------------
\* Nothing was scanned at first.
LEMMA CacheInit == Init => CacheInv
<1> SUFFICES ASSUME Init  PROVE CacheInv
  OBVIOUS
<1>1. CheckShape(NoCheck) /\ NoCheck.pc = "idle"
  BY DEF CheckShape, NoCheck
<1>2. RecordShape(NoRecord) /\ NoRecord.attempt = None /\ NoRecord.snapshot = None
  BY DEF RecordShape, NoRecord
<1>3. /\ now = 0 /\ record = NoRecord /\ jobs = {} /\ inv = [p \in Invocations |-> NoCheck]
  BY DEF Init
<1>4. CacheType /\ RecordSound(record)
  BY <1>1, <1>2, <1>3 DEF CacheType, RecordSound
<1>5. \A p \in Invocations : CheckSound(p)
  BY <1>1, <1>3 DEF CheckSound
<1>6. Apart /\ JobsAreFresh
  BY <1>1, <1>3 DEF Apart, JobsAreFresh, After
<1> QED BY <1>4, <1>5, <1>6 DEF CacheInv

\* Every step keeps the invariant.
LEMMA CacheNext == CacheInv /\ [Next]_vars => CacheInv'
<1> SUFFICES ASSUME CacheInv, [Next]_vars  PROVE CacheInv'
  OBVIOUS
<1>1. now \in Nat
  BY DEF CacheInv, CacheType
<1>2. CASE \/ Mine \/ Finalize \/ Switch \/ ReadFinalized \/ ReadHead \/ ReadState \/ ReadRatios
           \/ CheckFinalized \/ CheckHead \/ UNCHANGED vars
  <2>1. UNCHANGED <<now, record, inv, scans, jobs>>
    BY <1>2 DEF Mine, Finalize, Switch, ReadFinalized, ReadHead, ReadState, ReadRatios,
                CheckFinalized, CheckHead, notBuild, cacheVars, vars
  <2>2. Later
    BY <1>1, <2>1 DEF Later
  <2> QED BY <2>1, <2>2, WorldKeeps
<1>3. CASE Tick
  <2>1. UNCHANGED <<record, inv, scans, jobs>> /\ now' = now + 1
    BY <1>3 DEF Tick
  <2>2. Later
    BY <1>1, <2>1 DEF Later
  <2> QED BY <2>1, <2>2, WorldKeeps
<1>4. ASSUME NEW p \in Invocations,
             \/ BeginCheck(p) \/ GetRecord(p) \/ Bind(p) \/ Reserve(p) \/ Verify(p)
             \/ Scan(p) \/ Rebind(p) \/ Publish(p) \/ TimeOut(p) \/ Submit(p)
      PROVE  CacheInv'
  BY <1>4, BeginKeeps, GetKeeps, BindKeeps, ReserveKeeps, ScanKeeps, PublishKeeps, TimeOutKeeps,
     SubmitKeeps
<1> QED BY <1>2, <1>3, <1>4 DEF Next

\* The object and the invocations always fit together.
THEOREM CacheInvHolds == Spec => []CacheInv
BY CacheInit, CacheNext, PTL DEF Spec

\* Two invocations never scan the history at the same time: the conditional
\* writes of check_inner put reservations Hold apart, and within_deadline ends
\* a scan before.
THEOREM ScansNeverOverlap == Spec => []OneScanAtATime
<1>1. CacheInv => OneScanAtATime
  <2> SUFFICES ASSUME CacheInv, NEW p \in Invocations, NEW q \in Invocations, p # q,
                      inv[p].pc = "scan", InBudget(p), inv[q].pc = "scan", InBudget(q)
               PROVE  FALSE
    BY DEF OneScanAtATime
  <2>1. inv[p].at \in Nat /\ inv[p].at <= now /\ inv[q].at \in Nat /\ inv[q].at <= now
    BY Known
  <2>2. inv[p].at + Hold <= inv[q].at \/ inv[q].at + Hold <= inv[p].at
    BY DEF CacheInv, Apart, After
  <2>3. now < inv[p].at + CacheBudget /\ now < inv[q].at + CacheBudget /\ now \in Nat
    BY DEF InBudget, CacheInv, CacheType
  <2>4. Hold \in Nat /\ CacheBudget \in Nat /\ CacheBudget <= Hold
    BY TimeConstants
  <2> QED BY <2>1, <2>2, <2>3, <2>4
<1> QED BY <1>1, CacheInvHolds, PTL

\* Every job was submitted within Hold of the reservation of a scan that found
\* its drop under its configuration, whether by the invocation that scanned or
\* by one that read the result from the object.
THEOREM JobsAlwaysFresh == Spec => []JobsAreFresh
<1>1. CacheInv => JobsAreFresh
  BY DEF CacheInv
<1> QED BY <1>1, CacheInvHolds, PTL

-----------------------------------------------------------------------------
(* Arithmetic of the sampling grid *)

\* Quotient and remainder.
LEMMA Division ==
    ASSUME NEW a \in Int, NEW b \in Nat, b > 0
    PROVE  /\ a \div b \in Int /\ a % b \in Int
           /\ 0 <= a % b /\ a % b < b /\ a = (a \div b) * b + (a % b)
OBVIOUS

\* Multiples of Step.
LEMMA GridSum == \A a, b, s \in Int : (a + b) * s = a * s + b * s
OBVIOUS

LEMMA GridProduct == \A a, s \in Int : a * s \in Int
OBVIOUS

LEMMA GridOrder ==
    ASSUME NEW a \in Int, NEW b \in Int, NEW s \in Nat, s > 0
    PROVE  /\ a <= b <=> a * s <= b * s
           /\ a < b <=> a * s < b * s
           /\ a < b => a * s + s <= b * s
OBVIOUS

LEMMA GridMod ==
    ASSUME NEW k \in Int, NEW s \in Nat, s > 0
    PROVE  (k * s) % s = 0 /\ (k * s) \div s = k
OBVIOUS

\* The number of samples of a window.
Samples == Twap \div Step

LEMMA PriceConstants ==
    /\ Twap \in Nat /\ Step \in Nat /\ MaxAge \in Nat /\ Step > 0
    /\ Samples \in Nat /\ Samples >= 2 /\ Twap = Samples * Step /\ Twap >= 1
<1>1. Twap \in Nat /\ Step \in Nat /\ MaxAge \in Nat /\ Step > 0 /\ Twap % Step = 0
      /\ Samples >= 2
  BY OpenAssumption DEF Samples
<1>2. Samples \in Int /\ Twap = Samples * Step + (Twap % Step)
  BY <1>1, Division DEF Samples
<1>3. Samples * Step \in Int
  BY <1>1, <1>2, GridProduct
<1>4. Twap = Samples * Step
  BY <1>1, <1>2, <1>3
<1>5. Twap >= 1
  BY <1>1, <1>2, <1>4
<1> QED BY <1>1, <1>2, <1>4, <1>5

\* The last member of a nonempty bounded set of numbers.
LEMMA MaxIs ==
    ASSUME NEW S, \E x \in S : \A y \in S : x >= y
    PROVE  Max(S) \in S /\ \A y \in S : Max(S) >= y
BY DEF Max

-----------------------------------------------------------------------------
(* The two windows *)

\* The sums of the windows of n samples before and after sample i + n.
Sums(ratio, n, i) ==
    [base |-> Total(ratio, i .. i + n - 1), distress |-> Total(ratio, i + n + 1 .. i + 2 * n)]

\* A window moves by one sample.
LEMMA WindowMoves ==
    ASSUME NEW f, NEW a \in Int, NEW b \in Int, a <= b, \A k \in a .. b + 1 : f[k] \in Int
    PROVE  /\ Total(f, a .. b) \in Int
           /\ Total(f, a + 1 .. b + 1) = Total(f, a .. b) - f[a] + f[b + 1]
<1>1. IsFiniteSet(a .. b) /\ IsFiniteSet(a + 1 .. b)
  BY FS_Interval
<1>2. (a .. b) \ {a} = a + 1 .. b /\ (a + 1 .. b) \cup {b + 1} = a + 1 .. b + 1
      /\ b + 1 \notin a + 1 .. b /\ a \in a .. b
  OBVIOUS
<1>3. \A k \in a .. b : f[k] \in Int
  OBVIOUS
<1>4. \A k \in (a + 1 .. b) \cup {b + 1} : f[k] \in Int
  OBVIOUS
<1>5. Total(f, a .. b) = f[a] + Total(f, a + 1 .. b)
  BY <1>1, <1>2, <1>3, TotalRemove
<1>6. Total(f, a + 1 .. b + 1) = f[b + 1] + Total(f, a + 1 .. b)
  BY <1>1, <1>2, <1>4, TotalAdd
<1>7. Total(f, a .. b) \in Int /\ Total(f, a + 1 .. b) \in Int
  BY <1>1, <1>3, <1>4, TotalInt
<1>8. f[a] \in Int /\ f[b + 1] \in Int
  OBVIOUS
<1> QED BY <1>5, <1>6, <1>7, <1>8

\* Slide keeps the two sums up to date.
LEMMA SlideSums ==
    ASSUME NEW ratio, NEW n \in Nat, n > 0, NEW i \in Nat,
           \A k \in i .. i + 2 * n + 1 : ratio[k] \in Int
    PROVE  Slide(Sums(ratio, n, i), ratio, i, n) = Sums(ratio, n, i + 1)
<1>1. Total(ratio, i + 1 .. (i + n - 1) + 1)
        = Total(ratio, i .. i + n - 1) - ratio[i] + ratio[(i + n - 1) + 1]
  <2>1. \A k \in i .. (i + n - 1) + 1 : ratio[k] \in Int
    OBVIOUS
  <2> QED BY <2>1, WindowMoves
<1>2. Total(ratio, (i + n + 1) + 1 .. (i + 2 * n) + 1)
        = Total(ratio, i + n + 1 .. i + 2 * n) - ratio[i + n + 1] + ratio[(i + 2 * n) + 1]
  <2>1. \A k \in i + n + 1 .. (i + 2 * n) + 1 : ratio[k] \in Int
    OBVIOUS
  <2> QED BY <2>1, WindowMoves
<1>3. /\ (i + n - 1) + 1 = i + n /\ (i + 1) + n - 1 = i + n
      /\ (i + n + 1) + 1 = (i + 1) + n + 1 /\ (i + 2 * n) + 1 = (i + 1) + 2 * n
      /\ (i + 2 * n) + 1 = i + 2 * n + 1
  OBVIOUS
<1>4. Total(ratio, i + 1 .. (i + 1) + n - 1)
        = Total(ratio, i .. i + n - 1) - ratio[i] + ratio[i + n]
  BY <1>1, <1>3, Zenon
<1>5. Total(ratio, (i + 1) + n + 1 .. (i + 1) + 2 * n)
        = Total(ratio, i + n + 1 .. i + 2 * n) - ratio[i + n + 1] + ratio[i + 2 * n + 1]
  BY <1>2, <1>3, Zenon
<1> QED BY <1>4, <1>5 DEF Slide, Sums

\* windows computes, sample by sample, the sums of every candidate's windows.
LEMMA WindowSums ==
    ASSUME NEW ratio, NEW n \in Nat, n > 0, NEW count \in Nat,
           \A k \in 0 .. count + 2 * n - 1 : ratio[k] \in Int
    PROVE  \A i \in 0 .. count - 1 : windows(ratio, n, count)[i] = Sums(ratio, n, i)
<1> DEFINE R(w, i) == IF i = 0 THEN [base |-> Sum(ratio, 0 .. n - 1),
                                     distress |-> Sum(ratio, n + 1 .. 2 * n)]
                      ELSE Slide(w[i - 1], ratio, i - 1, n)
           Eq(w) == w = [i \in 0 .. count - 1 |-> R(w, i)]
           C == [i \in 0 .. count - 1 |-> Sums(ratio, n, i)]
           W == windows(ratio, n, count)
<1>1. W = CHOOSE w : Eq(w)
  BY DEF windows
<1>2. R(C, 0) = Sums(ratio, n, 0)
  <2>1. 0 + n - 1 = n - 1 /\ 0 + n + 1 = n + 1 /\ 0 + 2 * n = 2 * n
    OBVIOUS
  <2> QED BY <2>1 DEF Sum, Sums, Total
<1>3. ASSUME NEW i \in 0 .. count - 1, i # 0
      PROVE  Slide(Sums(ratio, n, i - 1), ratio, i - 1, n) = Sums(ratio, n, i)
  <2> DEFINE j == i - 1
  <2>1. j \in Nat /\ j + 1 = i
    BY <1>3
  <2>2. \A k \in j .. j + 2 * n + 1 : ratio[k] \in Int
    BY <1>3
  <2> HIDE DEF j
  <2>3. Slide(Sums(ratio, n, j), ratio, j, n) = Sums(ratio, n, j + 1)
    BY <2>1, <2>2, SlideSums
  <2> QED BY <2>1, <2>3 DEF j
<1>4. ASSUME NEW i \in 0 .. count - 1 PROVE R(C, i) = Sums(ratio, n, i)
  <2>1. CASE i = 0
    BY <1>2, <2>1
  <2>2. CASE i # 0
    <3>1. i - 1 \in 0 .. count - 1
      BY <2>2
    <3>2. C[i - 1] = Sums(ratio, n, i - 1)
      BY <3>1
    <3> HIDE DEF C
    <3> QED BY <2>2, <3>2, <1>3
  <2> QED BY <2>1, <2>2
<1>5. Eq(C)
  <2> HIDE DEF R
  <2>1. C = [i \in 0 .. count - 1 |-> R(C, i)]
    BY <1>4
  <2> QED BY <2>1
<1>6. Eq(W)
  <2> HIDE DEF W, C, R
  <2> QED BY <1>1, <1>5
<1>7. ASSUME NEW i \in 0 .. count - 1 PROVE W[i] = R(W, i)
  <2> HIDE DEF W, R
  <2> QED BY <1>6
<1> DEFINE T == {i \in 0 .. count - 1 : W[i] # Sums(ratio, n, i)}
<1> HIDE DEF W
<1>8. ASSUME T # {} PROVE FALSE
  <2>1. T \subseteq Nat
    OBVIOUS
  <2>2. PICK x \in T : \A y \in T : x <= y
    <3> HIDE DEF T
    <3> QED BY <1>8, <2>1, SmallestNat
  <2>3. x \in 0 .. count - 1 /\ W[x] # Sums(ratio, n, x) /\ W[x] = R(W, x)
    BY <1>7
  <2>4. x # 0
    BY <1>2, <2>3
  <2>5. x - 1 \in 0 .. count - 1 /\ x - 1 \notin T
    BY <2>2, <2>3, <2>4
  <2>6. W[x - 1] = Sums(ratio, n, x - 1)
    BY <2>5
  <2> HIDE DEF T
  <2> QED BY <1>3, <2>3, <2>4, <2>6
<1> QED BY <1>8 DEF W

-----------------------------------------------------------------------------
(* What the discovery finds *)

\* The definitions of discover, named.
Count(latest, final) == (Last(final) - First(latest)) \div Step + 1

Read(latest, final) == ratios_at(First(latest) - Twap, Count(latest, final) + 2 * Samples)

Qualifies(latest, final, policy, i) ==
    LET w == windows(Read(latest, final), Samples, Count(latest, final))[i]
    IN  w.distress * Bps < w.base * (Bps - Drop[policy])

Starts(latest, final, policy) ==
    {i \in 0 .. Count(latest, final) - 1 :
        Qualifies(latest, final, policy, i) /\ (i > 0 => ~Qualifies(latest, final, policy, i - 1))}

\* Blocks that may be the reference of an authorization.
Candidates(latest, final) == {c \in Twap .. final - Twap : c % Step = 0 /\ latest - c <= MaxAge}

LEMMA DiscoverIs ==
    ASSUME NEW latest, NEW final, NEW policy, NEW d, d = discover(latest, final, policy),
           d.outcome = "qualifying"
    PROVE  /\ ~(final < Twap) /\ ~(First(latest) > Last(final))
           /\ Starts(latest, final, policy) # {}
           /\ d.reference = First(latest) + Max(Starts(latest, final, policy)) * Step
<1>1. d = IF final < Twap \/ First(latest) > Last(final) \/ First(latest) >= latest
             \/ Count(latest, final) + 2 * Samples > MaxPoints
          THEN NoWindow
          ELSE IF Starts(latest, final, policy) = {} THEN NoDrop
          ELSE [outcome |-> "qualifying",
                reference |-> First(latest) + Max(Starts(latest, final, policy)) * Step]
  BY DEF discover, Starts, Count, Qualifies, Read, Samples
<1> QED BY <1>1 DEF NoWindow, NoDrop

\* The first and the last block that the discovery considers.
LEMMA Bounds ==
    ASSUME NEW latest \in Nat, NEW final \in Nat, ~(final < Twap), ~(First(latest) > Last(final))
    PROVE  /\ First(latest) \in Nat /\ First(latest) % Step = 0
           /\ First(latest) >= Twap /\ latest - First(latest) <= MaxAge
           /\ Last(final) \in Nat /\ Last(final) <= final - Twap
           /\ Count(latest, final) \in Nat
           /\ Last(final) = First(latest) + (Count(latest, final) - 1) * Step
           /\ \A c \in Candidates(latest, final) : First(latest) <= c /\ c <= Last(final)
<1> DEFINE E == Earliest(latest)
           q == (E + Step - 1) \div Step
           l == (final - Twap) \div Step
<1>0. Twap \in Nat /\ Step \in Nat /\ MaxAge \in Nat /\ Step > 0 /\ Twap >= 1
  BY PriceConstants
<1>1. E \in Int /\ E >= Twap /\ E >= latest - MaxAge /\ E >= 1
      /\ E \in {latest - MaxAge, Twap, 1}
  <2> DEFINE S == {latest - MaxAge, Twap, 1}
  <2>1. \E x \in S : \A y \in S : x >= y
    BY <1>0
  <2>2. E = Max(S)
    BY DEF Earliest
  <2>3. Max(S) \in S /\ \A y \in S : Max(S) >= y
    <3> HIDE DEF S
    <3> QED BY <2>1, MaxIs
  <2> HIDE DEF E
  <2> QED BY <1>0, <2>2, <2>3
<1>2. First(latest) = q * Step /\ Last(final) = l * Step
  BY DEF First, Last
<1> HIDE DEF E
<1>3. q \in Int /\ E + Step - 1 = q * Step + ((E + Step - 1) % Step)
      /\ (E + Step - 1) % Step \in Int
      /\ 0 <= (E + Step - 1) % Step /\ (E + Step - 1) % Step < Step
  BY <1>0, <1>1, Division
<1>4. l \in Int /\ final - Twap = l * Step + ((final - Twap) % Step)
      /\ (final - Twap) % Step \in Int
      /\ 0 <= (final - Twap) % Step /\ (final - Twap) % Step < Step
  BY <1>0, Division
<1> HIDE DEF q, l
<1>5. q * Step \in Int /\ l * Step \in Int
  BY <1>0, <1>3, <1>4, GridProduct
<1>6. E <= q * Step /\ q * Step < E + Step
  BY <1>0, <1>1, <1>3, <1>5
<1>7. l * Step <= final - Twap /\ final - Twap < l * Step + Step
  BY <1>0, <1>4, <1>5
<1>8. q <= l
  BY <1>0, <1>2, <1>3, <1>4, <1>5, GridOrder
<1>9. Last(final) - First(latest) = (l - q) * Step
  <2>1. l = q + (l - q) /\ l - q \in Int
    BY <1>3, <1>4
  <2>2. l * Step = q * Step + (l - q) * Step
    BY <1>0, <1>3, <2>1, GridSum
  <2>3. (l - q) * Step \in Int
    BY <1>0, <2>1, GridProduct
  <2> QED BY <1>2, <1>5, <2>2, <2>3
<1>10. Count(latest, final) = (l - q) + 1 /\ l - q \in Int
  <2>1. l - q \in Int
    BY <1>3, <1>4
  <2>2. ((l - q) * Step) \div Step = l - q
    BY <1>0, <2>1, GridMod
  <2> QED BY <1>9, <2>1, <2>2 DEF Count
<1>11. First(latest) % Step = 0
  BY <1>0, <1>2, <1>3, GridMod
<1>12. ASSUME NEW c \in Candidates(latest, final)
       PROVE  First(latest) <= c /\ c <= Last(final)
  <2>1. c \in Int /\ c >= Twap /\ c <= final - Twap /\ c % Step = 0 /\ latest - c <= MaxAge
    BY <1>0 DEF Candidates
  <2>2. PICK m \in Int : c = m * Step
    <3>1. c \div Step \in Int /\ c = (c \div Step) * Step + (c % Step)
      BY <1>0, <2>1, Division
    <3>2. (c \div Step) * Step \in Int
      BY <1>0, <3>1, GridProduct
    <3>3. c = (c \div Step) * Step
      BY <2>1, <3>1, <3>2
    <3> QED BY <3>1, <3>3
  <2>3. c >= E
    BY <1>0, <1>1, <2>1
  <2>4. q <= m
    <3> SUFFICES ASSUME m < q PROVE FALSE
      BY <1>3, <2>2
    <3>1. m * Step + Step <= q * Step
      BY <1>0, <1>3, <2>2, GridOrder
    <3> QED BY <1>0, <1>1, <1>5, <1>6, <2>1, <2>2, <2>3, <3>1
  <2>5. m <= l
    <3> SUFFICES ASSUME l < m PROVE FALSE
      BY <1>4, <2>2
    <3>1. l * Step + Step <= m * Step
      BY <1>0, <1>4, <2>2, GridOrder
    <3> QED BY <1>0, <1>5, <1>7, <2>1, <2>2, <3>1
  <2> QED BY <1>0, <1>2, <1>3, <1>4, <2>2, <2>4, <2>5, GridOrder
<1>13. First(latest) \in Nat /\ First(latest) >= Twap /\ latest - First(latest) <= MaxAge
  BY <1>0, <1>1, <1>2, <1>5, <1>6
<1>14. Last(final) \in Nat /\ Last(final) <= final - Twap
  BY <1>2, <1>5, <1>7, <1>13
<1>15. Count(latest, final) \in Nat /\ Count(latest, final) - 1 = l - q
  BY <1>3, <1>4, <1>8, <1>10
<1>16. Last(final) = First(latest) + (Count(latest, final) - 1) * Step
  <2>1. (l - q) * Step \in Int
    BY <1>0, <1>10, GridProduct
  <2> QED BY <1>9, <1>13, <1>14, <1>15, <2>1
<1> QED BY <1>11, <1>12, <1>13, <1>14, <1>15, <1>16

\* The block of the k-th sample when the discovery begins at block first.
Block(first, k) == (first - Twap) + k * Step

\* The samples of the candidate with number i, in the order of their blocks.
LEMMA BlockIs ==
    ASSUME NEW first \in Int, NEW i \in Int
    PROVE  /\ \A k \in Int : Block(first, k) \in Int
           /\ \A j \in Int : (first + i * Step) - Twap + j * Step = Block(first, i + j)
           /\ Block(first, i + Samples) = first + i * Step
           /\ \A k, l \in Int : Block(first, k) < Block(first, l) <=> k < l
<1>0. Twap \in Nat /\ Step \in Nat /\ Step > 0 /\ Samples \in Nat /\ Twap = Samples * Step
  BY PriceConstants
<1>1. ASSUME NEW k \in Int PROVE Block(first, k) \in Int /\ k * Step \in Int
  BY <1>0, GridProduct DEF Block
<1>2. ASSUME NEW j \in Int
      PROVE  Block(first, i + j) = (first + i * Step) - Twap + j * Step
  <2>1. (i + j) * Step = i * Step + j * Step
    BY <1>0, GridSum
  <2>2. i * Step \in Int /\ j * Step \in Int
    BY <1>1
  <2> QED BY <1>0, <2>1, <2>2 DEF Block
<1>3. Block(first, i + Samples) = first + i * Step
  <2>1. Block(first, i + Samples) = (first + i * Step) - Twap + Samples * Step
    BY <1>0, <1>2
  <2>2. i * Step \in Int
    BY <1>1
  <2> QED BY <1>0, <2>1, <2>2
<1>4. ASSUME NEW k \in Int, NEW l \in Int PROVE Block(first, k) < Block(first, l) <=> k < l
  <2>1. k < l <=> k * Step < l * Step
    BY <1>0, GridOrder
  <2> QED BY <1>0, <1>1, <2>1 DEF Block
<1> QED BY <1>1, <1>2, <1>3, <1>4

\* The discovery reads finalized blocks only.
LEMMA BlocksAreFinal ==
    ASSUME NEW latest \in Nat, NEW final \in Nat, ~(final < Twap), ~(First(latest) > Last(final)),
           NEW k \in 0 .. Count(latest, final) + 2 * Samples - 1
    PROVE  Block(First(latest), k) \in 0 .. final
<1> DEFINE n == Samples
           m == Count(latest, final)
           f == First(latest)
<1>0. Twap \in Nat /\ Step \in Nat /\ Step > 0 /\ n \in Nat /\ Twap = n * Step
  BY PriceConstants
<1>1. /\ f \in Nat /\ f >= Twap /\ m \in Nat /\ Last(final) \in Nat
      /\ Last(final) <= final - Twap /\ Last(final) = f + (m - 1) * Step
  BY Bounds
<1> HIDE DEF m, n, f
<1>2. (m + 2 * n - 1) * Step = (m - 1) * Step + (n * Step + n * Step)
  <2>1. m + 2 * n - 1 = (m - 1) + (n + n)
    BY <1>0, <1>1
  <2>2. ((m - 1) + (n + n)) * Step = (m - 1) * Step + (n + n) * Step
    BY <1>0, <1>1, GridSum
  <2>3. (n + n) * Step = n * Step + n * Step
    BY <1>0, GridSum
  <2> QED BY <2>1, <2>2, <2>3
<1>3. k \in Int /\ 0 <= k /\ k <= m + 2 * n - 1
  BY <1>0, <1>1 DEF m, n
<1>4. 0 * Step <= k * Step /\ k * Step <= (m + 2 * n - 1) * Step
  BY <1>0, <1>1, <1>3, GridOrder
<1>5. k * Step \in Int /\ (m - 1) * Step \in Int
  BY <1>0, <1>1, <1>3, GridProduct
<1>6. 0 <= k * Step /\ k * Step <= (m - 1) * Step + (Twap + Twap)
  BY <1>0, <1>2, <1>4
<1>7. (f - Twap) + k * Step \in 0 .. final
  BY <1>0, <1>1, <1>5, <1>6
<1> QED BY <1>7 DEF Block, f

\* The samples that the discovery reads.
LEMMA ReadIs ==
    ASSUME NEW latest, NEW final,
           NEW k \in 0 .. (Count(latest, final) + 2 * Samples) - 1
    PROVE  Read(latest, final)[k] = chain[Block(First(latest), k) + 1].ratio
<1> DEFINE first == First(latest) - Twap
           count == Count(latest, final) + 2 * Samples
           r(i) == At(first + i * Step).ratio
<1>1. Read(latest, final) = [i \in 0 .. count - 1 |-> r(i)]
  BY DEF Read, ratios_at
<1>2. k \in 0 .. count - 1
  OBVIOUS
<1>3. r(k) = chain[Block(First(latest), k) + 1].ratio
  BY DEF At, Block
<1> HIDE DEF r, count
<1> QED BY <1>1, <1>2, <1>3

\* A candidate qualifies if and only if the ratio dropped over its block.
LEMMA QualifiesIsDropped ==
    ASSUME NEW latest \in Nat, NEW final \in Nat, ~(final < Twap), ~(First(latest) > Last(final)),
           NEW policy, NEW blocks,
           \A b \in 0 .. final :
                chain[b + 1].ratio \in Int /\ blocks[b + 1].ratio = chain[b + 1].ratio,
           NEW i \in 0 .. Count(latest, final) - 1
    PROVE  Qualifies(latest, final, policy, i)
             <=> Dropped(blocks, First(latest) + i * Step, policy)
<1> DEFINE n == Samples
           m == Count(latest, final)
           f == First(latest)
           c == f + i * Step
           S == 0 .. m + 2 * n - 1
           phi == [k \in S |-> Block(f, k)]
           read == Read(latest, final)
           D == {c - Twap + j * Step : j \in 0 .. 2 * n}
           ratio == [b \in D |-> blocks[b + 1].ratio]
           A == i .. i + n - 1
           B == i + n + 1 .. i + 2 * n
<1>0. Twap \in Nat /\ Step \in Nat /\ Step > 0 /\ n \in Nat /\ n >= 2 /\ f \in Nat /\ m \in Nat
  BY PriceConstants, Bounds
<1>1. \A k \in S : Block(f, k) \in 0 .. final
  BY BlocksAreFinal
<1>2. \A k \in S : read[k] = chain[Block(f, k) + 1].ratio
  <2>1. S = 0 .. (m + 2 * n) - 1
    <3> HIDE DEF m, n
    <3> QED BY <1>0
  <2>2. \A k \in 0 .. (m + 2 * n) - 1 : read[k] = chain[Block(f, k) + 1].ratio
    BY ReadIs
  <2> HIDE DEF S, m, n, read, f
  <2> QED BY <2>1, <2>2
<1> HIDE DEF n, m, f, read
<1>3. \A k \in S : read[k] \in Int /\ read[k] = blocks[Block(f, k) + 1].ratio
  <2>1. ASSUME NEW k \in S PROVE read[k] \in Int /\ read[k] = blocks[Block(f, k) + 1].ratio
    <3>1. Block(f, k) \in 0 .. final /\ read[k] = chain[Block(f, k) + 1].ratio
      BY <1>1, <1>2
    <3> QED BY <3>1
  <2> QED BY <2>1
<1>4. i \in 0 .. m - 1 /\ i \in Nat
  BY DEF m
<1>5. windows(read, n, m)[i] = Sums(read, n, i)
  <2>1. \A k \in 0 .. m + 2 * n - 1 : read[k] \in Int
    BY <1>3
  <2>2. n > 0
    BY <1>0
  <2> HIDE DEF S
  <2> QED BY <1>0, <1>4, <2>1, <2>2, WindowSums, Zenon
<1>6. A \subseteq S /\ B \subseteq S /\ A \subseteq Int /\ B \subseteq Int
  BY <1>0, <1>4
<1>b. /\ \A k \in Int : Block(f, k) \in Int
      /\ \A j \in Int : c - Twap + j * Step = Block(f, i + j)
      /\ Block(f, i + n) = c
      /\ \A k, l \in Int : Block(f, k) < Block(f, l) <=> k < l
  <2>1. f \in Int /\ i \in Int
    BY <1>0, <1>4
  <2> QED BY <2>1, BlockIs, Zenon DEF n
<1>7. D = {Block(f, k) : k \in i .. i + 2 * n}
  <2>1. \A j \in Int : c - Twap + j * Step = Block(f, i + j)
    BY <1>b
  <2> HIDE DEF c
  <2>2. ASSUME NEW b \in D PROVE b \in {Block(f, k) : k \in i .. i + 2 * n}
    <3>1. PICK j \in 0 .. 2 * n : b = c - Twap + j * Step
      OBVIOUS
    <3>2. i + j \in i .. i + 2 * n /\ j \in Int
      BY <1>0, <1>4
    <3> QED BY <2>1, <3>1, <3>2
  <2>3. ASSUME NEW k \in i .. i + 2 * n PROVE Block(f, k) \in D
    <3> DEFINE j == k - i
    <3>1. j \in 0 .. 2 * n /\ j \in Int /\ i + j = k
      BY <1>0, <1>4
    <3> HIDE DEF j
    <3>2. c - Twap + j * Step = Block(f, k)
      BY <2>1, <3>1
    <3> QED BY <3>1, <3>2
  <2> HIDE DEF D
  <2> QED BY <2>2, <2>3
<1>8. \A k, l \in Int : Block(f, k) < Block(f, l) <=> k < l
  BY <1>b
<1>9. c = Block(f, i + n)
  BY <1>b
<1>10. \A k \in Int : Block(f, k) \in Int
  BY <1>b
<1> HIDE DEF c, D
<1>11. {b \in D : b < c} = {Block(f, k) : k \in A} /\ {b \in D : b > c} = {Block(f, k) : k \in B}
  <2>1. ASSUME NEW k \in i .. i + 2 * n
        PROVE  k \in Int /\ (Block(f, k) < c <=> k \in A) /\ (Block(f, k) > c <=> k \in B)
    <3>1. k \in Int /\ i + n \in Int
      BY <1>0, <1>4
    <3>2. Block(f, k) < c <=> k < i + n
      BY <1>8, <1>9, <3>1
    <3>3. c < Block(f, k) <=> i + n < k
      BY <1>8, <1>9, <3>1
    <3>4. Block(f, k) \in Int /\ c \in Int
      BY <1>9, <1>10, <3>1
    <3> QED BY <1>0, <1>4, <3>1, <3>2, <3>3, <3>4
  <2>2. A \subseteq i .. i + 2 * n /\ B \subseteq i .. i + 2 * n
    BY <1>0, <1>4
  <2> HIDE DEF A, B
  <2> QED BY <1>7, <2>1, <2>2
<1>12. ASSUME NEW X, X \subseteq S, IsFiniteSet(X), {Block(f, k) : k \in X} \subseteq D
       PROVE  Total(ratio, {Block(f, k) : k \in X}) = Total(read, X)
  <2>1. \A k \in X : phi[k] = Block(f, k)
    BY <1>12
  <2> HIDE DEF phi
  <2>2. {Block(f, k) : k \in X} = {phi[k] : k \in X}
    BY <2>1
  <2>3. \A k \in X : ratio[phi[k]] \in Int /\ read[k] = ratio[phi[k]]
    <3> SUFFICES ASSUME NEW k \in X PROVE ratio[phi[k]] \in Int /\ read[k] = ratio[phi[k]]
      OBVIOUS
    <3>1. k \in S /\ Block(f, k) \in D
      BY <1>12
    <3>2. ratio[Block(f, k)] = blocks[Block(f, k) + 1].ratio
      BY <3>1
    <3> HIDE DEF ratio, S
    <3> QED BY <1>3, <2>1, <3>1, <3>2
  <2>4. \A k, l \in X : phi[k] = phi[l] => k = l
    <3> SUFFICES ASSUME NEW k \in X, NEW l \in X, Block(f, k) = Block(f, l) PROVE k = l
      BY <2>1
    <3>1. k \in Int /\ l \in Int
      BY <1>12
    <3>2. ~(k < l) /\ ~(l < k)
      BY <1>8, <1>10, <3>1
    <3> QED BY <3>1, <3>2
  <2> HIDE DEF ratio, S
  <2>5. IsFiniteSet(X)
    BY <1>12
  <2>6. Total(ratio, {phi[k] : k \in X}) = Total(read, X)
    BY <2>3, <2>4, <2>5, TotalImage
  <2> QED BY <2>2, <2>6
<1>13. IsFiniteSet(A) /\ IsFiniteSet(B)
  <2>1. i \in Int /\ i + n - 1 \in Int /\ i + n + 1 \in Int /\ i + 2 * n \in Int
    BY <1>0, <1>4
  <2> QED BY <2>1, FS_Interval, Zenon
<1>14. {Block(f, k) : k \in A} \subseteq D /\ {Block(f, k) : k \in B} \subseteq D
  BY <1>11
<1>15. /\ Total(ratio, {b \in D : b < c}) = Total(read, A)
       /\ Total(ratio, {b \in D : b > c}) = Total(read, B)
  <2> HIDE DEF A, B, ratio, S
  <2>1. Total(ratio, {Block(f, k) : k \in A}) = Total(read, A)
    BY <1>6, <1>12, <1>13, <1>14
  <2>2. Total(ratio, {Block(f, k) : k \in B}) = Total(read, B)
    BY <1>6, <1>12, <1>13, <1>14
  <2> QED BY <1>11, <2>1, <2>2
<1>16. Qualifies(latest, final, policy, i)
         <=> Total(read, B) * Bps < Total(read, A) * (Bps - Drop[policy])
  BY <1>5 DEF Qualifies, Sums, n, m, read
<1>17. Dropped(blocks, c, policy)
         <=> Total(ratio, {b \in D : b > c}) * Bps
               < Total(ratio, {b \in D : b < c}) * (Bps - Drop[policy])
  <2>1. DOMAIN ratio = D
    OBVIOUS
  <2> QED BY <2>1 DEF Dropped, Sum, Total, D, n, Samples
<1> HIDE DEF A, B, ratio, S
<1> QED BY <1>15, <1>16, <1>17 DEF c, f

\* The candidates are the blocks of the grid from the first to the last.
LEMMA CandidateNumber ==
    ASSUME NEW latest \in Nat, NEW final \in Nat, ~(final < Twap), ~(First(latest) > Last(final))
    PROVE  /\ \A i \in 0 .. Count(latest, final) - 1 :
                First(latest) + i * Step \in Candidates(latest, final)
           /\ \A c \in Candidates(latest, final) : \E i \in 0 .. Count(latest, final) - 1 :
                c = First(latest) + i * Step
<1> DEFINE f == First(latest)
           m == Count(latest, final)
           q == f \div Step
<1>0. Twap \in Nat /\ Step \in Nat /\ MaxAge \in Nat /\ Step > 0
  BY PriceConstants
<1>1. /\ f \in Nat /\ f % Step = 0 /\ f >= Twap /\ latest - f <= MaxAge
      /\ Last(final) \in Nat /\ Last(final) <= final - Twap
      /\ m \in Nat /\ Last(final) = f + (m - 1) * Step
      /\ \A c \in Candidates(latest, final) : f <= c /\ c <= Last(final)
  BY Bounds
<1> HIDE DEF f, m
<1>2. q \in Int /\ f = q * Step
  <2>1. q \in Int /\ f = q * Step + (f % Step)
    BY <1>0, <1>1, Division
  <2>2. q * Step \in Int
    BY <1>0, <2>1, GridProduct
  <2> QED BY <1>1, <2>1, <2>2
<1> HIDE DEF q
<1>3. \A i \in Int : i * Step \in Int /\ f + i * Step = (q + i) * Step
  <2>1. ASSUME NEW i \in Int PROVE i * Step \in Int /\ f + i * Step = (q + i) * Step
    <3>1. (q + i) * Step = q * Step + i * Step
      BY <1>0, <1>2, GridSum
    <3> QED BY <1>0, <1>2, <3>1, GridProduct
  <2> QED BY <2>1
<1>4. ASSUME NEW i \in 0 .. m - 1 PROVE f + i * Step \in Candidates(latest, final)
  <2>1. i \in Int /\ 0 <= i /\ i <= m - 1
    BY <1>1
  <2>2. (f + i * Step) % Step = 0
    <3>1. q + i \in Int
      BY <1>2, <2>1
    <3>2. ((q + i) * Step) % Step = 0
      BY <1>0, <3>1, GridMod
    <3> QED BY <1>3, <2>1, <3>2
  <2>3. 0 * Step <= i * Step /\ i * Step <= (m - 1) * Step
    BY <1>0, <1>1, <2>1, GridOrder
  <2>4. i * Step \in Int /\ (m - 1) * Step \in Int /\ 0 <= i * Step
    BY <1>0, <1>1, <1>3, <2>1, <2>3
  <2>5. f + i * Step \in Twap .. final - Twap /\ latest - (f + i * Step) <= MaxAge
    BY <1>0, <1>1, <2>3, <2>4
  <2> QED BY <2>2, <2>5 DEF Candidates
<1>5. ASSUME NEW c \in Candidates(latest, final) PROVE \E i \in 0 .. m - 1 : c = f + i * Step
  <2>1. c \in Int /\ c % Step = 0 /\ f <= c /\ c <= f + (m - 1) * Step
    BY <1>0, <1>1 DEF Candidates
  <2> DEFINE i == (c \div Step) - q
  <2>2. c \div Step \in Int /\ c = (c \div Step) * Step + (c % Step)
    BY <1>0, <2>1, Division
  <2>3. i \in Int /\ q + i = c \div Step
    BY <1>2, <2>2
  <2>4. (c \div Step) * Step \in Int
    BY <1>0, <2>2, GridProduct
  <2>5. c = (c \div Step) * Step
    BY <2>1, <2>2, <2>4
  <2> HIDE DEF i
  <2>6. c = f + i * Step
    BY <1>3, <2>3, <2>5
  <2>7. 0 * Step = 0 /\ i * Step \in Int /\ (m - 1) * Step \in Int
    BY <1>0, <1>1, <1>3, <2>3
  <2>8. 0 * Step <= i * Step /\ i * Step <= (m - 1) * Step
    BY <1>1, <2>1, <2>6, <2>7
  <2>9. 0 <= i /\ i <= m - 1
    BY <1>0, <1>1, <2>3, <2>8, GridOrder
  <2> QED BY <1>1, <2>3, <2>6, <2>9
<1> QED BY <1>4, <1>5 DEF f, m

\* The drop that a discovery over these blocks may rest an authorization on.
Evidence(blocks, latest, final, policy, reference) ==
    /\ reference \in Candidates(latest, final)
    /\ Dropped(blocks, reference, policy)
    /\ \A c \in Candidates(latest, final) :
            c > reference /\ Dropped(blocks, c, policy) => Dropped(blocks, c - Step, policy)

\* What discover returns is the beginning of the last drop.
LEMMA DiscoverSound ==
    ASSUME NEW latest \in Nat, NEW final \in Nat, NEW policy, NEW blocks,
           \A b \in 0 .. final :
                chain[b + 1].ratio \in Int /\ blocks[b + 1].ratio = chain[b + 1].ratio,
           NEW d, d = discover(latest, final, policy), d.outcome = "qualifying"
    PROVE  Evidence(blocks, latest, final, policy, d.reference)
<1> DEFINE f == First(latest)
           m == Count(latest, final)
           T == Starts(latest, final, policy)
           M == Max(T)
           Q(i) == Qualifies(latest, final, policy, i)
<1>0. Step \in Nat /\ Step > 0
  BY PriceConstants
<1>1. ~(final < Twap) /\ ~(First(latest) > Last(final)) /\ T # {} /\ d.reference = f + M * Step
  BY DiscoverIs
<1>2. f \in Nat /\ m \in Nat
  BY <1>1, Bounds
<1>3. T = {i \in 0 .. m - 1 : Q(i) /\ (i > 0 => ~Q(i - 1))}
  BY DEF Starts
<1>4. \A i \in 0 .. m - 1 : Q(i) <=> Dropped(blocks, f + i * Step, policy)
  BY <1>1, QualifiesIsDropped
<1>5. /\ \A i \in 0 .. m - 1 : f + i * Step \in Candidates(latest, final)
      /\ \A c \in Candidates(latest, final) : \E i \in 0 .. m - 1 : c = f + i * Step
  BY <1>1, CandidateNumber
<1> HIDE DEF f, m, T, Q
<1>6. T \subseteq Nat /\ \A x \in T : x <= m
  BY <1>2, <1>3
<1>7. M \in T /\ \A y \in T : M >= y
  <2>1. \E x \in T : \A y \in T : x >= y
    BY <1>1, <1>2, <1>6, LargestNat
  <2> QED BY <2>1, MaxIs
<1> HIDE DEF M
<1>8. M \in 0 .. m - 1 /\ Q(M) /\ M \in Nat
  BY <1>3, <1>6, <1>7
<1>9. d.reference \in Candidates(latest, final) /\ Dropped(blocks, d.reference, policy)
  BY <1>1, <1>4, <1>5, <1>8
<1>10. ASSUME NEW c \in Candidates(latest, final), c > d.reference, Dropped(blocks, c, policy)
       PROVE  Dropped(blocks, c - Step, policy)
  <2>1. PICK i \in 0 .. m - 1 : c = f + i * Step
    BY <1>5
  <2>2. i \in Nat /\ i * Step \in Int /\ M * Step \in Int
    BY <1>0, <1>8, GridProduct
  <2>3. M * Step < i * Step
    BY <1>1, <1>2, <1>10, <2>1, <2>2
  <2>4. M < i
    BY <1>0, <1>8, <2>2, <2>3, GridOrder
  <2>5. Q(i)
    BY <1>4, <1>10, <2>1
  <2>6. i \notin T
    BY <1>7, <1>8, <2>2, <2>4
  <2>7. i > 0 /\ Q(i - 1)
    BY <1>3, <1>8, <2>1, <2>2, <2>4, <2>5, <2>6
  <2>8. i - 1 \in 0 .. m - 1
    BY <1>2, <2>1, <2>7
  <2>9. Dropped(blocks, f + (i - 1) * Step, policy)
    BY <1>4, <2>7, <2>8
  <2>10. f + (i - 1) * Step = c - Step
    <3>1. (i - 1) + 1 = i /\ i - 1 \in Int
      BY <2>2
    <3>2. ((i - 1) + 1) * Step = (i - 1) * Step + 1 * Step
      BY <1>0, <3>1, GridSum
    <3>3. (i - 1) * Step \in Int /\ 1 * Step = Step
      BY <1>0, <3>1, GridProduct
    <3> QED BY <1>0, <1>2, <2>1, <2>2, <3>1, <3>2, <3>3
  <2> QED BY <2>9, <2>10
<1> QED BY <1>9, <1>10 DEF Evidence

-----------------------------------------------------------------------------
(* The build and the chain it read *)

\* A chain has a first block, and every block has its fields.
BlockShape(s) ==
    /\ s = [ratio |-> s.ratio, policy |-> s.policy, next |-> s.next, deadline |-> s.deadline,
            unresolved |-> s.unresolved, opening |-> s.opening]
    /\ s.ratio \in Nat

ChainOk ==
    /\ Len(chain) \in Nat /\ Len(chain) > 0 /\ chain = [i \in 1 .. Len(chain) |-> chain[i]]
    /\ \A i \in 1 .. Len(chain) : BlockShape(chain[i])
    /\ finalized \in Nat /\ finalized < Len(chain)

\* The steps of build_incident_open after the head is read.
Reading == {"head", "state", "ratios", "checked"}

BuildShape(b) ==
    /\ b = [pc |-> b.pc, finalized |-> b.finalized, finalizedHash |-> b.finalizedHash,
            head |-> b.head, headHash |-> b.headHash, id |-> b.id, policy |-> b.policy,
            reference |-> b.reference]
    /\ b.pc \in Reading \cup {"idle", "finalized"} /\ b.finalized \in Nat

\* The provider still has the chain whose head was read.
Same == \A i \in 1 .. build.head + 1 : chain[i] = build.headHash[i]

\* What the build knows is so on the chain whose head it read.
BuildKnows(b) ==
    LET s == b.headHash[b.head + 1] IN
    /\ b.pc \in {"state", "ratios", "checked"} =>
          b.id = s.next /\ b.policy = s.policy /\ ~Active(s, b.head)
    /\ b.pc \in {"ratios", "checked"} =>
          Evidence(b.headHash, b.head, b.finalized, b.policy, b.reference)

BuildSound ==
    build.pc \in Reading =>
        /\ build.head \in Nat /\ build.finalized <= build.head /\ build.head < Len(chain)
        /\ Len(build.headHash) = build.head + 1
        /\ build.headHash = [i \in 1 .. build.head + 1 |-> build.headHash[i]]
        /\ Same \/ switched
        /\ Same => BuildKnows(build)

\* The inductive strengthening of AttestedDropIsReal.
BuildInv ==
    /\ ChainOk
    /\ BuildShape(build)
    /\ BuildSound
    /\ AttestedDropIsReal

LEMMA ChainIsSeq ==
    ASSUME ChainOk
    PROVE  chain \in Seq({chain[i] : i \in 1 .. Len(chain)})
<1> DEFINE S == {chain[i] : i \in 1 .. Len(chain)}
<1>1. chain = [i \in 1 .. Len(chain) |-> chain[i]] /\ Len(chain) \in Nat
  BY DEF ChainOk
<1>2. chain \in [1 .. Len(chain) -> S]
  <2>1. \A i \in 1 .. Len(chain) : chain[i] \in S
    OBVIOUS
  <2> HIDE DEF S
  <2> QED BY <1>1, <2>1
<1> HIDE DEF S
<1>3. chain \in UNION {[1 .. n -> S] : n \in Nat}
  BY <1>1, <1>2
<1>4. chain \in Seq(S)
  BY <1>3, SeqDef, Zenon
<1> QED BY <1>4 DEF S

\* A block's hash is the chain up to it.
LEMMA HashIs ==
    ASSUME ChainOk, NEW n \in Nat, n < Len(chain)
    PROVE  /\ Len(HashAt(n)) = n + 1
           /\ HashAt(n) = [i \in 1 .. n + 1 |-> HashAt(n)[i]]
           /\ \A i \in 1 .. n + 1 : HashAt(n)[i] = chain[i]
<1> DEFINE S == {chain[i] : i \in 1 .. Len(chain)}
           h == SubSeq(chain, 1, n + 1)
<1>1. \A i \in 1 .. n + 1 : chain[i] \in S
  BY DEF ChainOk
<1> HIDE DEF S
<1>2. 1 \in Int /\ n + 1 \in Int /\ 1 <= n + 1 /\ (n + 1) - 1 + 1 = n + 1
  OBVIOUS
<1>3. /\ h \in Seq(S)
      /\ Len(h) = IF 1 <= n + 1 THEN (n + 1) - 1 + 1 ELSE 0
      /\ \A i \in 1 .. (n + 1) - 1 + 1 : h[i] = chain[1 + i - 1]
  <2> HIDE DEF h
  <2>1. ASSUME NEW c, NEW a \in Int, NEW b \in Int, \A i \in a .. b : c[i] \in S
        PROVE  /\ SubSeq(c, a, b) \in Seq(S)
               /\ Len(SubSeq(c, a, b)) = IF a <= b THEN b - a + 1 ELSE 0
               /\ \A i \in 1 .. b - a + 1 : SubSeq(c, a, b)[i] = c[a + i - 1]
    BY <2>1, SubSeqProperties
  <2> QED BY <1>1, <1>2, <2>1, Zenon DEF h
<1> HIDE DEF h
<1>4. Len(h) = n + 1
  BY <1>2, <1>3
<1>5. ASSUME NEW i \in 1 .. n + 1 PROVE h[i] = chain[i]
  <2>1. 1 + i - 1 = i /\ i \in 1 .. (n + 1) - 1 + 1
    OBVIOUS
  <2> QED BY <1>3, <2>1
<1>6. h = [i \in 1 .. n + 1 |-> h[i]]
  <2>1. h = [i \in 1 .. Len(h) |-> h[i]]
    BY <1>3
  <2> QED BY <1>4, <2>1
<1> QED BY <1>4, <1>5, <1>6 DEF h, HashAt

\* The fields of a block.
LEMMA BlockFields ==
    ASSUME NEW s, BlockShape(s)
    PROVE  /\ \A x : BlockShape([s EXCEPT !.opening = x])
           /\ \A x : BlockShape([s EXCEPT !.policy = x])
           /\ \A x : BlockShape([s EXCEPT !.unresolved = x])
           /\ \A x \in Nat : BlockShape([s EXCEPT !.ratio = x])
           /\ \A a, n : BlockShape(Opened(s, a, n))
<1>1. ASSUME NEW t, BlockShape(t), NEW x
      PROVE  /\ BlockShape([t EXCEPT !.opening = x]) /\ BlockShape([t EXCEPT !.policy = x])
             /\ BlockShape([t EXCEPT !.unresolved = x]) /\ BlockShape([t EXCEPT !.next = x])
             /\ BlockShape([t EXCEPT !.deadline = x])
  <2>1. BlockShape([t EXCEPT !.opening = x])
    BY <1>1 DEF BlockShape
  <2>2. BlockShape([t EXCEPT !.policy = x])
    BY <1>1 DEF BlockShape
  <2>3. BlockShape([t EXCEPT !.unresolved = x])
    BY <1>1 DEF BlockShape
  <2>4. BlockShape([t EXCEPT !.next = x])
    BY <1>1 DEF BlockShape
  <2>5. BlockShape([t EXCEPT !.deadline = x])
    BY <1>1 DEF BlockShape
  <2> QED BY <2>1, <2>2, <2>3, <2>4, <2>5
<1>2. ASSUME NEW x \in Nat PROVE BlockShape([s EXCEPT !.ratio = x])
  BY DEF BlockShape
<1>3. ASSUME NEW a, NEW n PROVE BlockShape(Opened(s, a, n))
  <2> DEFINE s1 == [s EXCEPT !.next = s.next + 1]
             s2 == [s1 EXCEPT !.deadline = n + PhaseWindow]
             s3 == [s2 EXCEPT !.unresolved = TRUE]
             s4 == [s3 EXCEPT !.opening = a]
  <2>1. Opened(s, a, n) = s4
    BY DEF Opened
  <2>2. BlockShape(s1)
    BY <1>1
  <2> HIDE DEF s1
  <2>3. BlockShape(s2)
    BY <1>1, <2>2
  <2> HIDE DEF s2
  <2>4. BlockShape(s3)
    BY <1>1, <2>3, Zenon
  <2> HIDE DEF s3
  <2>5. BlockShape(s4)
    BY <1>1, <2>4
  <2> QED BY <2>1, <2>5
<1> QED BY <1>1, <1>2, <1>3

\* Mine appends a block.
LEMMA MineBlocks ==
    ASSUME ChainOk, Mine
    PROVE  /\ ChainOk' /\ Len(chain') = Len(chain) + 1
           /\ \A i \in 1 .. Len(chain) : chain'[i] = chain[i]
<1> DEFINE n == Latest + 1
           s0 == [At(Latest) EXCEPT !.opening = None]
<1>1. PICK s \in Successors(s0, n), r \in (IF n % Step = 0 THEN Ratios ELSE {At(Latest).ratio}) :
        chain' = Append(chain, [s EXCEPT !.ratio = r])
  BY Zenon DEF Mine
<1>2. finalized' = finalized
  BY DEF Mine
<1>3. At(Latest) = chain[Len(chain)] /\ Len(chain) \in 1 .. Len(chain)
  BY DEF At, Latest, ChainOk
<1>4. BlockShape(At(Latest))
  BY <1>3 DEF ChainOk
<1>5. BlockShape(s0)
  BY <1>4, BlockFields
<1> HIDE DEF s0, n
<1>6. BlockShape(s)
  <2>1. \/ s = s0 \/ (\E p : s = [s0 EXCEPT !.policy = p])
        \/ (\E a : s = Opened(s0, a, n)) \/ s = [s0 EXCEPT !.unresolved = FALSE]
    BY <1>1 DEF Successors
  <2> QED BY <1>5, <2>1, BlockFields
<1>7. r \in Nat
  BY <1>1, <1>4, OpenAssumption DEF BlockShape
<1> DEFINE b == [s EXCEPT !.ratio = r]
           S == {chain[i] : i \in 1 .. Len(chain)} \cup {b}
<1>8. BlockShape(b)
  BY <1>6, <1>7, BlockFields
<1>9. chain \in Seq(S) /\ b \in S
  <2>1. {chain[i] : i \in 1 .. Len(chain)} \subseteq S /\ b \in S
    OBVIOUS
  <2> HIDE DEF S
  <2> QED BY <2>1, ChainIsSeq, SeqMonotonic
<1> HIDE DEF b
<1>10. chain' = Append(chain, b)
  BY <1>1 DEF b
<1> HIDE DEF S
<1>11. /\ chain' \in Seq(S) /\ Len(chain') = Len(chain) + 1
       /\ \A i \in 1 .. Len(chain) : chain'[i] = chain[i]
       /\ chain'[Len(chain) + 1] = b
  BY <1>9, <1>10, AppendProperties
<1>12. chain' = [i \in 1 .. Len(chain') |-> chain'[i]]
  BY <1>11
<1>13. Len(chain) \in Nat /\ Len(chain) > 0 /\ finalized \in Nat /\ finalized < Len(chain)
       /\ \A i \in 1 .. Len(chain) : BlockShape(chain[i])
  BY DEF ChainOk
<1>14. ASSUME NEW i \in 1 .. Len(chain') PROVE BlockShape(chain'[i])
  <2>1. i \in 1 .. Len(chain) \/ i = Len(chain) + 1
    BY <1>11, <1>13
  <2> QED BY <1>8, <1>11, <1>13, <2>1
<1>15. ChainOk'
  BY <1>2, <1>11, <1>12, <1>13, <1>14 DEF ChainOk
<1> QED BY <1>11, <1>15

\* Switch replaces blocks.
LEMMA SwitchBlocks ==
    ASSUME ChainOk, Switch
    PROVE  ChainOk' /\ Len(chain') = Len(chain)
<1> DEFINE c(b, i) == IF i <= b + 1 THEN chain[i] ELSE [At(b) EXCEPT !.opening = None]
<1>1. PICK b \in ForkBlocks : b < Latest /\ chain' = [i \in DOMAIN chain |-> c(b, i)]
  BY DEF Switch
<1>2. finalized' = finalized
  BY DEF Switch
<1>3. /\ Len(chain) \in Nat /\ Len(chain) > 0 /\ chain = [i \in 1 .. Len(chain) |-> chain[i]]
      /\ finalized \in Nat /\ finalized < Len(chain)
      /\ \A i \in 1 .. Len(chain) : BlockShape(chain[i])
  BY DEF ChainOk
<1>4. b \in Nat /\ b + 1 \in 1 .. Len(chain)
  BY <1>1, <1>3, OpenAssumption DEF Latest
<1>5. ASSUME NEW i \in 1 .. Len(chain) PROVE BlockShape(c(b, i))
  <2>1. BlockShape(chain[i]) /\ BlockShape(At(b))
    BY <1>3, <1>4 DEF At
  <2> QED BY <2>1, BlockFields
<1>6. DOMAIN chain = 1 .. Len(chain)
  BY <1>3
<1> DEFINE S == {c(b, i) : i \in 1 .. Len(chain)}
<1>7. \A i \in 1 .. Len(chain) : c(b, i) \in S
  OBVIOUS
<1> HIDE DEF c, S
<1>8. chain' = [i \in 1 .. Len(chain) |-> c(b, i)]
  BY <1>1, <1>6
<1>9. chain' \in Seq(S) /\ Len(chain') = Len(chain)
  <2>1. chain' \in [1 .. Len(chain) -> S]
    BY <1>7, <1>8
  <2>2. chain' \in UNION {[1 .. n -> S] : n \in Nat}
    BY <1>3, <2>1
  <2>3. chain' \in Seq(S)
    BY <2>2, SeqDef, Zenon
  <2>4. DOMAIN chain' = 1 .. Len(chain)
    BY <1>8
  <2> QED BY <1>3, <2>3, <2>4, LenProperties
<1>10. chain' = [i \in 1 .. Len(chain') |-> chain'[i]]
  BY <1>9
<1>11. \A i \in 1 .. Len(chain') : BlockShape(chain'[i])
  BY <1>5, <1>8, <1>9
<1> QED BY <1>2, <1>3, <1>9, <1>10, <1>11 DEF ChainOk

\* What leaves the build alone keeps what it knows: the chain grows, or the
\* provider changes to another one, for the first and only time.
LEMMA BuildStays ==
    ASSUME BuildInv, build' = build, signed' = signed, ChainOk', Len(chain) <= Len(chain'),
           \/ (\A i \in 1 .. Len(chain) : chain'[i] = chain[i]) /\ switched' = switched
           \/ ~switched /\ switched'
    PROVE  BuildInv'
<1>1. BuildShape(build)' /\ AttestedDropIsReal'
  BY DEF BuildInv, BuildShape, AttestedDropIsReal, Dropped, Active
<1>2. BuildSound'
  <2> SUFFICES ASSUME build.pc \in Reading
               PROVE  /\ build.head < Len(chain')
                      /\ Same' \/ switched'
                      /\ Same' => BuildKnows(build)
    BY DEF BuildInv, BuildSound
  <2>1. /\ build.head \in Nat /\ build.head < Len(chain)
        /\ Same \/ switched
        /\ Same => BuildKnows(build)
    BY DEF BuildInv, BuildSound
  <2>2. Len(chain) \in Nat /\ Len(chain') \in Nat
    BY DEF BuildInv, ChainOk
  <2>3. build.head < Len(chain')
    BY <2>1, <2>2
  <2>4. CASE (\A i \in 1 .. Len(chain) : chain'[i] = chain[i]) /\ switched' = switched
    <3>1. \A i \in 1 .. build.head + 1 : chain'[i] = chain[i]
      BY <2>1, <2>2, <2>4
    <3>2. Same' <=> Same
      BY <3>1 DEF Same
    <3> QED BY <2>1, <2>3, <2>4, <3>2
  <2>5. CASE ~switched /\ switched'
    BY <2>1, <2>3, <2>5
  <2> QED BY <2>4, <2>5
<1> QED BY <1>1, <1>2 DEF BuildInv

\* Steps of the chain.
LEMMA ChainKeepsBuild ==
    ASSUME BuildInv, Mine \/ Finalize \/ Switch
    PROVE  BuildInv'
<1>0. ChainOk /\ Len(chain) \in Nat
  BY DEF BuildInv, ChainOk
<1>1. CASE Mine
  <2>1. ChainOk' /\ Len(chain') = Len(chain) + 1 /\ \A i \in 1 .. Len(chain) : chain'[i] = chain[i]
    BY <1>0, <1>1, MineBlocks
  <2>2. build' = build /\ signed' = signed /\ switched' = switched
    BY <1>1 DEF Mine
  <2>3. Len(chain) <= Len(chain')
    BY <1>0, <2>1
  <2> QED BY <2>1, <2>2, <2>3, BuildStays
<1>2. CASE Finalize
  <2>1. build' = build /\ signed' = signed /\ switched' = switched /\ chain' = chain
        /\ finalized' = Latest
    BY <1>2 DEF Finalize
  <2>2. ChainOk'
    BY <1>0, <2>1 DEF ChainOk, Latest
  <2> QED BY <1>0, <2>1, <2>2, BuildStays
<1>3. CASE Switch
  <2>1. ChainOk' /\ Len(chain') = Len(chain)
    BY <1>0, <1>3, SwitchBlocks
  <2>2. build' = build /\ signed' = signed /\ ~switched /\ switched'
    BY <1>3 DEF Switch
  <2> QED BY <1>0, <2>1, <2>2, BuildStays
<1> QED BY <1>1, <1>2, <1>3

\* Steps of the cache.
LEMMA CacheKeepsBuild ==
    ASSUME BuildInv, UNCHANGED notCache
    PROVE  BuildInv'
<1>1. /\ chain' = chain /\ finalized' = finalized /\ switched' = switched
      /\ build' = build /\ signed' = signed
  BY DEF notCache, chainVars
<1>2. ChainOk' /\ Len(chain) <= Len(chain')
  BY <1>1 DEF BuildInv, ChainOk
<1> QED BY <1>1, <1>2, BuildStays

\* A step of the build that signs nothing.
LEMMA BuildProceeds ==
    ASSUME BuildInv, UNCHANGED notBuild, UNCHANGED signed,
           BuildShape(build'), BuildSound'
    PROVE  BuildInv'
<1>1. chain' = chain /\ finalized' = finalized
  BY DEF notBuild, chainVars
<1>2. ChainOk' /\ AttestedDropIsReal'
  BY <1>1 DEF BuildInv, ChainOk, AttestedDropIsReal, Dropped, Active
<1> QED BY <1>2 DEF BuildInv

LEMMA IdleShape == BuildShape(Idle) /\ Idle.pc = "idle" /\ "idle" \notin Reading
BY DEF BuildShape, Idle, Reading

LEMMA BuildFails ==
    ASSUME BuildInv, UNCHANGED notBuild, Fails
    PROVE  BuildInv'
<1>1. build' = Idle /\ signed' = signed
  BY DEF Fails
<1>2. BuildShape(build') /\ BuildSound'
  BY <1>1, IdleShape DEF BuildSound
<1> QED BY <1>1, <1>2, BuildProceeds

\* The chain of the head is the provider's chain while nothing else moves.
LEMMA SameStays ==
    ASSUME UNCHANGED notBuild, build'.head = build.head, build'.headHash = build.headHash
    PROVE  (Same' <=> Same) /\ switched' = switched /\ chain' = chain
BY DEF Same, notBuild, chainVars

LEMMA ReadFinalizedKeeps ==
    ASSUME BuildInv, ReadFinalized
    PROVE  BuildInv'
<1>1. /\ build' = [Idle EXCEPT !.pc = "finalized", !.finalized = finalized,
                               !.finalizedHash = HashAt(finalized)]
      /\ signed' = signed /\ UNCHANGED notBuild
  BY DEF ReadFinalized, Proceeds
<1>2. finalized \in Nat
  BY DEF BuildInv, ChainOk
<1>3. BuildShape(build') /\ build'.pc = "finalized"
  BY <1>1, <1>2 DEF BuildShape, Idle
<1>4. BuildSound'
  BY <1>3 DEF BuildSound, Reading
<1> QED BY <1>1, <1>3, <1>4, BuildProceeds

LEMMA ReadHeadKeeps ==
    ASSUME BuildInv, ReadHead
    PROVE  BuildInv'
<1>1. /\ build' = [build EXCEPT !.pc = "head", !.head = Latest, !.headHash = HashAt(Latest)]
      /\ signed' = signed /\ UNCHANGED notBuild /\ build.finalized <= Latest
  BY DEF ReadHead, Proceeds
<1>2. ChainOk /\ BuildShape(build)
  BY DEF BuildInv
<1>3. Latest \in Nat /\ Latest < Len(chain)
  BY <1>2 DEF ChainOk, Latest
<1>4. /\ BuildShape(build') /\ build'.pc = "head" /\ build'.head = Latest
      /\ build'.headHash = HashAt(Latest) /\ build'.finalized = build.finalized
  BY <1>1, <1>2 DEF BuildShape, Reading
<1>5. /\ Len(HashAt(Latest)) = Latest + 1
      /\ HashAt(Latest) = [i \in 1 .. Latest + 1 |-> HashAt(Latest)[i]]
      /\ \A i \in 1 .. Latest + 1 : HashAt(Latest)[i] = chain[i]
  BY <1>2, <1>3, HashIs
<1>6. chain' = chain
  BY <1>1 DEF notBuild, chainVars
<1> HIDE DEF Latest, HashAt
<1>7. Same'
  BY <1>4, <1>5, <1>6 DEF Same
<1>8. BuildKnows(build')
  BY <1>4 DEF BuildKnows
<1>9. BuildSound'
  BY <1>1, <1>3, <1>4, <1>5, <1>6, <1>7, <1>8 DEF BuildSound
<1> QED BY <1>1, <1>4, <1>9, BuildProceeds

\* The build at the start of its steps, and the blocks it compares.
LEMMA BuildFacts ==
    ASSUME BuildInv, build.pc \in Reading
    PROVE  /\ ChainOk /\ BuildShape(build) /\ build.finalized \in Nat
           /\ build.head \in Nat /\ build.finalized <= build.head /\ build.head < Len(chain)
           /\ Len(build.headHash) = build.head + 1
           /\ build.headHash = [i \in 1 .. build.head + 1 |-> build.headHash[i]]
           /\ Same \/ switched
           /\ Same => BuildKnows(build)
BY DEF BuildInv, BuildSound, BuildShape

\* A step from one reading to the next, with what it has learned.
LEMMA BuildReads ==
    ASSUME BuildInv, build.pc \in Reading, UNCHANGED notBuild, UNCHANGED signed,
           BuildShape(build'), build'.pc \in Reading, build'.finalized = build.finalized,
           build'.head = build.head, build'.headHash = build.headHash,
           Same => BuildKnows(build')
    PROVE  BuildInv'
<1>1. (Same' <=> Same) /\ switched' = switched /\ chain' = chain
  BY SameStays
<1>2. /\ build.head \in Nat /\ build.finalized <= build.head /\ build.head < Len(chain)
      /\ Len(build.headHash) = build.head + 1
      /\ build.headHash = [i \in 1 .. build.head + 1 |-> build.headHash[i]]
      /\ Same \/ switched
  BY BuildFacts
<1>3. BuildSound'
  BY <1>1, <1>2 DEF BuildSound
<1> QED BY <1>3, BuildProceeds

LEMMA ReadStateKeeps ==
    ASSUME BuildInv, ReadState
    PROVE  BuildInv'
<1> DEFINE s == At(build.head)
<1>1. build.pc = "head" /\ UNCHANGED notBuild
  BY DEF ReadState
<1>2. build.pc \in Reading
  BY <1>1 DEF Reading
<1>3. CASE Active(s, build.head)
  <2>1. Fails
    BY <1>3 DEF ReadState
  <2> QED BY <1>1, <2>1, BuildFails
<1>4. CASE ~Active(s, build.head)
  <2>1. build' = [build EXCEPT !.pc = "state", !.id = s.next, !.policy = s.policy]
        /\ signed' = signed
    BY <1>4 DEF ReadState, Proceeds
  <2> HIDE DEF s
  <2>2. /\ BuildShape(build') /\ build'.pc = "state" /\ build'.id = s.next
        /\ build'.policy = s.policy /\ build'.finalized = build.finalized
        /\ build'.head = build.head /\ build'.headHash = build.headHash
    BY <1>2, <2>1, BuildFacts DEF BuildShape, Reading
  <2>3. ASSUME Same PROVE BuildKnows(build')
    <3>1. build.headHash[build.head + 1] = s
      BY <1>2, <2>3, BuildFacts DEF Same, At, s
    <3> QED BY <1>4, <2>2, <3>1 DEF BuildKnows
  <2> QED BY <1>1, <1>2, <2>1, <2>2, <2>3, BuildReads DEF Reading
<1> QED BY <1>3, <1>4

LEMMA ReadRatiosKeeps ==
    ASSUME BuildInv, ReadRatios
    PROVE  BuildInv'
<1> DEFINE d == discover(build.head, build.finalized, build.policy)
<1>1. build.pc = "state" /\ UNCHANGED notBuild
  BY DEF ReadRatios
<1>2. build.pc \in Reading
  BY <1>1 DEF Reading
<1>3. CASE d.outcome # "qualifying"
  <2>1. Fails
    BY <1>3 DEF ReadRatios
  <2> QED BY <1>1, <2>1, BuildFails
<1>4. CASE d.outcome = "qualifying"
  <2>1. build' = [build EXCEPT !.pc = "ratios", !.reference = d.reference] /\ signed' = signed
    BY <1>4 DEF ReadRatios, Proceeds
  <2>2. ASSUME Same
        PROVE  Evidence(build.headHash, build.head, build.finalized, build.policy, d.reference)
    <3>1. \A b \in 0 .. build.finalized :
            chain[b + 1].ratio \in Int /\ build.headHash[b + 1].ratio = chain[b + 1].ratio
      <4> SUFFICES ASSUME NEW b \in 0 .. build.finalized
                   PROVE  chain[b + 1].ratio \in Int /\ build.headHash[b + 1] = chain[b + 1]
        OBVIOUS
      <4>1. b + 1 \in 1 .. build.head + 1 /\ b + 1 \in 1 .. Len(chain)
        BY <1>2, BuildFacts DEF ChainOk
      <4>2. build.headHash[b + 1] = chain[b + 1]
        BY <2>2, <4>1 DEF Same
      <4>3. BlockShape(chain[b + 1])
        BY <1>2, <4>1, BuildFacts DEF ChainOk
      <4>4. chain[b + 1].ratio \in Int
        BY <4>3 DEF BlockShape
      <4> QED BY <4>2, <4>4
    <3>2. build.head \in Nat /\ build.finalized \in Nat
      BY <1>2, BuildFacts
    <3> QED BY <1>4, <3>1, <3>2, DiscoverSound
  <2> HIDE DEF d
  <2>3. /\ BuildShape(build') /\ build'.pc = "ratios" /\ build'.reference = d.reference
        /\ build'.finalized = build.finalized /\ build'.id = build.id
        /\ build'.policy = build.policy
        /\ build'.head = build.head /\ build'.headHash = build.headHash
    BY <1>2, <2>1, BuildFacts DEF BuildShape, Reading
  <2>4. ASSUME Same PROVE BuildKnows(build')
    <3>1. BuildKnows(build)
      BY <1>2, <2>4, BuildFacts
    <3> QED BY <1>1, <2>2, <2>3, <2>4, <3>1 DEF BuildKnows
  <2> QED BY <1>1, <1>2, <2>1, <2>3, <2>4, BuildReads DEF Reading
<1> QED BY <1>3, <1>4

LEMMA CheckFinalizedKeeps ==
    ASSUME BuildInv, CheckFinalized
    PROVE  BuildInv'
<1>1. build.pc = "ratios" /\ UNCHANGED notBuild
  BY DEF CheckFinalized
<1>2. build.pc \in Reading
  BY <1>1 DEF Reading
<1>3. CASE Fails
  BY <1>1, <1>3, BuildFails
<1>4. CASE build' = [build EXCEPT !.pc = "checked"] /\ signed' = signed
  <2>1. /\ BuildShape(build') /\ build'.pc = "checked" /\ build'.reference = build.reference
        /\ build'.finalized = build.finalized /\ build'.id = build.id
        /\ build'.policy = build.policy
        /\ build'.head = build.head /\ build'.headHash = build.headHash
    BY <1>2, <1>4, BuildFacts DEF BuildShape, Reading
  <2>2. ASSUME Same PROVE BuildKnows(build')
    <3>1. BuildKnows(build)
      BY <1>2, <2>2, BuildFacts
    <3> QED BY <1>1, <2>1, <3>1 DEF BuildKnows
  <2> QED BY <1>1, <1>2, <1>4, <2>1, <2>2, BuildReads DEF Reading
<1> QED BY <1>3, <1>4 DEF CheckFinalized, Proceeds

\* The last check is what makes the two readings of one chain.
LEMMA CheckHeadKeeps ==
    ASSUME BuildInv, CheckHead
    PROVE  BuildInv'
<1> DEFINE a == [id |-> build.id, policy |-> build.policy, reference |-> build.reference,
                 finalized |-> build.finalized, chain |-> build.headHash]
<1>1. build.pc = "checked" /\ UNCHANGED notBuild /\ build' = Idle
      /\ signed' = IF HashAt(build.head) # build.headHash THEN signed ELSE signed \cup {a}
  BY DEF CheckHead
<1>2. build.pc \in Reading
  BY <1>1 DEF Reading
<1>3. CASE signed' = signed
  BY <1>1, <1>3, BuildFails DEF Fails
<1>4. CASE HashAt(build.head) = build.headHash /\ signed' = signed \cup {a}
  <2>1. Same
    BY <1>2, <1>4, BuildFacts, HashIs DEF Same
  <2>2. BuildKnows(build)
    BY <1>2, <2>1, BuildFacts
  <2>3. /\ a.chain = build.headHash /\ a.id = build.id /\ a.policy = build.policy
        /\ a.reference = build.reference /\ a.finalized = build.finalized
    OBVIOUS
  <2>4. Len(a.chain) - 1 = build.head
    BY <1>2, <2>3, BuildFacts
  <2>5. chain' = chain /\ finalized' = finalized
    BY <1>1 DEF notBuild, chainVars
  <2> HIDE DEF a
  <2> DEFINE Real(x) ==
               LET head == Len(x.chain) - 1
                   s    == x.chain[head + 1]
               IN  /\ Evidence(x.chain, head, x.finalized, s.policy, x.reference)
                   /\ x.id = s.next /\ x.policy = s.policy /\ ~Active(s, head)
  <2>6. AttestedDropIsReal <=> \A x \in signed : Real(x)
    BY DEF AttestedDropIsReal, Evidence, Candidates
  <2>7. AttestedDropIsReal' <=> \A x \in signed' : Real(x)
    BY DEF AttestedDropIsReal, Evidence, Candidates, Dropped, Active
  <2>8. Real(a)
    <3> DEFINE s == build.headHash[build.head + 1]
    <3>1. /\ build.id = s.next /\ build.policy = s.policy /\ ~Active(s, build.head)
          /\ Evidence(build.headHash, build.head, build.finalized, build.policy, build.reference)
      BY <1>1, <2>2 DEF BuildKnows
    <3> HIDE DEF s
    <3>2. a.chain[(Len(a.chain) - 1) + 1] = s
      BY <2>3, <2>4 DEF s
    <3> QED BY <2>3, <2>4, <3>1, <3>2, Zenon
  <2> HIDE DEF Real
  <2>9. AttestedDropIsReal'
    BY <1>4, <2>6, <2>7, <2>8 DEF BuildInv
  <2>10. ChainOk'
    BY <2>5 DEF BuildInv, ChainOk
  <2>11. BuildShape(build)' /\ BuildSound'
    BY <1>1, IdleShape DEF BuildSound
  <2> QED BY <2>9, <2>10, <2>11 DEF BuildInv
<1> QED BY <1>1, <1>3, <1>4

LEMMA BuildInit == Init => BuildInv
<1> SUFFICES ASSUME Init PROVE BuildInv
  OBVIOUS
<1> DEFINE g(h, i) == Genesis(h[(i - 1) \div Step + 1])
           N(h) == (Len(h) - 1) * Step + 1
<1>1. PICK h \in Histories : chain = [i \in 1 .. N(h) |-> g(h, i)]
  BY DEF Init
<1>2. finalized = Latest /\ build = Idle /\ signed = {}
  BY DEF Init
<1>3. h \in Seq(Nat) /\ h # <<>> /\ Step \in Nat /\ Step > 0
  BY OpenAssumption
<1>4. Len(h) \in Nat /\ Len(h) >= 1
  BY <1>3
<1>5. N(h) \in Nat /\ N(h) > 0
  <2>1. 0 * Step <= (Len(h) - 1) * Step /\ (Len(h) - 1) * Step \in Int
    BY <1>3, <1>4, GridOrder, GridProduct
  <2> QED BY <1>3, <2>1
<1>6. ASSUME NEW i \in 1 .. N(h) PROVE BlockShape(g(h, i))
  <2> DEFINE k == (i - 1) \div Step
  <2>1. k \in Int /\ i - 1 = k * Step + ((i - 1) % Step) /\ (i - 1) % Step \in Int
        /\ 0 <= (i - 1) % Step /\ (i - 1) % Step < Step
    BY <1>3, Division
  <2>2. 1 <= i /\ i - 1 <= (Len(h) - 1) * Step /\ i \in Int /\ (Len(h) - 1) * Step \in Int
    BY <1>3, <1>4, <1>5, GridProduct
  <2> HIDE DEF k
  <2>3. k * Step \in Int
    BY <1>3, <2>1, GridProduct
  <2>4. k >= 0
    <3> SUFFICES ASSUME k < 0 PROVE FALSE
      BY <2>1
    <3>1. k * Step + Step <= 0 * Step
      BY <1>3, <2>1, GridOrder
    <3> QED BY <1>3, <2>1, <2>2, <2>3, <3>1
  <2>5. k <= Len(h) - 1
    <3>1. k * Step <= (Len(h) - 1) * Step
      BY <2>1, <2>2, <2>3
    <3>2. Len(h) - 1 \in Int
      BY <1>4
    <3> QED BY <1>3, <2>1, <3>1, <3>2, GridOrder
  <2>6. h[k + 1] \in Nat
    BY <1>3, <1>4, <2>1, <2>4, <2>5
  <2> QED BY <2>6 DEF k, Genesis, BlockShape
<1> DEFINE S == {g(h, i) : i \in 1 .. N(h)}
<1>7. \A i \in 1 .. N(h) : g(h, i) \in S
  OBVIOUS
<1> HIDE DEF g, N, S
<1>8. chain \in Seq(S) /\ Len(chain) = N(h)
  <2>1. chain \in [1 .. N(h) -> S]
    BY <1>1, <1>7
  <2>2. chain \in UNION {[1 .. n -> S] : n \in Nat}
    BY <1>5, <2>1
  <2>3. chain \in Seq(S)
    BY <2>2, SeqDef, Zenon
  <2>4. DOMAIN chain = 1 .. N(h)
    BY <1>1
  <2> QED BY <1>5, <2>3, <2>4, LenProperties
<1>9. chain = [i \in 1 .. Len(chain) |-> chain[i]]
  BY <1>8
<1>10. \A i \in 1 .. Len(chain) : BlockShape(chain[i])
  BY <1>1, <1>6, <1>8
<1>11. ChainOk
  BY <1>2, <1>5, <1>8, <1>9, <1>10 DEF ChainOk, Latest
<1>12. BuildShape(build) /\ BuildSound
  BY <1>2, IdleShape DEF BuildSound
<1>13. AttestedDropIsReal
  BY <1>2 DEF AttestedDropIsReal
<1> QED BY <1>11, <1>12, <1>13 DEF BuildInv

LEMMA BuildNext == BuildInv /\ [Next]_vars => BuildInv'
<1> SUFFICES ASSUME BuildInv, [Next]_vars PROVE BuildInv'
  OBVIOUS
<1>1. CASE UNCHANGED vars
  BY <1>1, CacheKeepsBuild DEF vars, notCache, chainVars
<1>2. CASE Mine \/ Finalize \/ Switch
  BY <1>2, ChainKeepsBuild
<1>3. CASE ReadFinalized \/ ReadHead \/ ReadState \/ ReadRatios \/ CheckFinalized \/ CheckHead
  BY <1>3, ReadFinalizedKeeps, ReadHeadKeeps, ReadStateKeeps, ReadRatiosKeeps, CheckFinalizedKeeps,
     CheckHeadKeeps
<1>4. CASE Tick
  BY <1>4, CacheKeepsBuild DEF Tick
<1>5. ASSUME NEW p \in Invocations,
             \/ BeginCheck(p) \/ GetRecord(p) \/ Bind(p) \/ Reserve(p) \/ Verify(p)
             \/ Scan(p) \/ Rebind(p) \/ Publish(p) \/ TimeOut(p) \/ Submit(p)
      PROVE  BuildInv'
  <2>1. UNCHANGED notCache
    BY <1>5 DEF BeginCheck, GetRecord, Bind, Reserve, Verify, Scan, Rebind, Publish, TimeOut, Submit
  <2> QED BY <2>1, CacheKeepsBuild
<1> QED BY <1>1, <1>2, <1>3, <1>4, <1>5 DEF Next

\* The build, the chain it read and the authorizations always fit together.
THEOREM BuildInvHolds == Spec => []BuildInv
BY BuildInit, BuildNext, PTL DEF Spec

\* Every authorization that build_incident_open signs rests on one chain, even
\* if the provider changed to another one between any two of its reads: the
\* ratio dropped over the reference block of that chain, at the beginning of
\* the last drop that finalized blocks show and not too long ago, and the
\* contract was in the state the authorization names.
THEOREM DropsAreReal == Spec => []AttestedDropIsReal
<1>1. BuildInv => AttestedDropIsReal
  BY DEF BuildInv
<1> QED BY <1>1, BuildInvHolds, PTL

=============================================================================
