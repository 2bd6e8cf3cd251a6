--------------------------- MODULE ScoreApiProofs ---------------------------
(***************************************************************************)
(* What the table of the score API guarantees to concurrent invocations,   *)
(* for every number of accounts and invocations, every day length and      *)
(* every difference between clocks that the cooldown allows for: one       *)
(* replay at a time, answers that were saved, and rows that move forward.  *)
(* Then what is in the rows: the lemmas of ScoreCoreProofs about one       *)
(* account's replay, carried through checkpoints, changes of the chain and *)
(* days, show that every score that was ever saved is exact.               *)
(***************************************************************************)
EXTENDS ScoreApi, ScoreCoreProofs, TLAPS

\* Invocations that hold or held the lease, and those that know their block.
Working  == {"leased", "admitted", "anchored", "matured", "visible", "computed"}
Anchored == {"anchored", "matured", "visible", "computed", "saving"}
Places   == {"idle", "loaded", "saving"} \cup Working

\* The fields of a row and of an invocation, whatever their values.
RowShape(r) ==
    r = [version |-> r.version, payload |-> r.payload, generation |-> r.generation,
         lease |-> r.lease, retry |-> r.retry, admitted |-> r.admitted,
         refreshed |-> r.refreshed]

CallShape(c) ==
    c = [account |-> c.account, refresh |-> c.refresh, started |-> c.started, time |-> c.time,
         epoch |-> c.epoch, version |-> c.version, payload |-> c.payload,
         generation |-> c.generation, reference |-> c.reference, hash |-> c.hash,
         cold |-> c.cold, matured |-> c.matured, visible |-> c.visible]

ApiType ==
    /\ now \in Nat /\ finalized \in Nat
    /\ row = [u \in Accounts |-> row[u]] /\ \A u \in Accounts : RowShape(row[u])
    /\ pc \in [Lambdas -> Places]
    /\ call = [p \in Lambdas |-> call[p]] /\ \A p \in Lambdas : CallShape(call[p])

\* The beginning of a day.
Midnight(e) == \E k \in Int : e = k * Day

\* A day that has begun on the finalized chain, and a finalized block of it or
\* of an earlier day.
Dates(epoch, block) ==
    /\ epoch \in Int /\ block \in Int /\ Midnight(epoch)
    /\ epoch <= finalized /\ block <= finalized /\ block < epoch + Day

\* A payload of u that the table held.
Known(u, d) == d # Nothing => <<u, d>> \in saved /\ Dates(d.epoch, d.cursor)

NotOlder(epoch, block, d) == d # Nothing => d.epoch <= epoch /\ d.cursor <= block

RowSound(u) ==
    /\ row[u].version \in Nat /\ row[u].generation \in Nat /\ row[u].retry \in Int
    /\ Known(u, row[u].payload)

\* What was read is what the row still holds, unless its version has moved on.
Loaded(p) ==
    /\ call[p].account \in Accounts
    /\ call[p].started \in Nat /\ call[p].started <= now
    /\ call[p].time = call[p].started - Lag[p]
    /\ Known(call[p].account, call[p].payload)
    /\ call[p].version \in Nat /\ call[p].version <= row[call[p].account].version
    /\ call[p].version = row[call[p].account].version =>
          call[p].payload = row[call[p].account].payload

\* Only a refresh computes a day again, and it is never an earlier one.
Forward(p) ==
    /\ pc[p] \in {"loaded", "leased", "admitted"} =>
          (call[p].payload # Nothing /\ call[p].payload.epoch = call[p].epoch => call[p].refresh)
    /\ pc[p] \in Anchored =>
          /\ Dates(call[p].epoch, call[p].reference)
          /\ NotOlder(call[p].epoch, call[p].reference, call[p].payload)

\* The row shows the lease of the last invocation; earlier ones are timed out.
Leased(p) ==
    pc[p] \in Working =>
    /\ call[p].generation \in Nat /\ call[p].generation <= row[call[p].account].generation
    /\ call[p].generation < row[call[p].account].generation => ~Live(p)
    /\ call[p].generation = row[call[p].account].generation =>
          row[call[p].account].retry = call[p].time + LeaseTime + Cooldown

CallSound(p) == pc[p] # "idle" => Loaded(p) /\ Forward(p) /\ Leased(p)

\* A save on its way is of an invocation that is done, and of a later day or
\* block than the row it may still replace.
WriteSound(w) ==
    /\ w.account \in Accounts /\ w.payload # Nothing
    /\ Dates(w.payload.epoch, w.payload.cursor)
    /\ w.version \in Nat /\ w.version <= row[w.account].version
    /\ w.generation \in Nat /\ w.generation <= row[w.account].generation
    /\ w.version = row[w.account].version =>
          NotOlder(w.payload.epoch, w.payload.cursor, row[w.account].payload)
    /\ \A p \in Lambdas : pc[p] \in Working /\ call[p].account = w.account =>
          call[p].generation # w.generation

Generations ==
    \A p, q \in Lambdas :
        p # q /\ pc[p] \in Working /\ pc[q] \in Working /\ call[p].account = call[q].account =>
            call[p].generation # call[q].generation

\* The inductive strengthening of ServedWasSaved, OneReplayAtATime and
\* RowNeverRegresses.
ApiInv ==
    /\ ApiType
    /\ \A u \in Accounts : RowSound(u)
    /\ \A p \in Lambdas : CallSound(p)
    /\ \A w \in writes : WriteSound(w)
    /\ Generations
    /\ ServedWasSaved

-----------------------------------------------------------------------------
\* A payload is something.
LEMMA PayloadIsSomething ==
    ASSUME NEW u, NEW c
    PROVE  /\ Payload(u, c) # Nothing
           /\ Payload(u, c).epoch = c.epoch /\ Payload(u, c).cursor = c.reference
<1>1. \A a1, a2, a3, a4, a5, a6, a7, a8 :
         [epoch |-> a1, cursor |-> a2, hash |-> a3, tokens |-> a4, visible |-> a5, gross |-> a6,
          available |-> a7, parts |-> a8] # [none |-> TRUE]
  <2> SUFFICES ASSUME NEW a1, NEW a2, NEW a3, NEW a4, NEW a5, NEW a6, NEW a7, NEW a8
               PROVE [epoch |-> a1, cursor |-> a2, hash |-> a3, tokens |-> a4, visible |-> a5,
                      gross |-> a6, available |-> a7, parts |-> a8] # [none |-> TRUE]
    OBVIOUS
  <2>1. "none" \notin DOMAIN [epoch |-> a1, cursor |-> a2, hash |-> a3, tokens |-> a4,
                              visible |-> a5, gross |-> a6, available |-> a7, parts |-> a8]
    OBVIOUS
  <2>2. "none" \in DOMAIN [none |-> TRUE]
    OBVIOUS
  <2> QED BY <2>1, <2>2
<1> QED BY <1>1 DEF Payload, Nothing

\* The day of a block.
LEMMA DayOf ==
    ASSUME NEW t \in Int
    PROVE  /\ completed_utc_epoch(t) \in Int /\ Midnight(completed_utc_epoch(t))
           /\ completed_utc_epoch(t) <= t /\ t < completed_utc_epoch(t) + Day
<1>1. Day \in Nat /\ Day > 0
  BY ScoreApiAssumption
<1>2. t \div Day \in Int /\ (t \div Day) * Day \in Int
  BY <1>1, Z3
<1>3. (t \div Day) * Day <= t /\ t < (t \div Day) * Day + Day
  BY <1>1, Z3
<1> QED BY <1>2, <1>3 DEF completed_utc_epoch, Midnight

\* Days do not overlap.
LEMMA DaysApart ==
    ASSUME NEW a \in Int, NEW b \in Int, Midnight(a), Midnight(b), a < b
    PROVE  a + Day <= b
<1>1. PICK i \in Int, k \in Int : a = i * Day /\ b = k * Day
  BY DEF Midnight
<1>2. Day \in Nat /\ Day > 0
  BY ScoreApiAssumption
<1>3. i < k
  BY <1>1, <1>2, Z3
<1>4. i * Day + Day <= k * Day
  BY <1>2, <1>3, Z3
<1> QED BY <1>1, <1>4

-----------------------------------------------------------------------------
(* What survives the steps of others *)

Forth == now' \in Nat /\ finalized' \in Nat /\ now <= now' /\ finalized <= finalized' /\ saved \subseteq saved'

\* Blocks stay finalized.
LEMMA DatesStay ==
    ASSUME ApiType, Forth, NEW e, NEW b, Dates(e, b)
    PROVE  Dates(e, b)'
BY DEF ApiType, Forth, Dates, Midnight

\* What the table held, it has held.
LEMMA KnownStays ==
    ASSUME ApiType, Forth, NEW u, NEW d, Known(u, d)
    PROVE  Known(u, d)'
<1>1. CASE d = Nothing
  BY <1>1 DEF Known
<1>2. CASE d # Nothing
  <2>1. <<u, d>> \in saved' /\ Dates(d.epoch, d.cursor)
    BY <1>2 DEF Known, Forth
  <2>2. Dates(d.epoch, d.cursor)'
    BY <2>1, DatesStay
  <2> QED BY <2>1, <2>2 DEF Known
<1> QED BY <1>1, <1>2

\* A row that keeps its payload and its lease.
SameRow(u) ==
    /\ row'[u].version = row[u].version /\ row'[u].payload = row[u].payload
    /\ row'[u].generation = row[u].generation /\ row'[u].retry = row[u].retry

\* What an invocation knows of such a row survives the steps of others.
LEMMA CallStays ==
    ASSUME ApiType, Forth, NEW q \in Lambdas, CallSound(q),
           pc'[q] = pc[q], call'[q] = call[q],
           pc[q] # "idle" => SameRow(call[q].account)
    PROVE  CallSound(q)'
<1> SUFFICES ASSUME pc[q] # "idle"  PROVE Loaded(q)' /\ Forward(q)' /\ Leased(q)'
  BY DEF CallSound
<1>1. Loaded(q) /\ Forward(q) /\ Leased(q) /\ SameRow(call[q].account)
  BY DEF CallSound
<1>2. Known(call[q].account, call[q].payload)'
  <2>1. PICK u, d : u = call[q].account /\ d = call[q].payload
    OBVIOUS
  <2>2. Known(u, d)'
    BY <1>1, <2>1, KnownStays DEF Loaded
  <2> QED BY <2>1, <2>2
<1>3. call[q].started <= now'
  BY <1>1 DEF Loaded, ApiType, Forth
<1>4. Loaded(q)'
  BY <1>1, <1>2, <1>3 DEF Loaded, SameRow
<1>5. Dates(call[q].epoch, call[q].reference) => Dates(call[q].epoch, call[q].reference)'
  <2>1. PICK e, b : e = call[q].epoch /\ b = call[q].reference
    OBVIOUS
  <2>2. Dates(e, b) => Dates(e, b)'
    BY DatesStay
  <2> QED BY <2>1, <2>2
<1>6. Forward(q)'
  BY <1>1, <1>5 DEF Forward, NotOlder
<1>7. ~Live(q) => ~Live(q)'
  BY <1>1, ScoreApiAssumption DEF Live, Loaded, ApiType, Forth
<1>8. Leased(q)'
  BY <1>1, <1>7 DEF Leased, SameRow
<1> QED BY <1>4, <1>6, <1>8

\* A save on its way, when its row stays and no invocation gets its lease.
LEMMA WriteStays ==
    ASSUME ApiType, Forth, NEW w, WriteSound(w), SameRow(w.account),
           \A p \in Lambdas : pc'[p] \in Working /\ call'[p].account = w.account =>
              call'[p].generation # w.generation
    PROVE  WriteSound(w)'
<1>1. Dates(w.payload.epoch, w.payload.cursor)'
  BY DatesStay DEF WriteSound
<1> QED BY <1>1 DEF WriteSound, SameRow, NotOlder

\* Time passes, blocks are finalized, the provider changes chains.
LEMMA WorldKeeps ==
    ASSUME ApiInv, Forth, UNCHANGED <<row, saved, pc, call, answer>>, writes' \subseteq writes
    PROVE  ApiInv'
<1>1. ApiType'
  BY DEF ApiInv, ApiType, Forth
<1>2. ASSUME NEW u \in Accounts  PROVE RowSound(u)'
  <2>1. PICK d : d = row[u].payload
    OBVIOUS
  <2>2. Known(u, d)'
    BY <2>1, KnownStays DEF ApiInv, RowSound
  <2> QED BY <2>1, <2>2 DEF ApiInv, RowSound
<1>3. \A u : SameRow(u)
  BY DEF SameRow
<1>4. \A q \in Lambdas : CallSound(q)'
  BY <1>3, CallStays DEF ApiInv
<1>5. ASSUME NEW w \in writes'  PROVE WriteSound(w)'
  <2>1. WriteSound(w)
    BY DEF ApiInv
  <2> QED BY <1>3, <2>1, WriteStays DEF ApiInv, WriteSound
<1>6. Generations' /\ ServedWasSaved'
  BY DEF ApiInv, Generations, ServedWasSaved
<1> QED BY <1>1, <1>2, <1>4, <1>5, <1>6 DEF ApiInv

\* Only p's part of the invocations changes, and the answer was in the table.
OnlyMoves(p) ==
    /\ pc' = [pc EXCEPT ![p] = pc'[p]] /\ pc'[p] \in Places
    /\ call' = [call EXCEPT ![p] = call'[p]] /\ CallShape(call'[p])

\* A step of p on its own state, which gets no lease by it; saves may be
\* sent or arrive.
LEMMA Moves ==
    ASSUME ApiInv, NEW p \in Lambdas, OnlyMoves(p),
           UNCHANGED <<chain, row, saved>>, ServedWasSaved', CallSound(p)',
           \A w \in writes' : w \in writes \/ WriteSound(w)',
           pc'[p] \in Working => /\ pc[p] \in Working
                                 /\ call'[p].account = call[p].account
                                 /\ call'[p].generation = call[p].generation
    PROVE  ApiInv'
<1>1. Forth
  BY DEF Forth, chain, ApiInv, ApiType
<1>2. /\ \A q \in Lambdas \ {p} : pc'[q] = pc[q] /\ call'[q] = call[q]
      /\ \A u : SameRow(u)
  BY DEF OnlyMoves, ApiInv, ApiType, SameRow
<1>3. ApiType'
  BY <1>1, <1>2 DEF ApiInv, ApiType, OnlyMoves, Forth
<1>4. ASSUME NEW u \in Accounts  PROVE RowSound(u)'
  <2>1. PICK d : d = row[u].payload
    OBVIOUS
  <2>2. Known(u, d)'
    BY <1>1, <2>1, KnownStays DEF ApiInv, RowSound
  <2> QED BY <2>1, <2>2 DEF ApiInv, RowSound
<1>5. ASSUME NEW q \in Lambdas  PROVE CallSound(q)'
  <2>1. CASE q = p
    BY <2>1
  <2>2. CASE q # p
    BY <1>1, <1>2, <2>2, CallStays DEF ApiInv
  <2> QED BY <2>1, <2>2
<1>6. ASSUME NEW q \in Lambdas, pc'[q] \in Working
      PROVE  /\ pc[q] \in Working /\ call'[q].account = call[q].account
             /\ call'[q].generation = call[q].generation
  BY <1>2, <1>6
<1>7. ASSUME NEW w \in writes'  PROVE WriteSound(w)'
  <2> SUFFICES ASSUME w \in writes  PROVE WriteSound(w)'
    OBVIOUS
  <2>1. WriteSound(w)
    BY DEF ApiInv
  <2>2. \A q \in Lambdas : pc'[q] \in Working /\ call'[q].account = w.account =>
          call'[q].generation # w.generation
    BY <1>6, <2>1 DEF WriteSound
  <2> QED BY <1>1, <1>2, <2>1, <2>2, WriteStays DEF ApiInv
<1>8. Generations'
  BY <1>6 DEF ApiInv, Generations
<1> QED BY <1>3, <1>4, <1>5, <1>7, <1>8 DEF ApiInv

\* An invocation ends.
LEMMA ReturnKeeps ==
    ASSUME ApiInv, NEW p \in Lambdas, NEW d, Return(p, d),
           d # Nothing => <<call[p].account, d>> \in saved,
           UNCHANGED <<chain, row, saved>>, writes' \subseteq writes
    PROVE  ApiInv'
<1>1. OnlyMoves(p) /\ pc'[p] = "idle"
  BY DEF Return, OnlyMoves, Places, CallShape, NoCall, ApiInv, ApiType
<1>2. ServedWasSaved'
  BY DEF Return, ServedWasSaved
<1>3. CallSound(p)' /\ "idle" \notin Working
  BY <1>1 DEF CallSound, Working
<1> QED BY <1>1, <1>2, <1>3, Moves

-----------------------------------------------------------------------------
(* The steps *)

\* A new request of u at clock time t, which reads version v with payload d.
NewCall(u, refresh, n, t, e, v, d) ==
    [NoCall EXCEPT !.account = u, !.refresh = refresh, !.started = n, !.time = t,
                   !.epoch = e, !.version = v, !.payload = d]

\* Its fields.
LEMMA NewCallFields ==
    ASSUME NEW u, NEW refresh, NEW n, NEW t, NEW e, NEW v, NEW d, NEW c,
           c = NewCall(u, refresh, n, t, e, v, d)
    PROVE  /\ c.account = u /\ c.refresh = refresh /\ c.started = n /\ c.time = t
           /\ c.epoch = e /\ c.version = v /\ c.payload = d /\ CallShape(c)
<1>1. c = [account |-> u, refresh |-> refresh, started |-> n, time |-> t, epoch |-> e,
           version |-> v, payload |-> d, generation |-> 0, reference |-> 0, hash |-> 0,
           cold |-> FALSE, matured |-> NoTokens, visible |-> NoTokens]
  BY DEF NewCall, NoCall
<1> QED BY <1>1 DEF CallShape

\* A request that is not answered from the row remembers what it read.
LEMMA LoadKeeps ==
    ASSUME ApiInv, NEW p \in Lambdas, Load(p)
    PROVE  ApiInv'
<1> DEFINE Read(u, refresh) ==
             NewCall(u, refresh, now, Clock(p), completed_utc_epoch(Clock(p)),
                     row[u].version, row[u].payload)
<1>1. UNCHANGED <<chain, row, writes, saved>>
  BY DEF Load
<1>2. PICK u \in Accounts, refresh \in {FALSE, (p \in Refreshers)} :
         \/ /\ row[u].payload # Nothing
            /\ answer' = [account |-> u, payload |-> row[u].payload]
            /\ UNCHANGED <<pc, call>>
         \/ /\ ~(/\ row[u].payload # Nothing
                 /\ row[u].payload.epoch = Read(u, refresh).epoch
                 /\ refresh => RefreshThrottled(row[u], Read(u, refresh).time))
            /\ pc' = [pc EXCEPT ![p] = "loaded"]
            /\ call' = [call EXCEPT ![p] = Read(u, refresh)]
            /\ answer' = Nothing
  BY DEF Load, NewCall
<1>3. RowSound(u) /\ Known(u, row[u].payload)
  BY DEF ApiInv, RowSound
<1>4. CASE answer' = [account |-> u, payload |-> row[u].payload] /\ UNCHANGED <<pc, call>>
           /\ row[u].payload # Nothing
  <2>1. OnlyMoves(p)
    BY <1>4 DEF OnlyMoves, ApiInv, ApiType
  <2>2. ServedWasSaved'
    BY <1>1, <1>3, <1>4 DEF ServedWasSaved, Known
  <2>3. Forth /\ SameRow(call[p].account)
    BY <1>1 DEF Forth, SameRow, chain, ApiInv, ApiType
  <2>4. CallSound(p)'
    BY <1>4, <2>3, CallStays DEF ApiInv
  <2> QED BY <1>1, <1>4, <2>1, <2>2, <2>4, Moves
<1>5. CASE /\ ~(/\ row[u].payload # Nothing
                /\ row[u].payload.epoch = Read(u, refresh).epoch
                /\ refresh => RefreshThrottled(row[u], Read(u, refresh).time))
           /\ pc' = [pc EXCEPT ![p] = "loaded"]
           /\ call' = [call EXCEPT ![p] = Read(u, refresh)]
           /\ answer' = Nothing
  <2>0. PICK c : c = Read(u, refresh)
    OBVIOUS
  <2>1. /\ c.account = u /\ c.refresh = refresh /\ c.started = now /\ c.time = Clock(p)
        /\ c.version = row[u].version /\ c.payload = row[u].payload /\ CallShape(c)
    BY <2>0, NewCallFields
  <2>2. ~(row[u].payload # Nothing /\ row[u].payload.epoch = c.epoch /\ ~refresh)
    BY <1>5, <2>0
  <2> HIDE DEF Read
  <2>3. pc'[p] = "loaded" /\ call'[p] = c
    BY <1>5, <2>0 DEF ApiInv, ApiType
  <2>4. OnlyMoves(p)
    BY <1>5, <2>1, <2>3 DEF OnlyMoves, Places
  <2>5. ServedWasSaved'
    BY <1>5 DEF ServedWasSaved
  <2>6. Forth /\ now \in Nat /\ now' = now /\ row' = row
    BY <1>1 DEF Forth, chain, ApiInv, ApiType
  <2>7. Known(u, row[u].payload)'
    <3>1. PICK d : d = row[u].payload
      OBVIOUS
    <3>2. Known(u, d)'
      BY <1>3, <2>6, <3>1, KnownStays DEF ApiInv
    <3> QED BY <2>6, <3>1, <3>2
  <2>8. Loaded(p)'
    BY <1>3, <2>1, <2>3, <2>6, <2>7 DEF Loaded, Clock, RowSound
  <2>9. Forward(p)'
    BY <2>1, <2>2, <2>3 DEF Forward, Anchored
  <2>10. "loaded" \notin Working
    BY DEF Working
  <2>11. CallSound(p)'
    BY <2>3, <2>8, <2>9, <2>10 DEF CallSound, Leased
  <2> QED BY <1>1, <2>3, <2>4, <2>5, <2>10, <2>11, Moves
<1> QED BY <1>2, <1>4, <1>5

\* Ends without a new result: a row's payload, the one that was read, or none.
LEMMA DefersKeep ==
    ASSUME ApiInv, NEW p \in Lambdas,
           AcquireLost(p) \/ ReserveDenied(p) \/ NoAnchor(p) \/ AnchorChanged(p) \/ TimeOut(p)
    PROVE  ApiInv'
<1>1. UNCHANGED <<chain, row, writes, saved>> /\ pc[p] # "idle"
  BY DEF AcquireLost, ReserveDenied, NoAnchor, AnchorChanged, TimeOut
<1>2. Loaded(p) /\ call[p].account \in Accounts
  BY <1>1 DEF ApiInv, CallSound, Loaded
<1>3. PICK d \in {row[call[p].account].payload, call[p].payload, Nothing} : Return(p, d)
  BY DEF AcquireLost, ReserveDenied, NoAnchor, AnchorChanged, TimeOut, Defer
<1>4. d # Nothing => <<call[p].account, d>> \in saved
  BY <1>2, <1>3 DEF Loaded, Known, ApiInv, RowSound
<1> QED BY <1>1, <1>3, <1>4, ReturnKeeps

\* A step that only moves on, within the lease.
LEMMA WorkKeeps ==
    ASSUME ApiInv, NEW p \in Lambdas, pc[p] \in Working, OnlyMoves(p), pc'[p] \in Working,
           UNCHANGED <<chain, row, writes, saved, answer>>,
           call'[p].account = call[p].account, call'[p].refresh = call[p].refresh,
           call'[p].started = call[p].started, call'[p].time = call[p].time,
           call'[p].epoch = call[p].epoch, call'[p].version = call[p].version,
           call'[p].payload = call[p].payload, call'[p].generation = call[p].generation,
           Forward(p)'
    PROVE  ApiInv'
<1>1. pc[p] # "idle" /\ pc'[p] # "idle"
  BY DEF Working
<1>2. Loaded(p) /\ Leased(p)
  BY <1>1 DEF ApiInv, CallSound
<1>3. Forth /\ UNCHANGED <<now, row, saved>>
  BY DEF Forth, chain, ApiInv, ApiType
<1>4. Known(call[p].account, call[p].payload)'
  <2>1. PICK u, d : u = call[p].account /\ d = call[p].payload
    OBVIOUS
  <2>2. Known(u, d)'
    BY <1>2, <1>3, <2>1, KnownStays DEF Loaded, ApiInv
  <2> QED BY <2>1, <2>2
<1>5. Loaded(p)'
  BY <1>2, <1>3, <1>4 DEF Loaded
<1>6. Leased(p)'
  BY <1>2, <1>3 DEF Leased, Live
<1>7. ServedWasSaved'
  BY <1>3 DEF ApiInv, ServedWasSaved
<1> QED BY <1>5, <1>6, <1>7, Moves DEF CallSound

\* The attempt is charged; the anchors are confirmed.
LEMMA ChecksKeep ==
    ASSUME ApiInv, NEW p \in Lambdas, Reserve(p) \/ Confirm(p)
    PROVE  ApiInv'
<1>1. UNCHANGED <<chain, row, writes, saved, answer, call>>
  BY DEF Reserve, Confirm
<1>2. \/ pc[p] = "leased" /\ pc' = [pc EXCEPT ![p] = "admitted"]
      \/ pc[p] = "visible" /\ pc' = [pc EXCEPT ![p] = "computed"]
  BY DEF Reserve, Confirm, Goes
<1>3. pc[p] \in Working /\ pc'[p] \in Working /\ pc[p] # "idle"
  BY <1>2 DEF Working, ApiInv, ApiType
<1>4. OnlyMoves(p)
  BY <1>1, <1>2, <1>3 DEF OnlyMoves, Places, ApiInv, ApiType
<1>5. Forward(p)
  BY <1>3 DEF ApiInv, CallSound
<1>6. finalized' = finalized
  BY <1>1 DEF chain
<1>7. Forward(p)'
  <2>1. CASE pc[p] = "leased" /\ pc' = [pc EXCEPT ![p] = "admitted"]
    <3>1. pc'[p] = "admitted" /\ "admitted" \notin Anchored
      BY <2>1 DEF Anchored, ApiInv, ApiType
    <3> QED BY <1>1, <1>5, <2>1, <3>1 DEF Forward
  <2>2. CASE pc[p] = "visible" /\ pc' = [pc EXCEPT ![p] = "computed"]
    <3>1. pc'[p] = "computed" /\ "visible" \in Anchored
      BY <2>2 DEF Anchored, ApiInv, ApiType
    <3> QED BY <1>1, <1>5, <1>6, <2>2, <3>1 DEF Forward, Dates, NotOlder
  <2> QED BY <1>2, <2>1, <2>2
<1> QED BY <1>1, <1>3, <1>4, <1>7, WorkKeeps

\* A block and a day for the request, not before those of the payload it read:
\* the finalized chain has reached the day, and the day is computed again only
\* up to the finalized block.
LEMMA AnchorKeeps ==
    ASSUME ApiInv, NEW p \in Lambdas, Anchor(p)
    PROVE  ApiInv'
<1> DEFINE c == call[p]
           d == call[p].payload
           r == Reference(p)
<1>1. UNCHANGED <<chain, row, writes, saved, answer>> /\ c.epoch = completed_utc_epoch(finalized)
      /\ pc[p] = "admitted" /\ pc' = [pc EXCEPT ![p] = "anchored"]
      /\ call' = [call EXCEPT ![p].reference = r, ![p].hash = HashOn(fork, r)]
  BY DEF Anchor, Goes
<1>2. /\ pc[p] \in Working /\ pc[p] # "idle" /\ pc'[p] = "anchored"
      /\ "anchored" \in Working /\ "anchored" \in Places
  BY <1>1 DEF Working, Places, ApiInv, ApiType
<1>3. CallShape(c) /\ finalized \in Nat /\ finalized' = finalized
  BY <1>1 DEF ApiInv, ApiType, chain
<1>4. call'[p] = [c EXCEPT !.reference = r, !.hash = HashOn(fork, r)]
  BY <1>1 DEF ApiInv, ApiType
<1>5. /\ call'[p].account = c.account /\ call'[p].refresh = c.refresh
      /\ call'[p].started = c.started /\ call'[p].time = c.time
      /\ call'[p].epoch = c.epoch /\ call'[p].version = c.version
      /\ call'[p].payload = c.payload /\ call'[p].generation = c.generation
      /\ call'[p].reference = r /\ CallShape(call'[p])
  <2> HIDE DEF r, c
  <2> QED BY <1>3, <1>4 DEF CallShape
<1>6. OnlyMoves(p)
  BY <1>1, <1>2, <1>5 DEF OnlyMoves, ApiInv, ApiType
<1>7. Loaded(p) /\ Forward(p)
  BY <1>2 DEF ApiInv, CallSound
<1>8. /\ c.epoch \in Int /\ Midnight(c.epoch) /\ c.epoch <= finalized
      /\ finalized < c.epoch + Day /\ Day \in Nat /\ Day > 0
  BY <1>1, <1>3, DayOf, ScoreApiAssumption
<1>9. r = finalized \/ (~c.refresh /\ r = c.epoch - 1)
  BY DEF Reference
<1>10. Dates(c.epoch, r)
  <2> HIDE DEF r, c
  <2> QED BY <1>3, <1>8, <1>9 DEF Dates
<1>11. NotOlder(c.epoch, r, d)
  <2> SUFFICES ASSUME d # Nothing  PROVE d.epoch <= c.epoch /\ d.cursor <= r
    BY DEF NotOlder
  <2>1. Dates(d.epoch, d.cursor) /\ (d.epoch = c.epoch => c.refresh)
    BY <1>1, <1>7 DEF Loaded, Known, Forward
  <2> HIDE DEF r, c, d
  <2>2. d.epoch \in Int /\ d.cursor \in Int /\ Midnight(d.epoch) /\ d.epoch <= finalized
        /\ d.cursor <= finalized /\ d.cursor < d.epoch + Day
    BY <2>1 DEF Dates
  <2>3. ~(c.epoch < d.epoch)
    <3> SUFFICES ASSUME c.epoch < d.epoch  PROVE FALSE
      OBVIOUS
    <3>1. c.epoch + Day <= d.epoch
      BY <1>8, <2>2, DaysApart
    <3> QED BY <1>3, <1>8, <2>2, <3>1
  <2>4. d.epoch < c.epoch => d.epoch + Day <= c.epoch
    BY <1>8, <2>2, DaysApart
  <2>5. CASE r = finalized
    BY <1>8, <2>2, <2>3, <2>5
  <2>6. CASE ~c.refresh /\ r = c.epoch - 1
    <3>1. d.epoch < c.epoch
      BY <1>8, <2>1, <2>2, <2>3, <2>6
    <3> QED BY <1>8, <2>2, <2>4, <2>6, <3>1
  <2> QED BY <1>9, <2>5, <2>6
<1>12. Forward(p)'
  BY <1>2, <1>3, <1>5, <1>10, <1>11 DEF Forward, NotOlder, Dates, Midnight
<1> QED BY <1>1, <1>2, <1>5, <1>6, <1>12, WorkKeeps

\* A replay goes on, starts over without its checkpoint or fails the request.
LEMMA ReplayedKeeps ==
    ASSUME ApiInv, NEW p \in Lambdas, pc[p] \in Working \cap Anchored,
           NEW to \in Working \cap Anchored,
           NEW tokens, NEW next, Replayed(p, to, tokens, next), CallShape(next),
           next.account = call[p].account, next.refresh = call[p].refresh,
           next.started = call[p].started, next.time = call[p].time,
           next.epoch = call[p].epoch, next.version = call[p].version,
           next.payload = call[p].payload, next.generation = call[p].generation,
           next.reference = call[p].reference,
           UNCHANGED <<chain, row, writes, saved>>
    PROVE  ApiInv'
<1>1. CASE Return(p, Nothing)
  BY <1>1, ReturnKeeps
<1>2. CASE ~Return(p, Nothing)
  <2>1. PICK place \in Working \cap Anchored, c \in {next, [call[p] EXCEPT !.cold = TRUE]} :
          /\ pc' = [pc EXCEPT ![p] = place] /\ call' = [call EXCEPT ![p] = c] /\ UNCHANGED answer
    <3>1. "anchored" \in Working \cap Anchored
      BY DEF Working, Anchored
    <3>2. [call EXCEPT ![p].cold = TRUE] = [call EXCEPT ![p] = [call[p] EXCEPT !.cold = TRUE]]
      BY DEF ApiInv, ApiType
    <3> QED BY <1>2, <3>1, <3>2 DEF Replayed, Defer
  <2>2. CallShape(call[p])
    BY DEF ApiInv, ApiType
  <2>3. /\ c.account = call[p].account /\ c.refresh = call[p].refresh
        /\ c.started = call[p].started /\ c.time = call[p].time /\ c.epoch = call[p].epoch
        /\ c.version = call[p].version /\ c.payload = call[p].payload
        /\ c.generation = call[p].generation /\ c.reference = call[p].reference /\ CallShape(c)
    <3>1. CASE c = next
      BY <3>1
    <3>2. CASE c = [call[p] EXCEPT !.cold = TRUE]
      <4>1. PICK a : a = call[p]
        OBVIOUS
      <4> QED BY <2>2, <3>2, <4>1 DEF CallShape
    <3> QED BY <2>1, <3>1, <3>2
  <2>4. pc'[p] = place /\ call'[p] = c /\ place # "idle" /\ place \in Places
        /\ pc[p] # "idle" /\ place \notin {"loaded", "leased", "admitted"}
    BY <2>1 DEF ApiInv, ApiType, Working, Places, Anchored
  <2>5. OnlyMoves(p)
    BY <2>1, <2>3, <2>4 DEF OnlyMoves, ApiInv, ApiType
  <2>6. Forward(p) /\ finalized' = finalized
    BY <2>4 DEF ApiInv, CallSound, chain
  <2>7. Forward(p)'
    BY <2>3, <2>4, <2>6 DEF Forward, Dates, Midnight, NotOlder
  <2> QED BY <2>1, <2>3, <2>4, <2>5, <2>7, WorkKeeps
<1> QED BY <1>1, <1>2

\* A replay that adds its tokens to what the invocation knows.
LEMMA TokensKeep ==
    ASSUME ApiInv, NEW p \in Lambdas, pc[p] \in Working \cap Anchored,
           NEW to \in Working \cap Anchored, NEW tokens, NEW next, Replayed(p, to, tokens, next),
           \/ next = [call[p] EXCEPT !.matured = tokens]
           \/ next = [call[p] EXCEPT !.visible = tokens],
           UNCHANGED <<chain, row, writes, saved>>
    PROVE  ApiInv'
<1>3. PICK c : c = call[p]
  OBVIOUS
<1>4. CallShape(c)
  BY <1>3 DEF ApiInv, ApiType
<1>5. /\ next.account = c.account /\ next.refresh = c.refresh
      /\ next.started = c.started /\ next.time = c.time /\ next.epoch = c.epoch
      /\ next.version = c.version /\ next.payload = c.payload
      /\ next.generation = c.generation /\ next.reference = c.reference /\ CallShape(next)
  <2>1. CASE next = [c EXCEPT !.matured = tokens]
    BY <1>4, <2>1 DEF CallShape
  <2>2. CASE next = [c EXCEPT !.visible = tokens]
    BY <1>4, <2>2 DEF CallShape
  <2> QED BY <1>3, <2>1, <2>2
<1> QED BY <1>3, <1>5, ReplayedKeeps

\* Both replays.
LEMMA ReplaysKeep ==
    ASSUME ApiInv, NEW p \in Lambdas, Mature(p) \/ Visible(p)
    PROVE  ApiInv'
<1>1. UNCHANGED <<chain, row, writes, saved>> /\ pc[p] \in Working \cap Anchored
  BY DEF Mature, Visible, Working, Anchored
<1>2. "matured" \in Working \cap Anchored /\ "visible" \in Working \cap Anchored
  BY DEF Working, Anchored
<1>3. CASE Mature(p)
  <2>1. PICK tokens : Replayed(p, "matured", tokens, [call[p] EXCEPT !.matured = tokens])
    BY <1>3, Zenon DEF Mature
  <2>2. PICK next : next = [call[p] EXCEPT !.matured = tokens]
    OBVIOUS
  <2>3. Replayed(p, "matured", tokens, next)
    BY <2>1, <2>2
  <2> QED BY <1>1, <1>2, <2>2, <2>3, TokensKeep
<1>4. CASE Visible(p)
  <2>1. PICK tokens : Replayed(p, "visible", tokens, [call[p] EXCEPT !.visible = tokens])
    BY <1>4, Zenon DEF Visible
  <2>2. PICK next : next = [call[p] EXCEPT !.visible = tokens]
    OBVIOUS
  <2>3. Replayed(p, "visible", tokens, next)
    BY <2>1, <2>2
  <2> QED BY <1>1, <1>2, <2>2, <2>3, TokensKeep
<1> QED BY <1>3, <1>4

\* The lease: whoever held it before has timed out.
LEMMA AcquireKeeps ==
    ASSUME ApiInv, NEW p \in Lambdas, Acquire(p)
    PROVE  ApiInv'
<1> DEFINE u == call[p].account
           g == row[u].generation + 1
<1>1. UNCHANGED <<chain, writes, saved, answer>> /\ pc[p] = "loaded"
      /\ pc' = [pc EXCEPT ![p] = "leased"] /\ Acquirable(row[u], call[p].version, call[p].time)
      /\ row' = [row EXCEPT ![u] = Acquired(row[u], call[p].epoch, call[p].time)]
      /\ call' = [call EXCEPT ![p].generation = g]
  BY DEF Acquire, Goes
<1>2. /\ Loaded(p) /\ Forward(p) /\ u \in Accounts /\ RowSound(u) /\ CallShape(call[p])
      /\ RowShape(row[u])
  BY <1>1 DEF ApiInv, CallSound, ApiType, Loaded
<1>3. PICK r, c : r = row[u] /\ c = call[p]
  OBVIOUS
<1>4. /\ pc'[p] = "leased" /\ call'[p] = [c EXCEPT !.generation = g]
      /\ row'[u] = Acquired(r, c.epoch, c.time)
      /\ \A v \in Accounts \ {u} : row'[v] = row[v]
      /\ \A q \in Lambdas \ {p} : pc'[q] = pc[q] /\ call'[q] = call[q]
  BY <1>1, <1>2, <1>3 DEF ApiInv, ApiType
<1>5. /\ call'[p].account = u /\ call'[p].refresh = c.refresh
      /\ call'[p].started = c.started /\ call'[p].time = c.time
      /\ call'[p].epoch = c.epoch /\ call'[p].version = c.version
      /\ call'[p].payload = c.payload /\ call'[p].generation = g /\ CallShape(call'[p])
  <2>1. CallShape(c) /\ c.account = u
    BY <1>2, <1>3
  <2> HIDE DEF u, g
  <2> QED BY <1>4, <2>1 DEF CallShape
<1>6. /\ row'[u].version = r.version /\ row'[u].payload = r.payload /\ row'[u].generation = g
      /\ row'[u].retry = c.time + LeaseTime + Cooldown /\ RowShape(row'[u])
  <2>1. RowShape(r) /\ g = r.generation + 1
    BY <1>2, <1>3
  <2> HIDE DEF u, g
  <2> QED BY <1>4, <2>1 DEF RowShape, Acquired
<1>7. /\ Forth /\ now' = now /\ finalized' = finalized
      /\ now \in Nat /\ LeaseTime \in Nat /\ Cooldown \in Nat /\ Timeout \in Nat
      /\ \A q \in Lambdas : Lag[q] \in Int
  <2>1. LeaseTime \in Nat /\ Cooldown \in Nat /\ Timeout \in Nat /\ Lag \in [Lambdas -> Int]
    BY ScoreApiAssumption
  <2>2. now' = now /\ finalized' = finalized /\ saved' = saved /\ now \in Nat /\ finalized \in Nat
    BY <1>1 DEF chain, ApiInv, ApiType
  <2> QED BY <2>1, <2>2 DEF Forth
<1>8. /\ r.generation \in Nat /\ g \in Nat /\ g = r.generation + 1 /\ r.retry \in Int
      /\ r.version \in Nat /\ r.retry <= c.time
      /\ c.time = c.started - Lag[p] /\ c.started \in Nat /\ c.started <= now
  BY <1>1, <1>2, <1>3 DEF RowSound, Loaded, Acquirable
<1>9. /\ "leased" \in Working /\ "leased" \in Places /\ "leased" \notin Anchored
      /\ "leased" # "idle" /\ "idle" \notin Working
  BY DEF Working, Places, Anchored
<1>10. ApiType'
  BY <1>1, <1>4, <1>5, <1>6, <1>7, <1>9 DEF ApiInv, ApiType
<1>11. ASSUME NEW v \in Accounts, NEW d, Known(v, d)  PROVE Known(v, d)'
  BY <1>7, <1>11, KnownStays DEF ApiInv
<1>12. ASSUME NEW v \in Accounts  PROVE RowSound(v)'
  <2>1. PICK d : d = row[v].payload /\ row'[v].payload = d
    BY <1>3, <1>4, <1>6
  <2>2. Known(v, d)'
    BY <1>11, <2>1 DEF ApiInv, RowSound
  <2>3. row'[v].version \in Nat /\ row'[v].generation \in Nat /\ row'[v].retry \in Int
    <3>1. CASE v = u
      <4> HIDE DEF u, g
      <4> QED BY <1>6, <1>7, <1>8, <3>1
    <3>2. CASE v # u
      BY <1>4, <3>2 DEF ApiInv, RowSound
    <3> QED BY <3>1, <3>2
  <2> QED BY <2>1, <2>2, <2>3 DEF RowSound
<1>13. CallSound(p)'
  <2>1. Known(call[p].account, call[p].payload)'
    <3>1. PICK v, d : v = u /\ d = c.payload /\ v \in Accounts
      BY <1>2
    <3>2. Known(v, d) /\ call'[p].payload = d /\ call'[p].account = v
      BY <1>2, <1>3, <1>5, <3>1 DEF Loaded
    <3>3. Known(v, d)'
      BY <1>11, <3>1, <3>2
    <3> QED BY <3>2, <3>3
  <2>2. Loaded(p)'
    BY <1>2, <1>3, <1>5, <1>6, <1>7, <1>8, <2>1 DEF Loaded
  <2>3. Forward(p)'
    BY <1>1, <1>2, <1>3, <1>4, <1>5, <1>9 DEF Forward
  <2>4. Leased(p)'
    <3>1. call'[p].generation = g /\ row'[call'[p].account].generation = g
          /\ row'[call'[p].account].retry = call'[p].time + LeaseTime + Cooldown
      BY <1>5, <1>6
    <3> HIDE DEF g, u
    <3> QED BY <1>8, <3>1 DEF Leased
  <2> QED BY <2>2, <2>3, <2>4 DEF CallSound
<1>14. ASSUME NEW q \in Lambdas, q # p, pc[q] \in Working, call[q].account = u
       PROVE  /\ call[q].generation \in Nat /\ call[q].generation < g /\ ~Live(q)
  <2>1. Loaded(q) /\ Leased(q)
    BY <1>9, <1>14 DEF ApiInv, CallSound
  <2>2. call[q].generation \in Nat /\ call[q].generation <= r.generation
    BY <1>3, <1>14, <2>1 DEF Leased
  <2>3. CASE call[q].generation = r.generation
    <3>1. r.retry = call[q].time + LeaseTime + Cooldown
      BY <1>3, <1>14, <2>1, <2>3 DEF Leased
    <3>2. call[q].time = call[q].started - Lag[q] /\ call[q].started \in Nat
      BY <2>1 DEF Loaded
    <3>3. Timeout + Lag[q] - Lag[p] < LeaseTime + Cooldown /\ Lag[p] \in Int /\ Lag[q] \in Int
      BY <1>7, ScoreApiAssumption
    <3>4. now - call[q].started > Timeout
      BY <1>7, <1>8, <3>1, <3>2, <3>3
    <3> QED BY <1>7, <1>8, <2>2, <3>2, <3>4 DEF Live
  <2>4. CASE call[q].generation < r.generation
    BY <1>3, <1>8, <1>14, <2>1, <2>2, <2>4 DEF Leased
  <2> QED BY <1>8, <2>2, <2>3, <2>4
<1>15. ASSUME NEW q \in Lambdas  PROVE CallSound(q)'
  <2>1. CASE q = p
    BY <1>13, <2>1
  <2>2. CASE q # p /\ pc[q] = "idle"
    BY <1>4, <2>2 DEF CallSound
  <2>3. CASE q # p /\ pc[q] # "idle" /\ call[q].account # u
    <3>1. call[q].account \in Accounts
      BY <2>3 DEF ApiInv, CallSound, Loaded
    <3>2. SameRow(call[q].account)
      BY <1>4, <2>3, <3>1 DEF SameRow
    <3> QED BY <1>4, <1>7, <2>3, <3>2, CallStays DEF ApiInv
  <2>4. CASE q # p /\ pc[q] # "idle" /\ call[q].account = u
    <3>1. Loaded(q) /\ Forward(q) /\ pc'[q] = pc[q] /\ call'[q] = call[q]
      BY <1>4, <2>4 DEF ApiInv, CallSound
    <3>2. Known(call[q].account, call[q].payload)'
      <4>1. PICK v, d : v = call[q].account /\ d = call[q].payload /\ v \in Accounts
        BY <3>1 DEF Loaded
      <4>2. Known(v, d)'
        BY <1>11, <3>1, <4>1 DEF Loaded
      <4> QED BY <3>1, <4>1, <4>2
    <3>3. Loaded(q)'
      BY <1>3, <1>6, <1>7, <2>4, <3>1, <3>2 DEF Loaded
    <3>4. Forward(q)'
      BY <1>7, <3>1 DEF Forward, Dates, Midnight, NotOlder
    <3>5. Leased(q)'
      <4> SUFFICES ASSUME pc[q] \in Working
                   PROVE  /\ call[q].generation \in Nat
                          /\ call[q].generation <= row'[call[q].account].generation
                          /\ ~Live(q)'
                          /\ call[q].generation # row'[call[q].account].generation
        BY <3>1 DEF Leased
      <4>1. call[q].generation \in Nat /\ call[q].generation < g /\ ~Live(q)
        BY <1>14, <2>4
      <4>2. ~Live(q)' /\ row'[call[q].account].generation = g
        BY <1>6, <1>7, <2>4, <3>1, <4>1 DEF Live
      <4> HIDE DEF g, u
      <4> QED BY <1>8, <4>1, <4>2
    <3> QED BY <3>3, <3>4, <3>5 DEF CallSound
  <2> QED BY <2>1, <2>2, <2>3, <2>4
<1>16. ASSUME NEW w \in writes  PROVE WriteSound(w)'
  <2>1. WriteSound(w) /\ w.account \in Accounts
    BY DEF ApiInv, WriteSound
  <2>2. CASE w.account # u
    <3>1. SameRow(w.account)
      BY <1>4, <2>1, <2>2 DEF SameRow
    <3>2. \A q \in Lambdas : pc'[q] \in Working /\ call'[q].account = w.account =>
            call'[q].generation # w.generation
      BY <1>4, <1>5, <2>1, <2>2 DEF WriteSound
    <3> QED BY <1>7, <2>1, <3>1, <3>2, WriteStays DEF ApiInv
  <2>3. CASE w.account = u
    <3>1. w.generation \in Nat /\ w.generation <= r.generation /\ w.version <= r.version
      BY <1>3, <2>1, <2>3 DEF WriteSound
    <3>2. w.generation < g
      <4> HIDE DEF g
      <4> QED BY <1>8, <3>1
    <3>3. \A q \in Lambdas : pc'[q] \in Working /\ call'[q].account = w.account =>
            call'[q].generation # w.generation
      <4>1. g # w.generation
        BY <1>8, <3>1
      <4> QED BY <1>4, <1>5, <2>1, <4>1 DEF WriteSound
    <3>4. Dates(w.payload.epoch, w.payload.cursor)'
      BY <1>7, <2>1, DatesStay DEF WriteSound, ApiInv
    <3>5. w.generation <= g
      BY <1>8, <3>1
    <3> QED BY <1>3, <1>6, <2>1, <2>3, <3>3, <3>4, <3>5 DEF WriteSound, NotOlder
  <2> QED BY <2>2, <2>3
<1>17. Generations'
  <2> SUFFICES ASSUME NEW a \in Lambdas, NEW b \in Lambdas, a # b, pc'[a] \in Working,
                      pc'[b] \in Working, call'[a].account = call'[b].account
               PROVE  call'[a].generation # call'[b].generation
    BY DEF Generations
  <2>1. CASE a # p /\ b # p
    BY <1>4, <2>1 DEF ApiInv, Generations
  <2>2. ASSUME NEW q \in Lambdas, q # p, pc'[q] \in Working, call'[q].account = u
        PROVE  call'[q].generation # g
    <3>1. pc[q] \in Working /\ call'[q] = call[q] /\ call[q].account = u
      BY <1>4, <2>2
    <3>2. call[q].generation \in Nat /\ call[q].generation < g
      BY <1>14, <2>2, <3>1
    <3> HIDE DEF g, u
    <3> QED BY <1>8, <3>1, <3>2
  <2>3. call'[p].account = u /\ call'[p].generation = g
    BY <1>5
  <2> HIDE DEF g, u
  <2>4. CASE a = p
    BY <2>2, <2>3, <2>4
  <2>5. CASE b = p
    BY <2>2, <2>3, <2>5
  <2> QED BY <2>1, <2>4, <2>5
<1>18. ServedWasSaved'
  BY <1>1 DEF ApiInv, ServedWasSaved
<1> QED BY <1>1, <1>10, <1>12, <1>15, <1>16, <1>17, <1>18 DEF ApiInv

\* The result is sent to the table: the lease is not used any more.
LEMMA SendSaveKeeps ==
    ASSUME ApiInv, NEW p \in Lambdas, SendSave(p)
    PROVE  ApiInv'
<1>1. UNCHANGED <<chain, row, saved, call, answer>> /\ pc[p] = "computed"
      /\ pc' = [pc EXCEPT ![p] = "saving"] /\ writes' = writes \cup {WriteOf(p)}
  BY DEF SendSave, Goes
<1>2. /\ "computed" \in Working /\ "computed" \in Anchored /\ "saving" \in Anchored
      /\ "saving" \notin Working /\ "saving" \in Places /\ pc[p] # "idle"
      /\ "saving" \notin {"loaded", "leased", "admitted"}
  BY <1>1 DEF Working, Anchored, Places
<1>3. pc'[p] = "saving" /\ \A q \in Lambdas \ {p} : pc'[q] = pc[q]
  BY <1>1 DEF ApiInv, ApiType
<1>4. Loaded(p) /\ Forward(p) /\ Leased(p)
  BY <1>2 DEF ApiInv, CallSound
<1>5. OnlyMoves(p)
  BY <1>1, <1>2, <1>3 DEF OnlyMoves, ApiInv, ApiType
<1>6. Loaded(p)'
  BY <1>1, <1>4 DEF Loaded, Known, Dates, chain
<1>7. Forward(p)'
  BY <1>1, <1>2, <1>3, <1>4 DEF Forward, Dates, NotOlder, chain
<1>8. CallSound(p)' /\ ServedWasSaved'
  BY <1>1, <1>2, <1>3, <1>6, <1>7 DEF CallSound, Leased, ServedWasSaved, ApiInv
<1>9. PICK w : w = WriteOf(p)
  OBVIOUS
<1>10. /\ w.account = call[p].account /\ w.generation = call[p].generation
       /\ w.version = call[p].version /\ w.payload # Nothing
       /\ w.payload.epoch = call[p].epoch /\ w.payload.cursor = call[p].reference
  <2>1. PICK d : d = Payload(call[p].account, call[p])
    OBVIOUS
  <2>2. d # Nothing /\ d.epoch = call[p].epoch /\ d.cursor = call[p].reference
    BY <2>1, PayloadIsSomething
  <2>3. /\ w.account = call[p].account /\ w.generation = call[p].generation
        /\ w.version = call[p].version /\ w.payload = d
    BY <1>9, <2>1 DEF WriteOf
  <2> QED BY <2>2, <2>3
<1>11. \A q \in Lambdas : pc'[q] \in Working /\ call'[q].account = w.account =>
          call'[q].generation # w.generation
  BY <1>1, <1>2, <1>3, <1>10 DEF ApiInv, Generations
<1>12. WriteSound(w)'
  <2>1. Dates(call[p].epoch, call[p].reference)
        /\ NotOlder(call[p].epoch, call[p].reference, call[p].payload)
    BY <1>1, <1>2, <1>4 DEF Forward
  <2>2. finalized' = finalized /\ row' = row
    BY <1>1 DEF chain
  <2>3. Dates(w.payload.epoch, w.payload.cursor)'
    BY <1>10, <2>1, <2>2 DEF Dates
  <2>4. /\ w.account \in Accounts /\ w.version \in Nat /\ w.version <= row[w.account].version
        /\ w.version = row[w.account].version => call[p].payload = row[w.account].payload
    BY <1>4, <1>10 DEF Loaded
  <2>5. w.generation \in Nat /\ w.generation <= row[w.account].generation
    BY <1>1, <1>2, <1>4, <1>10 DEF Leased
  <2>6. w.version = row[w.account].version =>
          NotOlder(w.payload.epoch, w.payload.cursor, row[w.account].payload)
    BY <1>10, <2>1, <2>4 DEF NotOlder
  <2> QED BY <1>10, <1>11, <2>2, <2>3, <2>4, <2>5, <2>6 DEF WriteSound, NotOlder
<1>13. \A v \in writes' : v \in writes \/ WriteSound(v)'
  BY <1>1, <1>9, <1>12
<1> QED BY <1>1, <1>2, <1>3, <1>5, <1>8, <1>13, Moves

\* The fields of a row that a save replaced.
LEMMA StoredFields ==
    ASSUME NEW r, RowShape(r), NEW w
    PROVE  /\ Stored(r, w).version = w.version + 1 /\ Stored(r, w).payload = w.payload
           /\ Stored(r, w).generation = r.generation /\ Stored(r, w).retry = 0
           /\ RowShape(Stored(r, w))
<1>1. PICK x : x = IF w.refresh THEN w.began ELSE r.refreshed
  OBVIOUS
<1>2. PICK s : s = [r EXCEPT !.version = w.version + 1, !.payload = w.payload, !.lease = 0,
                             !.retry = 0, !.refreshed = x]
  OBVIOUS
<1>3. Stored(r, w) = s
  BY <1>1, <1>2 DEF Stored
<1>4. /\ s.version = w.version + 1 /\ s.payload = w.payload /\ s.generation = r.generation
      /\ s.retry = 0 /\ RowShape(s)
  BY <1>2 DEF RowShape
<1> QED BY <1>3, <1>4

\* A save that the table refuses changes no row.
LEMMA RefusedKeeps ==
    ASSUME ApiInv, NEW w \in writes, Arrive(w), ~Saveable(row[w.account], w)
    PROVE  ApiInv' /\ row' = row
<1>1. WriteSound(w) /\ w.account \in Accounts
  BY DEF ApiInv, WriteSound
<1>2. row' = row
  BY <1>1 DEF Arrive, ApiInv, ApiType
<1>3. saved' = saved /\ writes' \subseteq writes /\ UNCHANGED <<chain, saved>>
  BY DEF Arrive
<1>4. CASE UNCHANGED <<pc, call, answer>>
  <2>1. Forth
    BY <1>3 DEF Forth, chain, ApiInv, ApiType
  <2> QED BY <1>2, <1>3, <1>4, <2>1, WorldKeeps
<1>5. CASE ~UNCHANGED <<pc, call, answer>>
  <2>1. PICK p \in Lambdas : call[p].account = w.account /\ Return(p, row[w.account].payload)
    BY <1>5 DEF Arrive, Defer
  <2>2. row[w.account].payload # Nothing => <<call[p].account, row[w.account].payload>> \in saved
    BY <1>1, <2>1 DEF ApiInv, RowSound, Known
  <2> QED BY <1>2, <1>3, <2>1, <2>2, ReturnKeeps
<1> QED BY <1>2, <1>4, <1>5

\* A save that the table takes: nobody who still runs has its lease, and what
\* others have read or sent is of an earlier version from now on.
LEMMA SavedKeeps ==
    ASSUME ApiInv, NEW w \in writes, Arrive(w), Saveable(row[w.account], w)
    PROVE  ApiInv'
<1>1. WriteSound(w) /\ w.account \in Accounts /\ RowShape(row[w.account]) /\ RowSound(w.account)
  BY DEF ApiInv, ApiType, WriteSound
<1>2. PICK u, r : u = w.account /\ r = row[u]
  OBVIOUS
<1>3. /\ row' = [row EXCEPT ![u] = Stored(row[u], w)] /\ saved' = saved \cup {<<u, w.payload>>}
      /\ writes' \subseteq writes /\ UNCHANGED chain
  BY <1>2 DEF Arrive
<1>4. /\ row'[u].version = w.version + 1 /\ row'[u].payload = w.payload
      /\ row'[u].generation = r.generation /\ row'[u].retry = 0 /\ RowShape(row'[u])
      /\ \A v \in Accounts \ {u} : row'[v] = row[v]
  <2>1. row'[u] = Stored(r, w) /\ RowShape(r)
    BY <1>1, <1>2, <1>3 DEF ApiInv, ApiType
  <2> QED BY <1>1, <1>2, <1>3, <2>1, StoredFields DEF ApiInv, ApiType
<1>5. r.version \in Nat /\ r.generation \in Nat /\ w.version = r.version /\ w.generation = r.generation
  BY <1>1, <1>2 DEF RowSound, Saveable
<1>6. \/ UNCHANGED <<pc, call, answer>>
      \/ \E p \in Lambdas : call[p].account = u /\ Return(p, w.payload)
  BY <1>2 DEF Arrive
<1>7. ASSUME NEW q \in Lambdas
      PROVE  pc'[q] = "idle" \/ (pc'[q] = pc[q] /\ call'[q] = call[q])
  BY <1>6 DEF Return, ApiInv, ApiType
<1>8. /\ Forth /\ now' = now /\ finalized' = finalized /\ "idle" \notin Working
      /\ now \in Nat /\ finalized \in Nat
  BY <1>3 DEF Forth, chain, ApiInv, ApiType, Working
<1>9. ApiType'
  <2>1. pc' \in [Lambdas -> Places] /\ call' = [q \in Lambdas |-> call'[q]]
        /\ \A q \in Lambdas : CallShape(call'[q])
    <3>1. CallShape(NoCall) /\ "idle" \in Places
      BY DEF CallShape, NoCall, Places
    <3> QED BY <1>6, <3>1 DEF ApiInv, ApiType, Return
  <2>2. row' = [v \in Accounts |-> row'[v]] /\ \A v \in Accounts : RowShape(row'[v])
    BY <1>3, <1>4 DEF ApiInv, ApiType
  <2> QED BY <1>8, <2>1, <2>2 DEF ApiType
<1>10. ASSUME NEW v \in Accounts  PROVE RowSound(v)'
  <2>1. CASE v # u
    <3>1. PICK d : d = row[v].payload
      OBVIOUS
    <3>2. Known(v, d)'
      BY <1>8, <3>1, KnownStays DEF ApiInv, RowSound
    <3> QED BY <1>4, <2>1, <3>1, <3>2 DEF ApiInv, RowSound
  <2>2. CASE v = u
    <3>1. Dates(w.payload.epoch, w.payload.cursor)'
      BY <1>1, <1>8, DatesStay DEF ApiInv, WriteSound
    <3>2. Known(u, w.payload)'
      BY <1>3, <3>1 DEF Known
    <3> QED BY <1>4, <1>5, <2>2, <3>2 DEF RowSound
  <2> QED BY <2>1, <2>2
<1>11. ASSUME NEW q \in Lambdas  PROVE CallSound(q)'
  <2>1. CASE pc'[q] = "idle"
    BY <2>1 DEF CallSound
  <2>2. CASE pc'[q] # "idle" /\ call[q].account # u
    <3>1. pc'[q] = pc[q] /\ call'[q] = call[q] /\ call[q].account \in Accounts
      BY <1>7, <2>2 DEF ApiInv, CallSound, Loaded
    <3>2. SameRow(call[q].account)
      BY <1>4, <2>2, <3>1 DEF SameRow
    <3> QED BY <1>8, <2>2, <3>1, <3>2, CallStays DEF ApiInv
  <2>3. CASE pc'[q] # "idle" /\ call[q].account = u
    <3>1. pc'[q] = pc[q] /\ call'[q] = call[q] /\ Loaded(q) /\ Forward(q) /\ Leased(q)
      BY <1>7, <2>3 DEF ApiInv, CallSound
    <3>2. Known(call[q].account, call[q].payload)'
      <4>1. PICK v, d : v = call[q].account /\ d = call[q].payload
        OBVIOUS
      <4>2. Known(v, d)'
        BY <1>8, <3>1, <4>1, KnownStays DEF Loaded, ApiInv
      <4> QED BY <3>1, <4>1, <4>2
    <3>3. call[q].version \in Nat /\ call[q].version <= r.version
      BY <1>2, <2>3, <3>1 DEF Loaded
    <3>4. call[q].version <= row'[u].version /\ call[q].version # row'[u].version
      BY <1>4, <1>5, <3>3
    <3>5. Loaded(q)'
      BY <1>8, <2>3, <3>1, <3>2, <3>4 DEF Loaded
    <3>6. Forward(q)'
      BY <1>8, <3>1 DEF Forward, Dates, NotOlder
    <3>7. Leased(q)'
      <4> SUFFICES ASSUME pc[q] \in Working
                   PROVE  /\ call[q].generation \in Nat
                          /\ call[q].generation <= row'[call[q].account].generation
                          /\ ~Live(q)'
                          /\ call[q].generation # row'[call[q].account].generation
        BY <3>1 DEF Leased
      <4>1. call[q].generation # w.generation
        BY <1>1, <1>2, <2>3 DEF WriteSound
      <4>2. call[q].generation \in Nat /\ call[q].generation <= r.generation
            /\ (call[q].generation < r.generation => ~Live(q))
        BY <1>2, <2>3, <3>1 DEF Leased
      <4>3. call[q].generation < r.generation
        BY <1>5, <4>1, <4>2
      <4>4. ~Live(q)'
        BY <1>8, <3>1, <4>2, <4>3 DEF Live
      <4> QED BY <1>4, <1>5, <2>3, <4>1, <4>2, <4>4
    <3> QED BY <3>5, <3>6, <3>7 DEF CallSound
  <2> QED BY <2>1, <2>2, <2>3
<1>12. ASSUME NEW q \in Lambdas, pc'[q] \in Working
       PROVE  pc[q] \in Working /\ call'[q] = call[q]
  BY <1>7, <1>8, <1>12
<1>13. ASSUME NEW v \in writes'  PROVE WriteSound(v)'
  <2>1. WriteSound(v) /\ v.account \in Accounts
    BY <1>3 DEF ApiInv, WriteSound
  <2>2. \A q \in Lambdas : pc'[q] \in Working /\ call'[q].account = v.account =>
          call'[q].generation # v.generation
    BY <1>12, <2>1 DEF WriteSound
  <2>3. CASE v.account # u
    <3>1. SameRow(v.account)
      BY <1>4, <2>1, <2>3 DEF SameRow
    <3> QED BY <1>8, <2>1, <2>2, <3>1, WriteStays DEF ApiInv
  <2>4. CASE v.account = u
    <3>1. v.version \in Nat /\ v.version <= r.version /\ v.generation <= r.generation
      BY <1>2, <2>1, <2>4 DEF WriteSound
    <3>2. v.version <= row'[u].version /\ v.version # row'[u].version
      BY <1>4, <1>5, <3>1
    <3>3. Dates(v.payload.epoch, v.payload.cursor)'
      BY <1>8, <2>1, DatesStay DEF WriteSound, ApiInv
    <3> QED BY <1>4, <2>1, <2>2, <2>4, <3>1, <3>2, <3>3 DEF WriteSound
  <2> QED BY <2>3, <2>4
<1>14. Generations'
  BY <1>12 DEF ApiInv, Generations
<1>15. ServedWasSaved'
  <2>1. CASE UNCHANGED <<pc, call, answer>>
    BY <1>3, <2>1 DEF ApiInv, ServedWasSaved
  <2>2. CASE \E p \in Lambdas : call[p].account = u /\ Return(p, w.payload)
    <3>1. answer' = Nothing \/ answer' = [account |-> u, payload |-> w.payload]
      BY <2>2 DEF Return
    <3> QED BY <1>3, <3>1 DEF ServedWasSaved
  <2> QED BY <1>6, <2>1, <2>2
<1> QED BY <1>9, <1>10, <1>11, <1>13, <1>14, <1>15 DEF ApiInv

-----------------------------------------------------------------------------
\* Nothing is stored or under way at first.
LEMMA ApiInit == Init => ApiInv
<1> SUFFICES ASSUME Init  PROVE ApiInv
  OBVIOUS
<1>1. /\ RowShape(NewRow) /\ NewRow.version = 0 /\ NewRow.payload = Nothing
      /\ NewRow.generation = 0 /\ NewRow.retry = 0
  BY DEF RowShape, NewRow
<1>2. CallShape(NoCall)
  BY DEF CallShape, NoCall
<1>3. /\ now \in Nat /\ finalized \in Nat
  BY ScoreApiAssumption DEF Init
<1>4. /\ \A u \in Accounts : row[u] = NewRow
      /\ \A p \in Lambdas : pc[p] = "idle" /\ call[p] = NoCall
  BY DEF Init
<1>5. "idle" \in Places /\ "idle" \notin Working
  BY DEF Places, Working
<1>6. ApiType
  BY <1>1, <1>2, <1>3, <1>4, <1>5 DEF ApiType, Init
<1>7. \A u \in Accounts : RowSound(u)
  BY <1>1, <1>4 DEF RowSound, Known
<1>8. /\ \A p \in Lambdas : CallSound(p)
      /\ \A w \in writes : WriteSound(w)
      /\ Generations /\ ServedWasSaved
  BY <1>4, <1>5 DEF CallSound, Generations, ServedWasSaved, Init
<1> QED BY <1>6, <1>7, <1>8 DEF ApiInv

\* Every step keeps the invariant.
LEMMA ApiNext == ApiInv /\ [Next]_vars => ApiInv'
<1> SUFFICES ASSUME ApiInv, [Next]_vars  PROVE ApiInv'
  OBVIOUS
<1>1. now \in Nat /\ finalized \in Nat
  BY DEF ApiInv, ApiType
<1>2. CASE Tick \/ Finalize \/ Reorganise
  <2>1. Forth /\ UNCHANGED <<row, writes, saved, pc, call, answer>>
    BY <1>1, <1>2 DEF Tick, Finalize, Reorganise, Forth
  <2> QED BY <2>1, WorldKeeps
<1>3. ASSUME NEW w \in writes, Arrive(w)  PROVE ApiInv'
  BY <1>3, SavedKeeps, RefusedKeeps
<1>4. ASSUME NEW p \in Lambdas, Load(p) \/ Acquire(p) \/ SendSave(p) \/ Anchor(p)  PROVE ApiInv'
  BY <1>4, LoadKeeps, AcquireKeeps, SendSaveKeeps, AnchorKeeps
<1>5. ASSUME NEW p \in Lambdas,
             AcquireLost(p) \/ ReserveDenied(p) \/ NoAnchor(p) \/ AnchorChanged(p) \/ TimeOut(p)
      PROVE  ApiInv'
  BY <1>5, DefersKeep
<1>6. ASSUME NEW p \in Lambdas, Reserve(p) \/ Confirm(p) \/ Mature(p) \/ Visible(p)  PROVE ApiInv'
  BY <1>6, ChecksKeep, ReplaysKeep
<1>7. CASE UNCHANGED vars
  <2>1. Forth /\ UNCHANGED <<row, writes, saved, pc, call, answer>>
    BY <1>1, <1>7 DEF vars, Forth
  <2> QED BY <2>1, WorldKeeps
<1> QED BY <1>2, <1>3, <1>4, <1>5, <1>6, <1>7 DEF Next

\* The rows, the invocations and the saves under way always fit together.
THEOREM ApiInvHolds == Spec => []ApiInv
BY ApiInit, ApiNext, PTL DEF Spec

\* What a caller of calculate receives was in the table, whatever saves were
\* lost, late or repeated.
THEOREM ServedAlwaysSaved == Spec => []ServedWasSaved
<1>1. ApiInv => ServedWasSaved
  BY DEF ApiInv
<1> QED BY <1>1, ApiInvHolds, PTL

\* Two invocations that still run never replay one account at a time, for all
\* clocks that the cooldown allows for.
THEOREM OneLiveReplay == Spec => []OneReplayAtATime
<1>1. ApiInv => OneReplayAtATime
  <2> SUFFICES ASSUME ApiInv, NEW p \in Lambdas, NEW q \in Lambdas, p # q,
                      Replaying(p), Replaying(q), call[p].account = call[q].account
               PROVE  FALSE
    BY DEF OneReplayAtATime
  <2>1. pc[p] \in Working /\ pc[q] \in Working /\ Live(p) /\ Live(q)
    BY DEF Replaying, Working
  <2>2. Leased(p) /\ Leased(q) /\ Loaded(p)
    BY <2>1 DEF ApiInv, CallSound, Working
  <2>3. PICK g : g = row[call[p].account].generation
    OBVIOUS
  <2>4. g \in Nat
    BY <2>2, <2>3 DEF ApiInv, RowSound, Loaded
  <2>5. /\ call[p].generation \in Nat /\ call[p].generation <= g /\ ~(call[p].generation < g)
        /\ call[q].generation \in Nat /\ call[q].generation <= g /\ ~(call[q].generation < g)
    BY <2>1, <2>2, <2>3 DEF Leased
  <2>6. call[p].generation = call[q].generation
    BY <2>4, <2>5
  <2> QED BY <2>1, <2>6 DEF ApiInv, Generations
<1> QED BY <1>1, ApiInvHolds, PTL

\* What the conditions of acquire and save allow to happen to a row.
RowForward ==
    \A u \in Accounts : row[u].payload # Nothing =>
        /\ row'[u].payload # Nothing
        /\ row'[u].version >= row[u].version
        /\ row'[u].payload.epoch >= row[u].payload.epoch
        /\ row'[u].payload.cursor >= row[u].payload.cursor

\* A step replaces a row only by one of a later version, and not of an earlier
\* day or block.
LEMMA RowStep == ApiInv /\ [Next]_vars => [RowForward]_row
<1> SUFFICES ASSUME ApiInv, Next, row' # row,
                    NEW u \in Accounts, row[u].payload # Nothing
             PROVE  /\ row'[u].payload # Nothing
                    /\ row'[u].version >= row[u].version
                    /\ row'[u].payload.epoch >= row[u].payload.epoch
                    /\ row'[u].payload.cursor >= row[u].payload.cursor
  BY DEF RowForward, vars
<1>1. PICK r : r = row[u]
  OBVIOUS
<1>2. r.version \in Nat /\ r.payload.epoch \in Int /\ r.payload.cursor \in Int /\ RowShape(r)
  BY <1>1 DEF ApiInv, ApiType, RowSound, Known, Dates
<1>3. (\E w \in writes : Arrive(w)) \/ (\E p \in Lambdas : Acquire(p))
  BY DEF Next, Tick, Finalize, Reorganise, Load, AcquireLost, Reserve, ReserveDenied, Anchor,
         NoAnchor, Mature, Visible, Confirm, AnchorChanged, SendSave, TimeOut
<1>4. ASSUME row'[u].version = r.version, row'[u].payload = r.payload
      PROVE  /\ row'[u].payload # Nothing /\ row'[u].version >= row[u].version
             /\ row'[u].payload.epoch >= row[u].payload.epoch
             /\ row'[u].payload.cursor >= row[u].payload.cursor
  BY <1>1, <1>2, <1>4
<1>5. ASSUME NEW w \in writes, Arrive(w)
      PROVE  /\ row'[u].payload # Nothing /\ row'[u].version >= row[u].version
             /\ row'[u].payload.epoch >= row[u].payload.epoch
             /\ row'[u].payload.cursor >= row[u].payload.cursor
  <2>1. WriteSound(w) /\ Saveable(row[w.account], w)
    BY <1>5, RefusedKeeps DEF ApiInv
  <2>2. row' = [row EXCEPT ![w.account] = Stored(row[w.account], w)]
    BY <1>5, <2>1 DEF Arrive
  <2>3. CASE w.account # u
    BY <1>1, <1>4, <2>2, <2>3 DEF ApiInv, ApiType
  <2>4. CASE w.account = u
    <3>1. row'[u] = Stored(r, w)
      BY <1>1, <2>2, <2>4 DEF ApiInv, ApiType
    <3>2. row'[u].version = w.version + 1 /\ row'[u].payload = w.payload
      BY <1>2, <3>1, StoredFields
    <3>3. w.version = r.version
      BY <1>1, <2>1, <2>4 DEF Saveable
    <3>4. /\ w.payload # Nothing /\ w.payload.epoch \in Int /\ w.payload.cursor \in Int
          /\ r.payload.epoch <= w.payload.epoch /\ r.payload.cursor <= w.payload.cursor
      BY <1>1, <2>1, <2>4, <3>3 DEF WriteSound, Dates, NotOlder
    <3> QED BY <1>1, <1>2, <3>2, <3>3, <3>4
  <2> QED BY <2>3, <2>4
<1>6. ASSUME NEW p \in Lambdas, Acquire(p)
      PROVE  row'[u].version = r.version /\ row'[u].payload = r.payload
  <2>1. PICK v, e, t : v = call[p].account /\ e = call[p].epoch /\ t = call[p].time
    OBVIOUS
  <2>2. row' = [row EXCEPT ![v] = Acquired(row[v], e, t)]
    BY <1>6, <2>1 DEF Acquire
  <2>3. Acquired(r, e, t).version = r.version /\ Acquired(r, e, t).payload = r.payload
    BY <1>2 DEF Acquired, RowShape
  <2> QED BY <1>1, <2>2, <2>3 DEF ApiInv, ApiType
<1> QED BY <1>3, <1>4, <1>5, <1>6

\* No save, however late or often it arrives, replaces a row by an earlier one.
THEOREM RowsMoveForward == Spec => RowNeverRegresses
<1>1. ApiInv /\ [Next]_vars => [RowForward]_row
  BY RowStep
<1> QED BY <1>1, ApiInvHolds, PTL DEF Spec, RowNeverRegresses, RowForward

-----------------------------------------------------------------------------
(* The replay of one account *)

\* One log of apply_transfers, and the equation of its recursive function.
PostOf(ts, mine, u, rates, dec, k, a) ==
    IF k \in mine /\ ts[k].value # 0
    THEN apply_transfer(a, ts[k].block, IF ts[k].to = u THEN ts[k].value ELSE 0,
                        IF ts[k].from = u THEN ts[k].value ELSE 0, rates, dec)
    ELSE a

Posts(a, ts, mine, u, rates, dec, n, f) ==
    f = [i \in 0 .. n |-> IF i = 0 THEN a ELSE PostOf(ts, mine, u, rates, dec, i, f[i - 1])]

LEMMA PostsAt ==
    ASSUME NEW a, NEW ts, NEW mine, NEW u, NEW rates, NEW dec, NEW n \in Nat, NEW f,
           Posts(a, ts, mine, u, rates, dec, n, f), NEW i \in 0 .. n
    PROVE  f[i] = IF i = 0 THEN a ELSE PostOf(ts, mine, u, rates, dec, i, f[i - 1])
<1> DEFINE F(j) == IF j = 0 THEN a ELSE PostOf(ts, mine, u, rates, dec, j, f[j - 1])
<1>1. f = [j \in 0 .. n |-> F(j)]
  BY DEF Posts
<1> HIDE DEF F
<1>2. f[i] = F(i)
  BY <1>1
<1> QED BY <1>2 DEF F

LEMMA PostsStart ==
    ASSUME NEW a, NEW ts, NEW mine, NEW u, NEW rates, NEW dec, NEW n \in Nat, NEW f,
           Posts(a, ts, mine, u, rates, dec, n, f)
    PROVE  f[0] = a
<1> DEFINE F(j) == IF j = 0 THEN a ELSE PostOf(ts, mine, u, rates, dec, j, f[j - 1])
<1>1. f = [j \in 0 .. n |-> F(j)]
  BY DEF Posts
<1>2. F(0) = a
  OBVIOUS
<1>3. 0 \in 0 .. n
  OBVIOUS
<1> HIDE DEF F
<1> QED BY <1>1, <1>2, <1>3

LEMMA PostsExist ==
    ASSUME NEW a, NEW ts, NEW mine, NEW u, NEW rates, NEW dec, NEW n \in Nat
    PROVE  \E f : Posts(a, ts, mine, u, rates, dec, n, f)
<1> DEFINE T == {m \in Nat : ~ \E f : Posts(a, ts, mine, u, rates, dec, m, f)}
<1> SUFFICES ASSUME T # {} PROVE FALSE
  OBVIOUS
<1>1. PICK m \in T : \A x \in T : m <= x
  <2>1. T \subseteq Nat
    OBVIOUS
  <2> HIDE DEF T
  <2> QED BY <2>1, SmallestNat
<1>2. m \in Nat /\ ~ \E f : Posts(a, ts, mine, u, rates, dec, m, f)
  OBVIOUS
<1>3. m # 0
  <2> DEFINE f == [i \in 0 .. 0 |-> a]
             F(i) == IF i = 0 THEN a ELSE PostOf(ts, mine, u, rates, dec, i, f[i - 1])
  <2>1. \A i \in 0 .. 0 : F(i) = a
    OBVIOUS
  <2> HIDE DEF F
  <2>2. f = [i \in 0 .. 0 |-> F(i)]
    BY <2>1
  <2>3. Posts(a, ts, mine, u, rates, dec, 0, f)
    BY <2>2 DEF Posts, F
  <2> HIDE DEF f
  <2> QED BY <1>2, <2>3
<1>4. m - 1 \in Nat /\ m - 1 \notin T
  <2> HIDE DEF T
  <2> QED BY <1>1, <1>2, <1>3
<1>5. PICK f : Posts(a, ts, mine, u, rates, dec, m - 1, f)
  BY <1>4
<1> DEFINE q == [i \in 0 .. m |-> IF i = m THEN PostOf(ts, mine, u, rates, dec, m, f[m - 1]) ELSE f[i]]
           F(i) == IF i = 0 THEN a ELSE PostOf(ts, mine, u, rates, dec, i, q[i - 1])
<1>6. ASSUME NEW i \in 0 .. m PROVE q[i] = F(i)
  <2>1. CASE i = m
    <3>1. m - 1 \in 0 .. m /\ m - 1 # m
      BY <1>2, <1>3
    <3> QED BY <1>3, <2>1, <3>1
  <2>2. CASE i # m
    <3>1. i \in 0 .. m - 1
      BY <1>2, <2>2
    <3>2. f[i] = IF i = 0 THEN a ELSE PostOf(ts, mine, u, rates, dec, i, f[i - 1])
      <4> DEFINE F0(j) == IF j = 0 THEN a ELSE PostOf(ts, mine, u, rates, dec, j, f[j - 1])
      <4>1. f = [j \in 0 .. m - 1 |-> F0(j)]
        BY <1>5 DEF Posts
      <4> HIDE DEF F0
      <4>2. f[i] = F0(i)
        BY <3>1, <4>1
      <4> QED BY <4>2 DEF F0
    <3>3. i # 0 => i - 1 \in 0 .. m /\ i - 1 # m
      BY <1>2, <2>2, <3>1
    <3> QED BY <2>2, <3>1, <3>2, <3>3
  <2> QED BY <2>1, <2>2
<1>7. q = [i \in 0 .. m |-> q[i]]
  OBVIOUS
<1> HIDE DEF q, F
<1>8. q = [i \in 0 .. m |-> F(i)]
  BY <1>6, <1>7
<1>9. Posts(a, ts, mine, u, rates, dec, m, q)
  BY <1>8 DEF Posts, F
<1> QED BY <1>2, <1>9

LEMMA PostsSolve ==
    ASSUME NEW a, NEW ts, IsHistory(ts), NEW mine, NEW u, NEW rates, NEW dec
    PROVE  Posts(a, ts, mine, u, rates, dec, Len(ts), apply_transfers(a, ts, mine, u, rates, dec))
<1>1. apply_transfers(a, ts, mine, u, rates, dec) =
        CHOOSE f : Posts(a, ts, mine, u, rates, dec, Len(ts), f)
  BY DEF apply_transfers, Posts, PostOf
<1>2. \E f : Posts(a, ts, mine, u, rates, dec, Len(ts), f)
  BY HistoryLen, PostsExist
<1> QED BY <1>1, <1>2

\* One log of the account's own.
LEMMA PostFollows ==
    ASSUME NEW ts, IsHistory(ts), NEW u, NEW h, Held(h), NEW o \in Int, NEW c \in Nat, NEW hi \in Nat,
           Offset(h, ts, u, o, c, hi), NEW rates, RatesOk(rates), NEW dec \in Nat,
           NEW mine, mine = erc20_transfers_for_accounts(ts, {u}, c + 1, hi),
           NEW K, NEW k, IsNext(ts, K, k), ts[k].block \in c + 1 .. hi,
           NEW a, Follows(a, h, ts, u, o, rates, dec, c, K),
           NEW n, n = PostOf(ts, mine, u, rates, dec, k, a)
    PROVE  Follows(n, h, ts, u, o, rates, dec, c, K \cup {k})
<1>0. k \in 1 .. Len(ts) /\ c <= ts[k].block /\ ts[k].block <= hi
  BY HistoryAt DEF IsNext
<1>1. PICK t : t = ts[k]
  OBVIOUS
<1>2. /\ a.last \in Nat /\ a.balance \in Int /\ a.last <= t.block
      /\ At(a, h, rates, dec, a.last) /\ Level(h, a.last, t.block, a.balance)
      /\ t.block \in Nat /\ t.value \in Nat
  BY <1>0, <1>1, FollowsReady
<1>3. k \in mine <=> t.from = u \/ t.to = u
  BY <1>0, <1>1 DEF erc20_transfers_for_accounts
<1>4. CASE k \in mine /\ t.value # 0
  <2>1. PICK in, out : in = (IF t.to = u THEN t.value ELSE 0)
                       /\ out = (IF t.from = u THEN t.value ELSE 0)
    BY Zenon
  <2>2. in \in Nat /\ out \in Nat
    BY <1>2, <2>1
  <2>3. n = apply_transfer(a, t.block, in, out, rates, dec)
    BY <1>1, <1>4, <2>1 DEF PostOf
  <2>4. At(n, h, rates, dec, t.block) /\ n.last = t.block /\ n.balance = a.balance + (in - out)
    <3>1. PICK b : b = t.block
      OBVIOUS
    <3>2. /\ Held(h) /\ dec \in Nat /\ RatesOk(rates) /\ b \in Nat /\ in \in Nat /\ out \in Nat
          /\ a.last \in Nat /\ a.balance \in Int /\ a.last <= b
          /\ At(a, h, rates, dec, a.last) /\ Level(h, a.last, b, a.balance)
          /\ n = apply_transfer(a, b, in, out, rates, dec)
      BY <1>2, <2>2, <2>3, <3>1
    <3>3. At(n, h, rates, dec, b) /\ n.last = b /\ n.balance = a.balance + (in - out)
      BY ONLY <3>2, Posted
    <3> QED BY <3>1, <3>3
  <2>5. in - out = delta(t, u)
    BY <2>1 DEF delta
  <2>6. n.last = ts[k].block /\ At(n, h, rates, dec, ts[k].block)
        /\ n.balance = a.balance + delta(ts[k], u)
    BY <1>1, <2>4, <2>5
  <2> QED BY <1>0, <2>6, FollowsNext
<1>5. CASE ~(k \in mine /\ t.value # 0)
  <2>1. n = a
    BY <1>1, <1>5 DEF PostOf
  <2>2. delta(ts[k], u) = 0
    BY <1>1, <1>2, <1>3, <1>5 DEF delta
  <2> QED BY <1>0, <2>1, <2>2, FollowsNext
<1> QED BY <1>4, <1>5

\* The logs between two blocks take the account from one to the other.
LEMMA PostsFollow ==
    ASSUME NEW ts, IsHistory(ts), NEW u, NEW h, Held(h), NEW o \in Int, NEW c \in Nat, NEW hi \in Nat,
           c <= hi, Offset(h, ts, u, o, c, hi), NEW rates, RatesOk(rates), NEW dec \in Nat,
           NEW mine, mine = erc20_transfers_for_accounts(ts, {u}, c + 1, hi),
           NEW a, Exact(a, h, rates, dec, c),
           NEW n, n = apply_transfers(a, ts, mine, u, rates, dec)[Len(ts)]
    PROVE  Follows(n, h, ts, u, o, rates, dec, c, Cut(ts, hi))
<1>1. PICK f, lo : f = apply_transfers(a, ts, mine, u, rates, dec) /\ lo = c + 1
  BY Zenon
<1>2. Posts(a, ts, mine, u, rates, dec, Len(ts), f) /\ Len(ts) \in Nat /\ lo \in Nat
  BY <1>1, PostsSolve, HistoryLen
<1> DEFINE Good(k) == Follows(f[k], h, ts, u, o, rates, dec, c, Upto(ts, lo, hi, k))
           T == {k \in 0 .. Len(ts) : ~Good(k)}
<1>3. Good(0)
  <2>1. f[0] = a
    BY <1>2, PostsStart
  <2>2. Follows(a, h, ts, u, o, rates, dec, c, Cut(ts, c))
    BY FollowsStart
  <2>3. Upto(ts, lo, hi, 0) = Cut(ts, c)
    BY <1>1, UptoEnds
  <2> QED BY <2>1, <2>2, <2>3
<1>4. ASSUME NEW k \in 1 .. Len(ts), Good(k - 1)  PROVE Good(k)
  <2>1. PICK p, q, K : p = f[k - 1] /\ q = f[k] /\ K = Upto(ts, lo, hi, k - 1)
    BY Zenon
  <2>2. q = PostOf(ts, mine, u, rates, dec, k, p)
    <3>1. k \in 0 .. Len(ts) /\ k # 0
      BY <1>2
    <3>2. f[k] = PostOf(ts, mine, u, rates, dec, k, f[k - 1])
      BY <1>2, <3>1, PostsAt
    <3> QED BY <2>1, <3>2
  <2>3. Follows(p, h, ts, u, o, rates, dec, c, K)
    BY <1>4, <2>1
  <2>4. IF ts[k].block \in lo .. hi
        THEN IsNext(ts, K, k) /\ Upto(ts, lo, hi, k) = K \cup {k}
        ELSE Upto(ts, lo, hi, k) = K
    BY <1>2, <2>1, UptoNext
  <2>5. CASE ts[k].block \in lo .. hi
    <3>1. IsNext(ts, K, k) /\ ts[k].block \in c + 1 .. hi
      BY <1>1, <2>4, <2>5
    <3>2. Follows(q, h, ts, u, o, rates, dec, c, K \cup {k})
      BY <2>2, <2>3, <3>1, PostFollows
    <3> QED BY <2>1, <2>4, <2>5, <3>2
  <2>6. CASE ts[k].block \notin lo .. hi
    <3>1. k \notin mine
      BY <1>1, <2>6 DEF erc20_transfers_for_accounts
    <3>2. q = p
      BY <2>2, <3>1 DEF PostOf
    <3> QED BY <2>1, <2>3, <2>4, <2>6, <3>2
  <2> QED BY <2>5, <2>6
<1>5. Good(Len(ts))
  <2> SUFFICES ASSUME ~Good(Len(ts))  PROVE FALSE
    OBVIOUS
  <2> HIDE DEF Good
  <2>1. T \subseteq Nat /\ T # {}
    <3>1. Len(ts) \in T
      BY <1>2
    <3>2. 0 .. Len(ts) \subseteq Nat
      OBVIOUS
    <3> QED BY <3>1, <3>2
  <2>2. PICK m \in T : \A x \in T : m <= x
    <3> HIDE DEF T
    <3> QED BY <2>1, SmallestNat
  <2>3. m \in 0 .. Len(ts) /\ ~Good(m) /\ m # 0
    BY <1>3
  <2>4. m \in 1 .. Len(ts) /\ m - 1 \in 0 .. Len(ts) /\ ~(m <= m - 1)
    BY <1>2, <2>3
  <2>5. Good(m - 1)
    BY <2>2, <2>4
  <2> HIDE DEF T
  <2> QED BY <1>4, <2>3, <2>4, <2>5
<1>6. Upto(ts, lo, hi, Len(ts)) = Cut(ts, hi)
  BY <1>1, UptoEnds
<1> QED BY <1>1, <1>5, <1>6

-----------------------------------------------------------------------------
(* One token of an account *)

\* The assumptions on a token, and its rates at a block.
LEMMA TokenIs ==
    ASSUME NEW i \in DOMAIN Tokens
    PROVE  /\ IsHistory(Transfers[Tokens[i]]) /\ Decimals[Tokens[i]] \in Nat
           /\ Tokens[i] \in ToSet(Tokens)
<1>1. Tokens[i] \in ToSet(Tokens)
  BY DEF ToSet
<1> QED BY <1>1, ScoreChainAssumption

\* The first rates of a history are one.
LEMMA RatesPrefix ==
    ASSUME NEW rs, RatesOk(rs), NEW n \in 0 .. Len(rs), NEW qs, qs = SubSeq(rs, 1, n)
    PROVE  RatesOk(qs) /\ \A k \in 1 .. n : qs[k] = rs[k]
<1> DEFINE R == [from : Nat, rate : Nat]
<1>1. Len(rs) \in Nat /\ n \in Nat /\ n <= Len(rs) /\ rs \in Seq(R)
  BY RatesLen DEF RatesOk
<1> HIDE DEF R
<1>2. \A k \in 1 .. n : rs[k] \in R
  <2>1. \A k \in 1 .. n : k \in 1 .. Len(rs)
    BY <1>1
  <2> QED BY <1>1, <2>1
<1>3. /\ qs \in Seq(R) /\ Len(qs) = (IF 1 <= n THEN n - 1 + 1 ELSE 0)
      /\ \A k \in 1 .. n - 1 + 1 : qs[k] = rs[1 + k - 1]
  BY <1>1, <1>2, SubSeqProperties
<1>4. Len(qs) = n
  BY <1>1, <1>3
<1>5. \A k \in 1 .. n : qs[k] = rs[k]
  <2> SUFFICES ASSUME NEW k \in 1 .. n  PROVE qs[k] = rs[k]
    OBVIOUS
  <2>1. k \in 1 .. n - 1 + 1 /\ 1 + k - 1 = k
    BY <1>1
  <2> QED BY <1>3, <2>1
<1>6. \A j, k \in 1 .. Len(qs) : j < k => qs[j].from < qs[k].from
  <2> SUFFICES ASSUME NEW j \in 1 .. Len(qs), NEW k \in 1 .. Len(qs), j < k
               PROVE  qs[j].from < qs[k].from
    OBVIOUS
  <2>1. j \in 1 .. Len(rs) /\ k \in 1 .. Len(rs) /\ qs[j] = rs[j] /\ qs[k] = rs[k]
    BY <1>1, <1>4, <1>5
  <2> QED BY <2>1 DEF RatesOk
<1>7. RatesOk(qs)
  BY <1>3, <1>6 DEF RatesOk, R
<1> QED BY <1>5, <1>7

LEMMA ScoredOk ==
    ASSUME NEW i \in DOMAIN Tokens, NEW b
    PROVE  RatesOk(ScoredAt(Tokens[i], b))
<1>1. PICK rs : rs = Rates[Tokens[i]]
  OBVIOUS
<1>2. rs \in Seq([from : Nat, rate : Nat]) /\ validate_rates(rs)
  BY <1>1, TokenIs, ScoreChainAssumption
<1>3. RatesOk(rs) /\ Len(rs) \in Nat
  BY <1>2, Ascending, RatesLen
<1>4. PICK S : S = {k \in 1 .. Len(rs) : rs[k].from <= b}
  OBVIOUS
<1>5. S \subseteq 1 .. Len(rs) /\ IsFiniteSet(1 .. Len(rs)) /\ Cardinality(1 .. Len(rs)) = Len(rs)
  <2>1. S \subseteq 1 .. Len(rs)
    BY <1>4
  <2>2. IsFiniteSet(1 .. Len(rs)) /\ Cardinality(1 .. Len(rs)) = Len(rs)
    <3>1. PICK n : n = Len(rs)
      OBVIOUS
    <3>2. n \in Nat
      BY <1>3, <3>1
    <3>3. IsFiniteSet(1 .. n) /\ Cardinality(1 .. n) = n
      BY ONLY <3>2, FS_Interval
    <3> QED BY <3>1, <3>3
  <2> QED BY <2>1, <2>2
<1>6. Cardinality(S) \in Nat /\ Cardinality(S) <= Len(rs)
  <2>1. IsFiniteSet(S) /\ Cardinality(S) <= Cardinality(1 .. Len(rs))
    BY <1>5, FS_Subset
  <2> QED BY <1>5, <2>1, FS_CardinalityType
<1>7. PICK n : n = Cardinality(S)
  OBVIOUS
<1>8. n \in 0 .. Len(rs)
  BY <1>3, <1>6, <1>7
<1>9. ScoredAt(Tokens[i], b) = SubSeq(rs, 1, n)
  BY <1>1, <1>4, <1>7 DEF ScoredAt
<1> QED BY <1>3, <1>8, <1>9, RatesPrefix

\* What an account held on a chain, block by block.
HeldOn(g, i, u) == Nets(HistoryOn(g, Tokens[i]), u)

\* Both chains have histories.
LEMMA HistoryOk ==
    ASSUME NEW i \in DOMAIN Tokens, NEW g \in {0, 1}
    PROVE  IsHistory(HistoryOn(g, Tokens[i]))
<1>1. PICK ts : ts = Transfers[Tokens[i]]
  OBVIOUS
<1>2. IsHistory(ts) /\ ForkBlock \in Nat
  BY <1>1, TokenIs, ScoreChainAssumption
<1>3. PICK qs : qs = SubSeq(ts, 1, Cardinality({k \in 1 .. Len(ts) : ts[k].block < ForkBlock}))
  OBVIOUS
<1>4. IsHistory(qs)
  BY <1>2, <1>3, ForkedHistory
<1>5. HistoryOn(g, Tokens[i]) = IF g = 0 THEN ts ELSE qs
  BY <1>1, <1>3 DEF HistoryOn, Shared
<1> QED BY <1>2, <1>4, <1>5

\* Chains on which a block has the same hash have the same history until then.
LEMMA SameHash ==
    ASSUME NEW i \in DOMAIN Tokens, NEW g \in {0, 1}, NEW f \in {0, 1}, NEW c \in Nat,
           HashOn(g, c) = HashOn(f, c), NEW u
    PROVE  \A b \in 0 .. c : HeldOn(g, i, u)[b] = HeldOn(f, i, u)[b]
<1>1. CASE g = f
  BY <1>1
<1>2. CASE g # f
  <2>1. PICK ts : ts = Transfers[Tokens[i]]
    OBVIOUS
  <2>2. IsHistory(ts) /\ ForkBlock \in Nat
    BY <2>1, TokenIs, ScoreChainAssumption
  <2>3. PICK qs : qs = SubSeq(ts, 1, Cardinality({k \in 1 .. Len(ts) : ts[k].block < ForkBlock}))
    OBVIOUS
  <2>4. c < ForkBlock
    BY <1>2, <2>2 DEF HashOn
  <2>5. IsHistory(qs) /\ SameUntil(ts, qs, c)
    BY <2>2, <2>3, <2>4, ForkedHistory
  <2>6. \A b \in 0 .. c : net(ts, u, b) = net(qs, u, b) /\ b \in Nat
    BY <2>2, <2>5, SameNets
  <2>7. HistoryOn(0, Tokens[i]) = ts /\ HistoryOn(1, Tokens[i]) = qs
    BY <2>1, <2>3 DEF HistoryOn, Shared
  <2>8. \A b \in 0 .. c : HeldOn(0, i, u)[b] = HeldOn(1, i, u)[b]
    BY <2>6, <2>7 DEF HeldOn, Nets
  <2> QED BY <1>2, <2>8
<1> QED BY <1>1, <1>2

\* The least of the blocks a replay may start at.
LEMMA StartIs ==
    ASSUME NEW rates, RatesOk(rates), NEW target \in Nat, starting_blocks(rates, target) # {},
           NEW b, b = Min(starting_blocks(rates, target))
    PROVE  /\ b \in Nat /\ b < target
           /\ \E j \in 1 .. Len(rates) : rates[j].from = b
           /\ \A i \in 1 .. Len(rates) : rates[i].from < b => rates[i].rate = 0
<1>1. PICK S : S = starting_blocks(rates, target)
  OBVIOUS
<1>2. DOMAIN rates = 1 .. Len(rates)
  BY DEF RatesOk
<1>3. ASSUME NEW x \in S
      PROVE  x \in Nat /\ x < target /\ \E j \in 1 .. Len(rates) : rates[j].from = x
  <2>1. PICK q \in ToSet(rates) : q.from < target /\ x = q.from
    BY <1>1, <1>3 DEF starting_blocks
  <2>2. PICK j \in 1 .. Len(rates) : q = rates[j]
    BY <1>2, <2>1 DEF ToSet
  <2> QED BY <2>1, <2>2, RatePoint
<1>4. ASSUME NEW i \in 1 .. Len(rates), rates[i].rate # 0, rates[i].from < target
      PROVE  rates[i].from \in S
  <2>1. rates[i] \in ToSet(rates)
    BY <1>2, <1>4 DEF ToSet
  <2> QED BY <1>1, <1>4, <2>1 DEF starting_blocks
<1>5. S \subseteq Nat /\ S # {}
  BY <1>1, <1>3
<1>6. \E x \in S : \A y \in S : x <= y
  BY <1>5, SmallestNat
<1>7. b \in S /\ \A y \in S : b <= y
  BY <1>1, <1>6 DEF Min
<1>8. b \in Nat /\ b < target /\ \E j \in 1 .. Len(rates) : rates[j].from = b
  BY <1>3, <1>7
<1>9. ASSUME NEW i \in 1 .. Len(rates), rates[i].from < b  PROVE rates[i].rate = 0
  <2>1. rates[i].from \in Nat
    BY RatePoint
  <2>2. rates[i].from < target /\ ~(b <= rates[i].from)
    BY <1>8, <1>9, <2>1
  <2> QED BY <1>4, <1>7, <2>2
<1> QED BY <1>8, <1>9

\* Without one nothing was earned.
LEMMA NothingStarted ==
    ASSUME NEW h, Held(h), NEW rates, RatesOk(rates), NEW dec \in Nat, NEW target \in Nat,
           starting_blocks(rates, target) = {}
    PROVE  Total(Worths(h, rates, dec, target), 1 .. Len(rates)) = 0
<1>1. DOMAIN rates = 1 .. Len(rates)
  BY DEF RatesOk
<1>2. ASSUME NEW i \in 1 .. Len(rates), rates[i].rate # 0  PROVE ~(rates[i].from < target)
  <2>1. rates[i] \in ToSet(rates)
    BY <1>1 DEF ToSet
  <2> QED BY <1>2, <2>1 DEF starting_blocks
<1>3. ~contributes_at(rates, target)
  <2> SUFFICES ASSUME NEW i \in 1 .. Len(rates), rates[i].rate # 0
               PROVE  ~(rates[i].from <
                          (IF i < Len(rates) THEN lesser(rates[i + 1].from, target) ELSE target))
    BY DEF contributes_at, ContributingAt
  <2>1. rates[i].from \in Nat /\ Len(rates) \in Nat
    BY RatePoint, RatesLen
  <2>2. i < Len(rates) => rates[i + 1].from \in Nat
    <3>1. i < Len(rates) => i + 1 \in 1 .. Len(rates)
      BY <2>1
    <3> QED BY <3>1, RatePoint
  <2> QED BY <1>2, <2>1, <2>2 DEF lesser
<1> QED BY <1>3, NothingEarned

\* A stored rate history that validate_checkpoint accepts has only got longer.
LEMMA ValidLonger ==
    ASSUME NEW c, RatesOk(c.rates), NEW rates, RatesOk(rates), validate_checkpoint(c, rates)
    PROVE  Longer(c.rates, rates, c.cursor)
<1>1. PICK s, n : s = c.rates /\ n = Len(s)
  BY Zenon
<1>2. RatesOk(s) /\ n \in Nat /\ Len(rates) \in Nat
  BY <1>1, RatesLen
<1>3. n <= Len(rates) /\ SubSeq(s, 1, n) = SubSeq(rates, 1, n)
  BY <1>1 DEF validate_checkpoint, IsPrefix
<1>4. n \in 0 .. Len(s) /\ n \in 0 .. Len(rates)
  BY <1>1, <1>2, <1>3
<1>5. PICK q : q = SubSeq(s, 1, n)
  OBVIOUS
<1>6. \A k \in 1 .. n : q[k] = s[k]
  BY <1>2, <1>4, <1>5, RatesPrefix
<1>7. \A k \in 1 .. n : q[k] = rates[k]
  BY <1>2, <1>3, <1>4, <1>5, RatesPrefix
<1>8. \A k \in 1 .. Len(s) : rates[k] = s[k]
  BY <1>1, <1>6, <1>7
<1>9. \A k \in Len(s) + 1 .. Len(rates) : rates[k].from > c.cursor
  BY <1>1 DEF validate_checkpoint
<1> QED BY <1>1, <1>3, <1>8, <1>9 DEF Longer

-----------------------------------------------------------------------------
(* Checkpoints *)

\* A checkpoint that a replay on chain g left: at its block the account is
\* what the chain's transfers and the stored rates make it.
Made(c, i, u, g) ==
    /\ c.cursor \in 0 .. MaxTime /\ RatesOk(c.rates) /\ c.hash = HashOn(g, c.cursor)
    /\ Exact(c.account, HeldOn(g, i, u), c.rates, Decimals[Tokens[i]], c.cursor)

\* What the table may hold for a token.
TokenOk(c, i, u) == c # Nothing => \E g \in {0, 1} : Made(c, i, u, g)

\* What score_to_block returns for a token on chain g, with the rates of its
\* reference block.
TokenAt(c, i, u, g, rates, target) ==
    IF starting_blocks(rates, target) = {} THEN c = Nothing
    ELSE /\ c # Nothing /\ Made(c, i, u, g) /\ c.cursor = target
         /\ Longer(c.rates, rates, target)

LEMMA MaxTimeNat == MaxTime \in Nat
BY ScoreApiAssumption

LEMMA HeldOnOk ==
    ASSUME NEW i \in DOMAIN Tokens, NEW g \in {0, 1}, NEW u
    PROVE  Held(HeldOn(g, i, u)) /\ Decimals[Tokens[i]] \in Nat
BY HistoryOk, NetsHeld, TokenIs DEF HeldOn

\* It is as good on another chain on which its block has the same hash.
LEMMA MadeFork ==
    ASSUME NEW i \in DOMAIN Tokens, NEW u, NEW g \in {0, 1}, NEW f \in {0, 1}, NEW c,
           Made(c, i, u, g), HashOn(g, c.cursor) = HashOn(f, c.cursor)
    PROVE  Made(c, i, u, f)
<1>1. PICK a, T, rates, dec, h, k :
        /\ a = c.account /\ T = c.cursor /\ rates = c.rates /\ dec = Decimals[Tokens[i]]
        /\ h = HeldOn(g, i, u) /\ k = HeldOn(f, i, u)
  BY Zenon
<1>2. T \in Nat /\ T \in 0 .. T
  BY <1>1, MaxTimeNat DEF Made
<1>3. Exact(a, h, rates, dec, T)
  BY <1>1 DEF Made
<1>4. \A b \in 0 .. T : h[b] = k[b]
  BY <1>1, <1>2, SameHash
<1>5. Agree(h, k, T)
  BY <1>2, <1>4 DEF Agree
<1>6. Held(h)
  BY <1>1, HeldOnOk
<1>7. At(a, k, rates, dec, T)
  BY <1>2, <1>3, <1>5, <1>6, AtHeld DEF Exact
<1>8. Exact(a, k, rates, dec, T)
  BY <1>2, <1>3, <1>4, <1>7 DEF Exact
<1> QED BY <1>1, <1>8 DEF Made

\* It is exact for the rates that were added since.
LEMMA MadeLonger ==
    ASSUME NEW i \in DOMAIN Tokens, NEW u, NEW g \in {0, 1}, NEW c, Made(c, i, u, g),
           NEW rates, RatesOk(rates), Longer(c.rates, rates, c.cursor)
    PROVE  Exact(c.account, HeldOn(g, i, u), rates, Decimals[Tokens[i]], c.cursor)
<1>1. PICK a, T, old, dec, h :
        /\ a = c.account /\ T = c.cursor /\ old = c.rates /\ dec = Decimals[Tokens[i]]
        /\ h = HeldOn(g, i, u)
  BY Zenon
<1>2. T \in Nat /\ T <= T /\ RatesOk(old) /\ Exact(a, h, old, dec, T) /\ Longer(old, rates, T)
  BY <1>1, MaxTimeNat DEF Made
<1>3. Held(h) /\ dec \in Nat
  BY <1>1, HeldOnOk
<1>4. At(a, h, old, dec, T) /\ a.last = T /\ a.balance = h[T]
  BY <1>2 DEF Exact
<1>5. At(a, h, rates, dec, T)
  BY <1>2, <1>3, <1>4, AtLonger
<1>6. Exact(a, h, rates, dec, T)
  BY <1>4, <1>5 DEF Exact
<1> QED BY <1>1, <1>6

\* The fields of a checkpoint, which is something.
LEMMA CheckpointFields ==
    ASSUME NEW b, NEW x, NEW rates, NEW a, NEW c,
           c = [cursor |-> b, hash |-> x, rates |-> rates, account |-> a]
    PROVE  c.cursor = b /\ c.hash = x /\ c.rates = rates /\ c.account = a /\ c # Nothing
<1>1. "none" \notin DOMAIN c /\ "none" \in DOMAIN [none |-> TRUE]
  OBVIOUS
<1> QED BY <1>1 DEF Nothing

\* A replay that is continued to a later block.
LEMMA MadeNext ==
    ASSUME NEW i \in DOMAIN Tokens, NEW u, fork \in {0, 1}, NEW c, Made(c, i, u, fork),
           NEW rates, RatesOk(rates), Longer(c.rates, rates, c.cursor),
           NEW target \in Nat, c.cursor < target, target <= MaxTime,
           NEW n, n = advance_token_checkpoint(c, Tokens[i], u, rates, target)
    PROVE  Made(n, i, u, fork) /\ n.cursor = target /\ n.rates = rates /\ n # Nothing
<1>1. PICK ts, dec, h, a, lo : /\ ts = HistoryOn(fork, Tokens[i]) /\ dec = Decimals[Tokens[i]]
                               /\ h = HeldOn(fork, i, u) /\ a = c.account /\ lo = c.cursor
  BY Zenon
<1>2. PICK mine : mine = erc20_transfers_for_accounts(ts, {u}, lo + 1, target)
  OBVIOUS
<1>3. PICK m : m = apply_transfers(a, ts, mine, u, rates, dec)[Len(ts)]
  OBVIOUS
<1>4. PICK e : e = advance_account(m, target, rates, dec)
  OBVIOUS
<1>5. n = [cursor |-> target, hash |-> HashOn(fork, target), rates |-> rates, account |-> e]
  BY <1>1, <1>2, <1>3, <1>4 DEF advance_token_checkpoint
<1>6. PICK x : x = HashOn(fork, target)
  OBVIOUS
<1>7. n.cursor = target /\ n.hash = x /\ n.rates = rates /\ n.account = e /\ n # Nothing
  BY <1>5, <1>6, CheckpointFields
<1>8. /\ IsHistory(ts) /\ Held(h) /\ dec \in Nat /\ lo \in Nat /\ lo <= target
  BY <1>1, HistoryOk, HeldOnOk, MaxTimeNat DEF Made
<1>9. Exact(a, h, rates, dec, lo)
  BY <1>1, MadeLonger
<1>10. 0 \in Int /\ Offset(h, ts, u, 0, lo, target)
  <2>1. \A b \in lo .. target : h[b] = net(ts, u, b) /\ net(ts, u, b) \in Int
    BY <1>1, <1>8, NetIs DEF HeldOn, Nets
  <2> QED BY <2>1 DEF Offset
<1>11. Follows(m, h, ts, u, 0, rates, dec, lo, Cut(ts, target))
  BY <1>2, <1>3, <1>8, <1>9, <1>10, PostsFollow
<1>12. Exact(e, h, rates, dec, target)
  BY <1>4, <1>8, <1>10, <1>11, FollowsEnd
<1>13. target \in 0 .. MaxTime
  BY MaxTimeNat
<1> QED BY <1>1, <1>6, <1>7, <1>12, <1>13 DEF Made

\* A replay that starts at the first block with a rate, from the balance there.
LEMMA MadeNew ==
    ASSUME NEW i \in DOMAIN Tokens, NEW u, fork \in {0, 1}, NEW rates, RatesOk(rates),
           NEW target \in Nat, target <= MaxTime, starting_blocks(rates, target) # {},
           NEW b, b = Min(starting_blocks(rates, target)),
           NEW n, n = [new_token_checkpoint(Tokens[i], u, b) EXCEPT !.rates = rates]
    PROVE  Made(n, i, u, fork) /\ n.rates = rates /\ n # Nothing
<1>1. PICK h, ts, dec : /\ ts = HistoryOn(fork, Tokens[i]) /\ h = HeldOn(fork, i, u)
                        /\ dec = Decimals[Tokens[i]]
  BY Zenon
<1>2. /\ b \in Nat /\ b < target /\ \E j \in 1 .. Len(rates) : rates[j].from = b
      /\ \A k \in 1 .. Len(rates) : rates[k].from < b => rates[k].rate = 0
  BY StartIs
<1>3. IsHistory(ts) /\ Held(h) /\ dec \in Nat /\ MaxTime \in Nat
  BY <1>1, HistoryOk, HeldOnOk, MaxTimeNat
<1>4. BalanceOn(fork, Tokens[i], u, b) = h[b]
  <2>1. h[b] = net(ts, u, b) /\ net(ts, u, b) \in Int
    BY <1>1, <1>2, <1>3, NetIs DEF HeldOn, Nets
  <2>2. ~(MaxTime + 1 <= b)
    BY <1>2, <1>3
  <2>3. BalanceOn(fork, Tokens[i], u, b) = net(ts, u, b) + 0
    BY <1>1, <2>2 DEF BalanceOn, BalanceAfter
  <2> QED BY <2>1, <2>3
<1>5. PICK a, x : a = [NewAccount EXCEPT !.balance = h[b], !.last = b] /\ x = HashOn(fork, b)
  BY Zenon
<1>6. n = [cursor |-> b, hash |-> x, rates |-> rates, account |-> a]
  BY <1>4, <1>5 DEF new_token_checkpoint
<1>7. n.cursor = b /\ n.hash = x /\ n.rates = rates /\ n.account = a /\ n # Nothing
  BY <1>6, CheckpointFields
<1>8. Exact(a, h, rates, dec, b)
  BY <1>2, <1>3, <1>5, ExactNew
<1>9. b \in 0 .. MaxTime
  BY <1>2, <1>3
<1> QED BY <1>1, <1>5, <1>7, <1>8, <1>9 DEF Made

\* A replay of one token that is not in error ends at its target: continued
\* from a checkpoint of either chain or begun anew.
LEMMA TokenScored ==
    ASSUME NEW i \in DOMAIN Tokens, NEW u, fork \in {0, 1}, NEW old, TokenOk(old, i, u),
           NEW rates, RatesOk(rates), NEW target \in Nat, target <= MaxTime,
           NEW n, n = score_token(old, Tokens[i], u, rates, target), n # Stale
    PROVE  TokenAt(n, i, u, fork, rates, target)
<1>1. CASE starting_blocks(rates, target) = {}
  BY <1>1 DEF score_token, TokenAt
<1>2. CASE starting_blocks(rates, target) # {}
  <2>1. PICK b, new : /\ b = Min(starting_blocks(rates, target))
                      /\ new = [new_token_checkpoint(Tokens[i], u, b) EXCEPT !.rates = rates]
    BY Zenon
  <2>2. PICK c : c = IF old # Nothing THEN old ELSE new
    OBVIOUS
  <2>3. /\ c.hash = HashOn(fork, c.cursor) /\ validate_checkpoint(c, rates) /\ ~(c.cursor > target)
        /\ n = IF c.cursor = target THEN c
               ELSE advance_token_checkpoint(c, Tokens[i], u, rates, target)
    BY <1>2, <2>1, <2>2 DEF score_token
  <2>4. Made(new, i, u, fork) /\ new # Nothing
    BY <1>2, <2>1, MadeNew
  <2>5. old # Nothing => \E g \in {0, 1} : Made(old, i, u, g)
    BY DEF TokenOk
  <2>6. c # Nothing /\ \E g \in {0, 1} : Made(c, i, u, g)
    BY <2>2, <2>4, <2>5
  <2>7. PICK g \in {0, 1} : Made(c, i, u, g)
    BY <2>6
  <2>8. HashOn(g, c.cursor) = HashOn(fork, c.cursor)
    BY <2>3, <2>7 DEF Made
  <2>9. Made(c, i, u, fork)
    BY <2>7, <2>8, MadeFork
  <2>10. RatesOk(c.rates) /\ c.cursor \in Nat
    BY <2>9, MaxTimeNat DEF Made
  <2>11. Longer(c.rates, rates, c.cursor)
    BY <2>3, <2>10, ValidLonger
  <2>12. CASE c.cursor = target
    BY <1>2, <2>3, <2>6, <2>9, <2>11, <2>12 DEF TokenAt
  <2>13. CASE c.cursor # target
    <3>1. c.cursor < target
      BY <2>3, <2>10, <2>13
    <3>2. n = advance_token_checkpoint(c, Tokens[i], u, rates, target)
      BY <2>3, <2>13
    <3>3. Made(n, i, u, fork) /\ n.cursor = target /\ n.rates = rates /\ n # Nothing
      BY <2>9, <2>11, <3>1, <3>2, MadeNext
    <3>4. Longer(n.rates, rates, target)
      BY <3>3, LongerSelf
    <3> QED BY <1>2, <3>3, <3>4 DEF TokenAt
  <2> QED BY <2>12, <2>13
<1> QED BY <1>1, <1>2

\* Such a token may be stored, and is as good on a chain with the same block.
LEMMA TokenAtOk ==
    ASSUME NEW i, NEW u, NEW g \in {0, 1}, NEW rates, NEW target, NEW c,
           TokenAt(c, i, u, g, rates, target)
    PROVE  TokenOk(c, i, u)
BY DEF TokenAt, TokenOk

LEMMA TokenAtFork ==
    ASSUME NEW i \in DOMAIN Tokens, NEW u, NEW g \in {0, 1}, NEW f \in {0, 1},
           NEW rates, NEW target, NEW c, TokenAt(c, i, u, g, rates, target),
           HashOn(g, target) = HashOn(f, target)
    PROVE  TokenAt(c, i, u, f, rates, target)
<1>1. CASE starting_blocks(rates, target) = {}
  BY <1>1 DEF TokenAt
<1>2. CASE starting_blocks(rates, target) # {}
  <2>1. c # Nothing /\ Made(c, i, u, g) /\ c.cursor = target /\ Longer(c.rates, rates, target)
    BY <1>2 DEF TokenAt
  <2>2. Made(c, i, u, f)
    BY <2>1, MadeFork
  <2> QED BY <1>2, <2>1, <2>2 DEF TokenAt
<1> QED BY <1>1, <1>2

\* The numerator that the invocation computes from it, and what it should be.
NumeratorAt(c, i, rates, target) ==
    IF c = Nothing THEN 0
    ELSE projected_numerator(c.account, target, rates, Decimals[Tokens[i]])

NumeratorOn(g, i, u, rates, target) ==
    ReferenceNumerator(HistoryOn(g, Tokens[i]), MaxTime + 1, u, rates, Decimals[Tokens[i]], target)

LEMMA NumeratorIs ==
    ASSUME NEW i \in DOMAIN Tokens, NEW u, NEW g \in {0, 1}, NEW rates, RatesOk(rates),
           NEW target \in Nat, target <= MaxTime, NEW c, TokenAt(c, i, u, g, rates, target)
    PROVE  NumeratorAt(c, i, rates, target) = NumeratorOn(g, i, u, rates, target)
<1>1. PICK ts, h, dec : /\ ts = HistoryOn(g, Tokens[i]) /\ h = HeldOn(g, i, u)
                        /\ dec = Decimals[Tokens[i]]
  BY Zenon
<1>2. IsHistory(ts) /\ Held(h) /\ dec \in Nat /\ h = Nets(ts, u)
  BY <1>1, HistoryOk, HeldOnOk DEF HeldOn
<1>3. PICK r : r = MaxTime + 1
  OBVIOUS
<1>4. r \in Nat /\ r >= target
  BY <1>3, MaxTimeNat
<1>5. PICK w : w = Total(Worths(h, rates, dec, target), 1 .. Len(rates))
  OBVIOUS
<1>6. ReferenceNumerator(ts, r, u, rates, dec, target) = w
  BY <1>2, <1>4, <1>5, ReferenceNets
<1>7. NumeratorOn(g, i, u, rates, target) = w
  BY <1>1, <1>3, <1>6 DEF NumeratorOn
<1>8. CASE starting_blocks(rates, target) = {}
  <2>1. c = Nothing
    BY <1>8 DEF TokenAt
  <2>2. w = 0
    BY <1>2, <1>5, <1>8, NothingStarted
  <2> QED BY <1>7, <2>1, <2>2 DEF NumeratorAt
<1>9. CASE starting_blocks(rates, target) # {}
  <2>1. c # Nothing /\ Made(c, i, u, g) /\ c.cursor = target /\ Longer(c.rates, rates, target)
    BY <1>9 DEF TokenAt
  <2>2. PICK a : a = c.account
    OBVIOUS
  <2>3. Exact(a, h, rates, dec, target)
    BY <1>1, <2>1, <2>2, MadeLonger
  <2>4. Projects(a, h, rates, dec, target)
    BY <1>2, <2>3, ExactProjects
  <2>5. projected_numerator(a, target, rates, dec) = w
    BY <1>5, <2>4 DEF Projects
  <2> QED BY <1>1, <1>7, <2>1, <2>2, <2>5 DEF NumeratorAt
<1> QED BY <1>8, <1>9

-----------------------------------------------------------------------------
(* Scores are not negative, and their parts add up *)

LEMMA ScaledNat ==
    ASSUME NEW x \in Nat, NEW decimals \in Nat
    PROVE  scaled_integral(x, decimals) \in Nat
<1>0. Base \in Nat /\ Base > 0 /\ Digits \in Nat
  BY ScoreCoreAssumption
<1>1. CASE decimals <= Digits
  <2>1. PICK k : k = power(Base, Digits - decimals)
    OBVIOUS
  <2>2. Digits - decimals \in Nat
    BY <1>0, <1>1
  <2>3. k \in Nat
    BY <1>0, <2>1, <2>2, PowerPositive
  <2>4. scaled_integral(x, decimals) = x * k
    BY <1>1, <2>1 DEF scaled_integral
  <2>5. \A y, z \in Nat : y * z \in Nat
    OBVIOUS
  <2> QED BY <2>3, <2>4, <2>5
<1>2. CASE ~(decimals <= Digits)
  <2>1. PICK k : k = power(Base, decimals - Digits)
    OBVIOUS
  <2>2. decimals - Digits \in Nat
    BY <1>0, <1>2
  <2>3. k \in Nat /\ k > 0
    BY <1>0, <2>1, <2>2, PowerPositive
  <2>4. scaled_integral(x, decimals) = x \div k
    BY <1>2, <2>1 DEF scaled_integral
  <2>5. x \div k \in Nat
    BY <2>3, Z3
  <2> QED BY <2>4, <2>5
<1> QED BY <1>1, <1>2

\* Nobody has less than nothing, so nobody has earned less than nothing.
LEMMA NumeratorNat ==
    ASSUME NEW i \in DOMAIN Tokens, NEW u \in Accounts, NEW g \in {0, 1},
           NEW rates, RatesOk(rates), NEW target \in Nat, target <= MaxTime
    PROVE  NumeratorOn(g, i, u, rates, target) \in Nat
<1>1. PICK ts, h, dec : /\ ts = HistoryOn(g, Tokens[i]) /\ h = HeldOn(g, i, u)
                        /\ dec = Decimals[Tokens[i]]
  BY Zenon
<1>2. IsHistory(ts) /\ Held(h) /\ dec \in Nat /\ h = Nets(ts, u)
  BY <1>1, HistoryOk, HeldOnOk DEF HeldOn
<1>3. PICK r : r = MaxTime + 1
  OBVIOUS
<1>4. r \in Nat /\ r >= target /\ MaxTime \in Nat
  BY <1>3, MaxTimeNat
<1>5. ReferenceNumerator(ts, r, u, rates, dec, target) =
        Total(Worths(h, rates, dec, target), 1 .. Len(rates))
  BY <1>2, <1>4, ReferenceNets
<1>6. NumeratorOn(g, i, u, rates, target) = Total(Worths(h, rates, dec, target), 1 .. Len(rates))
  BY <1>1, <1>3, <1>5 DEF NumeratorOn
<1>7. ASSUME NEW b \in 0 .. target - 1  PROVE h[b] \in Nat
  <2>1. b \in Nat /\ b \in 0 .. MaxTime /\ ~(MaxTime + 1 <= b)
    BY <1>4
  <2>2. h[b] = net(ts, u, b) /\ net(ts, u, b) \in Int
    BY <1>2, <2>1, NetIs DEF Nets
  <2>3. BalanceOn(g, Tokens[i], u, b) = net(ts, u, b) + 0
    BY <1>1, <2>1 DEF BalanceOn, BalanceAfter
  <2>4. BalanceOn(g, Tokens[i], u, b) >= 0
    BY <2>1, TokenIs, ScoreChainAssumption
  <2> QED BY <2>2, <2>3, <2>4
<1>8. ASSUME NEW k \in 1 .. Len(rates)  PROVE Worth(h, rates, dec, k, target) \in Nat
  <2>1. PICK B : B = BlocksOf(rates, k, target)
    OBVIOUS
  <2>2. IsFiniteSet(B) /\ B \subseteq 0 .. target - 1
    BY <2>1, BlocksFinite
  <2>3. Total(h, B) \in Nat
    BY <1>7, <2>2, TotalNat
  <2>4. PICK z : z = scaled_integral(Total(h, B), dec)
    OBVIOUS
  <2>5. z \in Nat
    BY <1>2, <2>3, <2>4, ScaledNat
  <2>6. Worth(h, rates, dec, k, target) = z * rates[k].rate
    BY <2>1, <2>4 DEF Worth, Area
  <2>7. rates[k].rate \in Nat
    BY RatePoint
  <2>8. \A x, y \in Nat : x * y \in Nat
    OBVIOUS
  <2> QED BY <2>5, <2>6, <2>7, <2>8
<1>9. PICK f : f = Worths(h, rates, dec, target)
  OBVIOUS
<1>10. \A k \in 1 .. Len(rates) : f[k] \in Nat
  BY <1>8, <1>9 DEF Worths
<1>11. IsFiniteSet(1 .. Len(rates))
  BY <1>2, DoneInt
<1>12. Total(f, 1 .. Len(rates)) \in Nat
  BY <1>10, <1>11, TotalNat
<1> QED BY <1>6, <1>9, <1>12

\* Rounding down.
LEMMA GrossFloor ==
    ASSUME NEW x \in Nat
    PROVE  /\ gross_score(x) \in Nat /\ gross_score(x) * ScoreScale <= x
           /\ \A y \in Int : y * ScoreScale <= x => y <= gross_score(x)
<1>1. PICK k, q : k = ScoreScale /\ q = x \div k
  BY Zenon
<1>2. k \in Nat /\ k > 0
  BY <1>1, ScoreCoreAssumption
<1>3. q \in Nat /\ q * k <= x /\ x < (q + 1) * k
  <2>1. x \div k \in Nat /\ (x \div k) * k <= x /\ x < ((x \div k) + 1) * k
    BY <1>2, Z3
  <2> QED BY <1>1, <2>1
<1>4. ASSUME NEW y \in Int, y * k <= x  PROVE y <= q
  <2> SUFFICES ASSUME ~(y <= q)  PROVE FALSE
    OBVIOUS
  <2>1. q + 1 <= y
    BY <1>3
  <2>2. (q + 1) * k <= y * k
    BY <1>2, <1>3, <2>1, Z3
  <2> QED BY <1>2, <1>3, <1>4, <2>2, Z3
<1>5. gross_score(x) = q
  BY <1>1 DEF gross_score
<1> QED BY <1>1, <1>3, <1>4, <1>5

\* What the last token takes is what rounding the others left.
LEMMA PartsAddUp ==
    ASSUME NEW n \in Nat, NEW N, N = [i \in 1 .. n |-> N[i]], \A i \in 1 .. n : N[i] \in Nat,
           NEW p, p = allocate_token_scores(N)
    PROVE  Sum(p) = gross_score(Sum(N)) /\ \A i \in DOMAIN p : p[i] >= 0
<1>1. PICK q : q = [i \in 1 .. n |-> gross_score(N[i])]
  OBVIOUS
<1>2. DOMAIN N = 1 .. n /\ Len(N) = n
  <2> DEFINE e(i) == N[i]
  <2>1. N = [i \in 1 .. n |-> e(i)]
    OBVIOUS
  <2> HIDE DEF e
  <2>2. Len([i \in 1 .. n |-> e(i)]) = n /\ DOMAIN [i \in 1 .. n |-> e(i)] = 1 .. n
    OBVIOUS
  <2> QED BY <2>1, <2>2
<1>3. PICK S, G, B, k : S = Sum(N) /\ G = gross_score(S) /\ B = Sum(q) /\ k = ScoreScale
  BY Zenon
<1>4. /\ DOMAIN q = 1 .. n /\ IsFiniteSet(1 .. n) /\ k \in Nat /\ k > 0
      /\ \A i \in 1 .. n : q[i] = gross_score(N[i])
  <2>1. IsFiniteSet(1 .. n)
    <3> n \in Nat
      OBVIOUS
    <3> QED BY ONLY n \in Nat, FS_Interval
  <2>2. k \in Nat /\ k > 0
    BY <1>3, ScoreCoreAssumption
  <2>3. DOMAIN q = 1 .. n /\ \A i \in 1 .. n : q[i] = gross_score(N[i])
    BY <1>1
  <2> QED BY <2>1, <2>2, <2>3
<1>5. S = Total(N, 1 .. n) /\ B = Total(q, 1 .. n)
  BY <1>2, <1>3, <1>4 DEF Sum, SumOver, Total
<1>6. \A i \in 1 .. n : q[i] \in Nat /\ q[i] \in Int /\ q[i] * k \in Int /\ q[i] * k <= N[i]
  <2> SUFFICES ASSUME NEW i \in 1 .. n
               PROVE  q[i] \in Nat /\ q[i] \in Int /\ q[i] * k \in Int /\ q[i] * k <= N[i]
    OBVIOUS
  <2>1. gross_score(N[i]) \in Nat /\ gross_score(N[i]) * ScoreScale <= N[i]
    BY GrossFloor
  <2>2. q[i] \in Nat /\ q[i] * k <= N[i]
    BY <1>3, <1>4, <2>1
  <2> QED BY <1>4, <2>2
<1>7. S \in Nat /\ B \in Nat
  BY <1>4, <1>5, <1>6, TotalNat
<1>8. B <= G /\ G \in Nat
  <2>1. PICK m : m = [i \in 1 .. n |-> q[i] * k]
    OBVIOUS
  <2>2. \A i \in 1 .. n : m[i] = q[i] * k
    BY <2>1
  <2>3. Total(m, 1 .. n) = B * k
    <3>1. PICK I : I = 1 .. n
      OBVIOUS
    <3>2. k \in Int /\ IsFiniteSet(I) /\ \A i \in I : q[i] \in Int /\ m[i] = q[i] * k
      BY <1>4, <1>6, <2>2, <3>1
    <3>3. Total(m, I) = Total(q, I) * k
      BY ONLY <3>2, TotalScale
    <3> QED BY <1>5, <3>1, <3>3
  <2>4. \A i \in 1 .. n : m[i] \in Int /\ N[i] \in Int /\ m[i] <= N[i]
    BY <1>6, <2>2
  <2>5. Total(m, 1 .. n) <= S
    BY <1>4, <1>5, <2>4, TotalMonotone
  <2>6. gross_score(S) \in Nat /\ \A y \in Int : y * ScoreScale <= S => y <= gross_score(S)
    BY <1>7, GrossFloor
  <2> QED BY <1>3, <1>7, <2>3, <2>5, <2>6
<1>9. p = [q EXCEPT ![n] = @ + G - B]
  <2>1. [i \in DOMAIN N |-> gross_score(N[i])] = q
    BY <1>1, <1>2
  <2> QED BY <1>2, <1>3, <2>1 DEF allocate_token_scores
<1>10. CASE n = 0
  <2>1. 1 .. n = {} /\ n \notin 1 .. n
    BY <1>10
  <2>2. p = q
    <3>1. \A x : [q EXCEPT ![n] = x] = q
      BY <1>1, <2>1
    <3> QED BY <1>9, <3>1
  <2>3. B = 0 /\ S = 0
    BY <1>5, <2>1, TotalEmpty
  <2>4. gross_score(0) = 0
    BY ScoreCoreAssumption, Z3 DEF gross_score
  <2> QED BY <1>3, <1>4, <2>1, <2>2, <2>3, <2>4
<1>11. CASE n # 0
  <2>1. n \in 1 .. n
    BY <1>11
  <2>2. /\ DOMAIN p = 1 .. n /\ p[n] = q[n] + G - B
        /\ \A i \in 1 .. n : i # n => p[i] = q[i]
    BY <1>1, <1>4, <1>9, <2>1
  <2>3. p[n] = q[n] + (G - B) /\ p[n] \in Nat /\ q[n] \in Nat
    BY <1>6, <1>7, <1>8, <2>1, <2>2
  <2>4. \A i \in 1 .. n : p[i] \in Nat /\ p[i] \in Int /\ q[i] \in Int
    <3> SUFFICES ASSUME NEW i \in 1 .. n  PROVE p[i] \in Nat /\ q[i] \in Nat
      OBVIOUS
    <3>1. CASE i = n
      BY <2>3, <3>1
    <3>2. CASE i # n
      BY <1>6, <2>2, <3>2
    <3> QED BY <3>1, <3>2
  <2>5. Total(p, 1 .. n) = Total(q, 1 .. n) - q[n] + p[n]
    <3>1. PICK I : I = 1 .. n
      OBVIOUS
    <3>2. IsFiniteSet(I) /\ n \in I /\ Ints(q, I) /\ Ints(p, I) /\ AllBut(q, p, I, n)
      BY <1>4, <2>1, <2>2, <2>4, <3>1 DEF Ints, AllBut
    <3>3. Total(p, I) = Total(q, I) - q[n] + p[n]
      BY ONLY <3>2, TotalAllBut, Zenon
    <3> QED BY <3>1, <3>3
  <2>6. Total(p, 1 .. n) = G
    BY <1>5, <1>7, <1>8, <2>3, <2>5
  <2>7. Sum(p) = G
    BY <2>2, <2>6 DEF Sum, SumOver, Total
  <2>8. \A i \in DOMAIN p : p[i] >= 0
    BY <2>2, <2>4
  <2>9. Sum(p) = gross_score(Sum(N))
    BY <1>3, <2>7
  <2> QED BY <2>8, <2>9
<1> QED BY <1>10, <1>11

-----------------------------------------------------------------------------
(* Payloads *)

\* What score_to_block returns on chain g.
TokensAt(tokens, u, g, b, target) ==
    \A i \in DOMAIN Tokens : TokenAt(tokens[i], i, u, g, ScoredAt(Tokens[i], b), target)

TokensOk(tokens, u) == \A i \in DOMAIN Tokens : TokenOk(tokens[i], i, u)

NumeratorsOn(g, u, b, target) ==
    [i \in DOMAIN Tokens |-> NumeratorOn(g, i, u, ScoredAt(Tokens[i], b), target)]

\* The chain that a block's hash names; before the fork both are one.
ChainOf(hash) == IF hash = 0 THEN 0 ELSE hash - 1

LEMMA TokensDomain == DOMAIN Tokens = 1 .. Len(Tokens) /\ Len(Tokens) \in Nat
<1>1. PICK S : S = ToSet(Tokens)
  OBVIOUS
<1>2. Tokens \in Seq(S)
  BY <1>1, ScoreChainAssumption
<1> QED BY <1>2

LEMMA NumeratorsAre ==
    ASSUME NEW u, NEW g \in {0, 1}, NEW b, NEW target \in Nat, target <= MaxTime,
           NEW tokens, TokensAt(tokens, u, g, b, target)
    PROVE  token_numerators(tokens, b, target) = NumeratorsOn(g, u, b, target)
<1>1. ASSUME NEW i \in DOMAIN Tokens
      PROVE  NumeratorAt(tokens[i], i, ScoredAt(Tokens[i], b), target) =
               NumeratorOn(g, i, u, ScoredAt(Tokens[i], b), target)
  <2>1. PICK rates, c : rates = ScoredAt(Tokens[i], b) /\ c = tokens[i]
    BY Zenon
  <2>2. RatesOk(rates) /\ TokenAt(c, i, u, g, rates, target)
    BY <2>1, ScoredOk DEF TokensAt
  <2>3. NumeratorAt(c, i, rates, target) = NumeratorOn(g, i, u, rates, target)
    BY <2>2, NumeratorIs
  <2> QED BY <2>1, <2>3
<1>2. token_numerators(tokens, b, target) =
        [i \in DOMAIN Tokens |-> NumeratorAt(tokens[i], i, ScoredAt(Tokens[i], b), target)]
  BY DEF token_numerators, NumeratorAt
<1> QED BY <1>1, <1>2 DEF NumeratorsOn

LEMMA ScoreIs ==
    ASSUME NEW g, NEW u, NEW b, NEW target
    PROVE  ScoreOn(g, u, b, target) = gross_score(Sum(NumeratorsOn(g, u, b, target)))
BY DEF ScoreOn, NumeratorsOn, NumeratorOn

\* What SavedScoreIsExact says of a payload of u.
ExactPayload(u, d) ==
    LET f == ChainOf(d.hash)
        m == ScoreOn(f, u, d.cursor, score_cutoff_block(d.cursor))
    IN  /\ d.gross = ScoreOn(f, u, d.cursor, d.cursor)
        /\ d.available = IF m > Spent[u] THEN m - Spent[u] ELSE 0
        /\ Sum(d.parts) = d.gross /\ \A i \in DOMAIN d.parts : d.parts[i] >= 0

PayloadOk(u, d) == ExactPayload(u, d) /\ TokensOk(d.tokens, u) /\ TokensOk(d.visible, u)

LEMMA CutoffIs ==
    ASSUME NEW b \in Nat, b > 0
    PROVE  score_cutoff_block(b) \in Nat /\ score_cutoff_block(b) > 0 /\ score_cutoff_block(b) <= b
<1>1. Margin \in Nat
  BY ScoreChainAssumption
<1> QED BY <1>1 DEF score_cutoff_block

\* A snapshot of replays that ended on the chain of the reference block.
LEMMA PayloadExact ==
    ASSUME NEW u \in Accounts, NEW c, c.reference \in 1 .. MaxTime, ChainOf(c.hash) \in {0, 1},
           TokensAt(c.matured, u, ChainOf(c.hash), c.reference, score_cutoff_block(c.reference)),
           TokensAt(c.visible, u, ChainOf(c.hash), c.reference, c.reference),
           NEW d, d = Payload(u, c)
    PROVE  PayloadOk(u, d)
<1>1. PICK b, f, k : b = c.reference /\ f = ChainOf(c.hash) /\ k = score_cutoff_block(b)
  BY Zenon
<1>2. /\ b \in Nat /\ b > 0 /\ b <= MaxTime /\ f \in {0, 1}
      /\ k \in Nat /\ k <= b /\ k <= MaxTime /\ MaxTime \in Nat
  <2>1. b \in Nat /\ b > 0 /\ b <= MaxTime /\ f \in {0, 1} /\ MaxTime \in Nat
    BY <1>1, MaxTimeNat
  <2>2. k \in Nat /\ k <= b
    BY <1>1, <2>1, CutoffIs
  <2> QED BY <2>1, <2>2
<1>3. TokensAt(c.matured, u, f, b, k) /\ TokensAt(c.visible, u, f, b, b)
  BY <1>1
<1>4. PICK N, M : N = NumeratorsOn(f, u, b, b) /\ M = NumeratorsOn(f, u, b, k)
  BY Zenon
<1>5. token_numerators(c.visible, b, b) = N
  BY <1>2, <1>3, <1>4, NumeratorsAre
<1>6. token_numerators(c.matured, b, k) = M
  BY <1>2, <1>3, <1>4, NumeratorsAre
<1>7. PICK m, p : m = gross_score(Sum(M)) /\ p = allocate_token_scores(N)
  BY Zenon
<1>8. /\ d.cursor = b /\ d.hash = c.hash /\ d.tokens = c.matured /\ d.visible = c.visible
      /\ d.gross = gross_score(Sum(N)) /\ d.parts = p
      /\ d.available = IF m > Spent[u] THEN m - Spent[u] ELSE 0
  BY <1>1, <1>5, <1>6, <1>7 DEF Payload
<1>9. ScoreOn(f, u, b, b) = gross_score(Sum(N)) /\ ScoreOn(f, u, b, k) = m
  BY <1>4, <1>7, ScoreIs
<1>10. Sum(p) = gross_score(Sum(N)) /\ \A i \in DOMAIN p : p[i] >= 0
  <2>1. PICK n : n = Len(Tokens)
    OBVIOUS
  <2>2. n \in Nat /\ DOMAIN Tokens = 1 .. n
    BY <2>1, TokensDomain
  <2>3. ASSUME NEW i \in 1 .. n  PROVE N[i] \in Nat
    <3>1. PICK rates : rates = ScoredAt(Tokens[i], b)
      OBVIOUS
    <3>2. RatesOk(rates) /\ i \in DOMAIN Tokens
      BY <2>2, <3>1, ScoredOk
    <3>3. NumeratorOn(f, i, u, rates, b) \in Nat
      BY <1>2, <3>2, NumeratorNat
    <3> QED BY <1>4, <3>1, <3>2, <3>3 DEF NumeratorsOn
  <2>4. N = [i \in 1 .. n |-> N[i]]
    BY <1>4, <2>2 DEF NumeratorsOn
  <2> QED BY <1>7, <2>2, <2>3, <2>4, PartsAddUp
<1>11. ExactPayload(u, d)
  BY <1>1, <1>8, <1>9, <1>10 DEF ExactPayload
<1>12. TokensOk(c.matured, u) /\ TokensOk(c.visible, u)
  BY <1>2, <1>3, TokenAtOk DEF TokensAt, TokensOk
<1> QED BY <1>8, <1>11, <1>12 DEF PayloadOk

-----------------------------------------------------------------------------
(* Replays under way *)

\* Replays of c that ended on a chain the provider was on since c's anchor.
Since(tokens, c, target, fk) ==
    \E g \in {0, 1} : /\ g <= fk /\ c.hash <= g + 1
                      /\ TokensAt(tokens, c.account, g, c.reference, target)

\* The anchor of an invocation, what it has replayed, and what it has
\* confirmed: both replays are of the chain its reference block is on.
CallExact(place, c, fk) ==
    /\ place \in {"anchored", "matured", "visible", "computed"} =>
          /\ c.reference \in 1 .. MaxTime /\ c.hash \in Nat /\ c.hash <= fk + 1
          /\ c.hash = 0 <=> c.reference < ForkBlock
    /\ place \in {"matured", "visible"} =>
          Since(c.matured, c, score_cutoff_block(c.reference), fk)
    /\ place = "visible" => Since(c.visible, c, c.reference, fk)
    /\ place = "computed" =>
          /\ ChainOf(c.hash) \in {0, 1}
          /\ TokensAt(c.matured, c.account, ChainOf(c.hash), c.reference,
                      score_cutoff_block(c.reference))
          /\ TokensAt(c.visible, c.account, ChainOf(c.hash), c.reference, c.reference)

\* The inductive strengthening of SavedScoreIsExact, with ApiInv.
ScoreInv ==
    /\ now <= MaxTime /\ finalized >= 1 /\ finalized <= now /\ fork \in {0, 1}
    /\ \A s \in saved : PayloadOk(s[1], s[2])
    /\ \A w \in writes : PayloadOk(w.account, w.payload)
    /\ \A p \in Lambdas : CallExact(pc[p], call[p], fork)

\* A replay of all tokens that is not in error.
LEMMA ReplayEnds ==
    ASSUME fork \in {0, 1}, NEW u, NEW old, TokensOk(old, u), NEW b, NEW target \in Nat,
           target <= MaxTime, NEW tokens, tokens = score_to_block(old, u, b, target),
           ~IsStale(tokens)
    PROVE  TokensAt(tokens, u, fork, b, target)
<1> SUFFICES ASSUME NEW i \in DOMAIN Tokens
             PROVE  TokenAt(tokens[i], i, u, fork, ScoredAt(Tokens[i], b), target)
  BY DEF TokensAt
<1>1. PICK rates, o, n : rates = ScoredAt(Tokens[i], b) /\ o = old[i] /\ n = tokens[i]
  BY Zenon
<1>2. DOMAIN tokens = DOMAIN Tokens /\ n = score_token(o, Tokens[i], u, rates, target)
  BY <1>1 DEF score_to_block
<1>3. n # Stale
  BY <1>1, <1>2 DEF IsStale
<1>4. RatesOk(rates) /\ TokenOk(o, i, u)
  BY <1>1, ScoredOk DEF TokensOk
<1>5. TokenAt(n, i, u, fork, rates, target)
  BY <1>2, <1>3, <1>4, TokenScored
<1> QED BY <1>1, <1>5

\* No checkpoints, and those of a payload that was stored.
LEMMA NoTokensOk == ASSUME NEW u PROVE TokensOk(NoTokens, u)
BY DEF TokensOk, NoTokens, TokenOk

LEMMA KnownOk ==
    ASSUME ScoreInv, NEW u, NEW d, <<u, d>> \in saved
    PROVE  PayloadOk(u, d)
<1>1. PICK s : s = <<u, d>>
  OBVIOUS
<1>2. s[1] = u /\ s[2] = d /\ s \in saved
  BY <1>1
<1>3. PayloadOk(s[1], s[2])
  BY <1>2 DEF ScoreInv
<1> QED BY <1>2, <1>3

\* What an invocation has replayed stays so when the provider changes chains.
LEMMA ExactForth ==
    ASSUME NEW place, NEW c, NEW fk \in {0, 1}, NEW to \in {0, 1}, fk <= to,
           CallExact(place, c, fk)
    PROVE  CallExact(place, c, to)
<1>1. \A tokens, target : Since(tokens, c, target, fk) => Since(tokens, c, target, to)
  <2> SUFFICES ASSUME NEW tokens, NEW target, Since(tokens, c, target, fk)
               PROVE  Since(tokens, c, target, to)
    OBVIOUS
  <2>1. PICK g \in {0, 1} : /\ g <= fk /\ c.hash <= g + 1
                            /\ TokensAt(tokens, c.account, g, c.reference, target)
    BY DEF Since
  <2>2. g <= to
    BY <2>1
  <2> QED BY <2>1, <2>2 DEF Since
<1>2. c.hash \in Nat /\ c.hash <= fk + 1 => c.hash <= to + 1
  OBVIOUS
<1> QED BY <1>1, <1>2 DEF CallExact

\* Invocations that have no block yet or any more.
Quiet == {"idle", "loaded", "leased", "admitted", "saving"}

LEMMA QuietExact ==
    ASSUME NEW place \in Quiet, NEW c, NEW fk
    PROVE  CallExact(place, c, fk)
BY DEF Quiet, CallExact

\* One invocation moves.
LEMMA OneMoves ==
    ASSUME ApiType, ScoreInv, NEW p \in Lambdas, NEW place, NEW c,
           pc' = [pc EXCEPT ![p] = place], call' = [call EXCEPT ![p] = c],
           CallExact(place, c, fork), UNCHANGED chain,
           \A s \in saved' : PayloadOk(s[1], s[2]),
           \A w \in writes' : PayloadOk(w.account, w.payload)
    PROVE  ScoreInv'
<1>1. now' = now /\ finalized' = finalized /\ fork' = fork
  BY DEF chain
<1>2. ASSUME NEW q \in Lambdas  PROVE CallExact(pc'[q], call'[q], fork)
  <2>1. CASE q = p
    <3>1. pc'[q] = place /\ call'[q] = c
      BY <2>1 DEF ApiType
    <3> QED BY <3>1
  <2>2. CASE q # p
    <3>1. pc'[q] = pc[q] /\ call'[q] = call[q]
      BY <2>2 DEF ApiType
    <3> QED BY <3>1 DEF ScoreInv
  <2> QED BY <2>1, <2>2
<1>3. \A q \in Lambdas : CallExact(pc[q], call[q], fork)'
  BY <1>1, <1>2
<1> QED BY <1>1, <1>3 DEF ScoreInv

\* Time passes, blocks are finalized, the provider changes chains.
LEMMA WorldScores ==
    ASSUME ScoreInv, UNCHANGED <<saved, writes, pc, call>>, fork' \in {0, 1}, fork <= fork',
           now' <= MaxTime, finalized' >= 1, finalized' <= now'
    PROVE  ScoreInv'
<1>1. fork \in {0, 1}
  BY DEF ScoreInv
<1>2. PICK fk, to : fk = fork /\ to = fork'
  BY Zenon
<1>3. \A q \in Lambdas : CallExact(pc[q], call[q], to)
  BY <1>1, <1>2, ExactForth DEF ScoreInv
<1>4. \A q \in Lambdas : CallExact(pc[q], call[q], fork)'
  BY <1>2, <1>3
<1> QED BY <1>4 DEF ScoreInv

\* An invocation goes to a place where it has no block.
LEMMA QuietScores ==
    ASSUME ApiType, ScoreInv, NEW p \in Lambdas, NEW place \in Quiet, NEW c,
           pc' = [pc EXCEPT ![p] = place], call' = [call EXCEPT ![p] = c],
           UNCHANGED <<chain, saved, writes>>
    PROVE  ScoreInv'
<1>1. CallExact(place, c, fork)
  BY QuietExact
<1>2. /\ \A s \in saved' : PayloadOk(s[1], s[2])
      /\ \A w \in writes' : PayloadOk(w.account, w.payload)
  BY DEF ScoreInv
<1> QED BY <1>1, <1>2, OneMoves

\* Requests, leases, charges and ends.
LEMMA QuietSteps ==
    ASSUME ApiType, ScoreInv, NEW p \in Lambdas,
           \/ Load(p) \/ Acquire(p) \/ Reserve(p)
           \/ AcquireLost(p) \/ ReserveDenied(p) \/ NoAnchor(p) \/ AnchorChanged(p) \/ TimeOut(p)
    PROVE  ScoreInv'
<1>1. UNCHANGED <<chain, saved, writes>>
  BY DEF Load, Acquire, Reserve, AcquireLost, ReserveDenied, NoAnchor, AnchorChanged, TimeOut
<1>2. now' = now /\ finalized' = finalized /\ fork' = fork
  BY <1>1 DEF chain
<1>3. CASE UNCHANGED <<pc, call>>
  <2>1. fork \in {0, 1} /\ fork <= fork
    BY DEF ScoreInv
  <2>2. now' <= MaxTime /\ finalized' >= 1 /\ finalized' <= now'
    BY <1>2 DEF ScoreInv
  <2> QED BY <1>1, <1>2, <1>3, <2>1, <2>2, WorldScores
<1>4. ASSUME NEW place \in Quiet, NEW c, pc' = [pc EXCEPT ![p] = place],
             call' = [call EXCEPT ![p] = c]
      PROVE  ScoreInv'
  BY <1>1, <1>4, QuietScores
<1>5. {"idle", "loaded", "leased", "admitted"} \subseteq Quiet
  BY DEF Quiet
<1>6. CASE Load(p)
  <2>1. UNCHANGED <<pc, call>> \/ \E c : pc' = [pc EXCEPT ![p] = "loaded"] /\ call' = [call EXCEPT ![p] = c]
    BY <1>6, Zenon DEF Load
  <2> QED BY <1>3, <1>4, <1>5, <2>1
<1>7. CASE Acquire(p)
  <2>1. pc' = [pc EXCEPT ![p] = "leased"]
        /\ call' = [call EXCEPT ![p].generation = row[call[p].account].generation + 1]
    BY <1>7 DEF Acquire, Goes
  <2>2. PICK g : g = row[call[p].account].generation + 1
    OBVIOUS
  <2>3. call' = [call EXCEPT ![p] = [call[p] EXCEPT !.generation = g]]
    BY <2>1, <2>2
  <2> QED BY <1>4, <1>5, <2>1, <2>3
<1>8. CASE Reserve(p)
  <2>1. pc' = [pc EXCEPT ![p] = "admitted"] /\ call' = call
    BY <1>8 DEF Reserve, Goes
  <2>2. call' = [call EXCEPT ![p] = call[p]]
    BY <2>1 DEF ApiType
  <2> QED BY <1>4, <1>5, <2>1, <2>2
<1>9. CASE AcquireLost(p) \/ ReserveDenied(p) \/ NoAnchor(p) \/ AnchorChanged(p) \/ TimeOut(p)
  <2>1. pc' = [pc EXCEPT ![p] = "idle"] /\ call' = [call EXCEPT ![p] = NoCall]
    BY <1>9 DEF AcquireLost, ReserveDenied, NoAnchor, AnchorChanged, TimeOut, Defer, Return
  <2> QED BY <1>4, <1>5, <2>1
<1> QED BY <1>6, <1>7, <1>8, <1>9

\* The reference block is one of the chain, with the hash it has there.
LEMMA AnchorScores ==
    ASSUME ApiInv, ScoreInv, NEW p \in Lambdas, Anchor(p)
    PROVE  ScoreInv'
<1>1. PICK c, r, x, fk : c = call[p] /\ r = Reference(p) /\ x = HashOn(fork, Reference(p)) /\ fk = fork
  BY Zenon
<1>2. /\ UNCHANGED <<chain, saved, writes>> /\ c.epoch = completed_utc_epoch(finalized)
      /\ pc' = [pc EXCEPT ![p] = "anchored"]
      /\ call' = [call EXCEPT ![p].reference = r, ![p].hash = x]
  BY <1>1 DEF Anchor, Goes
<1>3. PICK n : n = [c EXCEPT !.reference = r, !.hash = x]
  OBVIOUS
<1>4. ApiType /\ CallShape(c)
  BY <1>1 DEF ApiInv, ApiType
<1>5. call' = [call EXCEPT ![p] = n] /\ n.reference = r /\ n.hash = x
  <2>1. n.reference = r /\ n.hash = x
    BY <1>3, <1>4 DEF CallShape
  <2>2. call' = [call EXCEPT ![p] = n]
    BY <1>1, <1>2, <1>3
  <2> QED BY <2>1, <2>2
<1>6. /\ finalized \in Nat /\ now \in Nat /\ finalized >= 1 /\ finalized <= MaxTime /\ fk \in {0, 1}
      /\ MaxTime \in Nat /\ Deployed \in Nat /\ Deployed > 0 /\ ForkBlock \in Nat
  <2>1. finalized \in Nat /\ now \in Nat
    BY DEF ApiInv, ApiType
  <2>2. finalized >= 1 /\ finalized <= now /\ now <= MaxTime /\ fk \in {0, 1}
    BY <1>1 DEF ScoreInv
  <2>3. Deployed \in Nat /\ Deployed > 0 /\ ForkBlock \in Nat
    BY ScoreChainAssumption
  <2> QED BY <2>1, <2>2, <2>3, MaxTimeNat
<1>7. c.epoch \in Int /\ c.epoch <= finalized
  BY <1>2, <1>6, DayOf
<1>8. r = finalized \/ (r = c.epoch - 1 /\ ~(c.epoch - 1 < Deployed))
  BY <1>1 DEF Reference
<1>9. r \in 1 .. MaxTime
  BY <1>6, <1>7, <1>8
<1>10. x = IF r < ForkBlock THEN 0 ELSE fk + 1
  BY <1>1 DEF HashOn
<1>11. x \in Nat /\ x <= fk + 1 /\ (x = 0 <=> r < ForkBlock)
  BY <1>6, <1>9, <1>10
<1>12. CallExact("anchored", n, fork)
  BY <1>1, <1>5, <1>9, <1>11 DEF CallExact
<1>13. /\ \A s \in saved' : PayloadOk(s[1], s[2])
       /\ \A w \in writes' : PayloadOk(w.account, w.payload)
  BY <1>2 DEF ScoreInv
<1>14. UNCHANGED chain /\ pc' = [pc EXCEPT ![p] = "anchored"] /\ call' = [call EXCEPT ![p] = n]
  BY <1>2, <1>5
<1> QED BY <1>4, <1>12, <1>13, <1>14, OneMoves

\* A replay that did not fail, one that starts over, and one that fails.
LEMMA ReplayedScores ==
    ASSUME ApiInv, ScoreInv, NEW p \in Lambdas, pc[p] \in {"anchored", "matured"},
           NEW to, NEW tokens, NEW next, Replayed(p, to, tokens, next),
           ~IsStale(tokens) => CallExact(to, next, fork),
           UNCHANGED <<chain, saved, writes>>
    PROVE  ScoreInv'
<1>1. ApiType /\ CallShape(call[p]) /\ UNCHANGED chain
  BY DEF ApiInv, ApiType
<1>2. /\ \A s \in saved' : PayloadOk(s[1], s[2])
      /\ \A w \in writes' : PayloadOk(w.account, w.payload)
  BY DEF ScoreInv
<1>3. CASE ~IsStale(tokens)
  <2>1. pc' = [pc EXCEPT ![p] = to] /\ call' = [call EXCEPT ![p] = next]
    BY <1>3 DEF Replayed
  <2> QED BY <1>1, <1>2, <1>3, <2>1, OneMoves
<1>4. CASE IsStale(tokens) /\ call[p].payload # Nothing /\ ~call[p].cold
  <2>1. PICK c, n : c = call[p] /\ n = [call[p] EXCEPT !.cold = TRUE]
    BY Zenon
  <2>2. pc' = [pc EXCEPT ![p] = "anchored"] /\ call' = [call EXCEPT ![p] = n]
    BY <1>4, <2>1 DEF Replayed
  <2>3. n.reference = c.reference /\ n.hash = c.hash
    BY <1>1, <2>1 DEF CallShape
  <2>4. CallExact(pc[p], c, fork)
    BY <2>1 DEF ScoreInv
  <2>5. CallExact("anchored", n, fork)
    BY <2>3, <2>4 DEF CallExact
  <2> QED BY <1>1, <1>2, <2>2, <2>5, OneMoves
<1>5. CASE IsStale(tokens) /\ ~(call[p].payload # Nothing /\ ~call[p].cold)
  <2>1. pc' = [pc EXCEPT ![p] = "idle"] /\ call' = [call EXCEPT ![p] = NoCall]
    BY <1>5 DEF Replayed, Defer, Return
  <2>2. "idle" \in Quiet
    BY DEF Quiet
  <2> QED BY <1>1, <2>1, <2>2, QuietScores
<1> QED BY <1>3, <1>4, <1>5

\* What an invocation at its replays knows.
LEMMA AtReplay ==
    ASSUME ApiInv, ScoreInv, NEW p \in Lambdas, pc[p] \in {"anchored", "matured"},
           NEW c, c = call[p]
    PROVE  /\ CallShape(c) /\ c.reference \in Nat /\ c.reference > 0 /\ c.reference <= MaxTime
           /\ score_cutoff_block(c.reference) \in Nat /\ score_cutoff_block(c.reference) <= MaxTime
           /\ c.hash \in Nat /\ c.hash <= fork + 1 /\ fork \in {0, 1}
           /\ c.hash = 0 <=> c.reference < ForkBlock
           /\ c.payload # Nothing => TokensOk(c.payload.tokens, c.account)
                                     /\ TokensOk(c.payload.visible, c.account)
<1>1. CallShape(c) /\ fork \in {0, 1} /\ MaxTime \in Nat
  BY MaxTimeNat DEF ApiInv, ApiType, ScoreInv
<1>2. CallExact(pc[p], c, fork)
  BY DEF ScoreInv
<1>3. /\ c.reference \in 1 .. MaxTime /\ c.hash \in Nat /\ c.hash <= fork + 1
      /\ c.hash = 0 <=> c.reference < ForkBlock
  BY <1>2 DEF CallExact
<1>4. PICK b, k : b = c.reference /\ k = score_cutoff_block(b)
  BY Zenon
<1>5. b \in Nat /\ b > 0 /\ b <= MaxTime
  BY <1>1, <1>3, <1>4
<1>6. k \in Nat /\ k <= b
  BY <1>4, <1>5, CutoffIs
<1>7. k <= MaxTime
  BY <1>1, <1>5, <1>6
<1>8. ASSUME c.payload # Nothing
      PROVE  TokensOk(c.payload.tokens, c.account) /\ TokensOk(c.payload.visible, c.account)
  <2>1. PICK u, d : u = c.account /\ d = c.payload
    BY Zenon
  <2>2. <<u, d>> \in saved
    BY <1>8, <2>1 DEF ApiInv, CallSound, Loaded, Known
  <2>3. PayloadOk(u, d)
    BY <2>2, KnownOk
  <2> QED BY <2>1, <2>3 DEF PayloadOk
<1> QED BY <1>1, <1>3, <1>4, <1>5, <1>6, <1>7, <1>8

\* The replay up to the cutoff.
LEMMA MatureScores ==
    ASSUME ApiInv, ScoreInv, NEW p \in Lambdas, Mature(p)
    PROVE  ScoreInv'
<1>1. PICK c, b, k, fk : c = call[p] /\ b = c.reference /\ k = score_cutoff_block(b) /\ fk = fork
  BY Zenon
<1>2. PICK old : old = IF c.cold \/ c.payload = Nothing THEN NoTokens ELSE c.payload.tokens
  OBVIOUS
<1>3. PICK tokens : tokens = score_to_block(old, c.account, b, k)
  OBVIOUS
<1>4. PICK next : next = [c EXCEPT !.matured = tokens]
  OBVIOUS
<1>5. /\ pc[p] = "anchored" /\ Replayed(p, "matured", tokens, next)
      /\ UNCHANGED <<chain, saved, writes>>
  BY <1>1, <1>2, <1>3, <1>4 DEF Mature
<1>6. /\ CallShape(c) /\ k \in Nat /\ k <= MaxTime /\ b \in Nat /\ b > 0 /\ b <= MaxTime
      /\ c.hash \in Nat /\ c.hash <= fk + 1 /\ fk \in {0, 1} /\ (c.hash = 0 <=> b < ForkBlock)
      /\ (c.payload # Nothing => TokensOk(c.payload.tokens, c.account))
  BY <1>1, <1>5, AtReplay
<1>7. TokensOk(old, c.account)
  BY <1>2, <1>6, NoTokensOk
<1>8. /\ next.reference = b /\ next.hash = c.hash /\ next.account = c.account
      /\ next.matured = tokens
  BY <1>1, <1>4, <1>6 DEF CallShape
<1>9. ASSUME ~IsStale(tokens)  PROVE CallExact("matured", next, fork)
  <2>1. TokensAt(tokens, c.account, fk, b, k)
    BY <1>1, <1>3, <1>6, <1>7, <1>9, ReplayEnds
  <2>2. fk <= fk /\ b \in 1 .. MaxTime
    BY <1>6, MaxTimeNat
  <2>3. Since(tokens, next, k, fk)
    BY <1>6, <1>8, <2>1, <2>2 DEF Since
  <2>4. CallExact("matured", next, fk)
    BY <1>1, <1>6, <1>8, <2>2, <2>3 DEF CallExact
  <2> QED BY <1>1, <2>4
<1> QED BY <1>5, <1>9, ReplayedScores

\* The replay up to the reference block.
LEMMA VisibleScores ==
    ASSUME ApiInv, ScoreInv, NEW p \in Lambdas, Visible(p)
    PROVE  ScoreInv'
<1>1. PICK c, b, fk : c = call[p] /\ b = c.reference /\ fk = fork
  BY Zenon
<1>2. PICK old : old = IF c.cold \/ c.payload = Nothing THEN c.matured ELSE c.payload.visible
  OBVIOUS
<1>3. PICK tokens : tokens = score_to_block(old, c.account, b, b)
  OBVIOUS
<1>4. PICK next : next = [c EXCEPT !.visible = tokens]
  OBVIOUS
<1>5. /\ pc[p] = "matured" /\ Replayed(p, "visible", tokens, next)
      /\ UNCHANGED <<chain, saved, writes>>
  BY <1>1, <1>2, <1>3, <1>4 DEF Visible
<1>6. /\ CallShape(c) /\ b \in Nat /\ b > 0 /\ b <= MaxTime
      /\ c.hash \in Nat /\ c.hash <= fk + 1 /\ fk \in {0, 1} /\ (c.hash = 0 <=> b < ForkBlock)
      /\ (c.payload # Nothing => TokensOk(c.payload.visible, c.account))
  BY <1>1, <1>5, AtReplay
<1>7. PICK k : k = score_cutoff_block(b)
  OBVIOUS
<1>8. Since(c.matured, c, k, fk)
  BY <1>1, <1>5, <1>7 DEF ScoreInv, CallExact
<1>9. PICK g \in {0, 1} : /\ g <= fk /\ c.hash <= g + 1
                          /\ TokensAt(c.matured, c.account, g, b, k)
  BY <1>1, <1>8 DEF Since
<1>10. TokensOk(c.matured, c.account)
  BY <1>9, TokenAtOk DEF TokensAt, TokensOk
<1>11. TokensOk(old, c.account)
  BY <1>2, <1>6, <1>10
<1>12. /\ next.reference = b /\ next.hash = c.hash /\ next.account = c.account
       /\ next.matured = c.matured /\ next.visible = tokens
  BY <1>1, <1>4, <1>6 DEF CallShape
<1>13. ASSUME ~IsStale(tokens)  PROVE CallExact("visible", next, fork)
  <2>1. TokensAt(tokens, c.account, fk, b, b)
    BY <1>1, <1>3, <1>6, <1>11, <1>13, ReplayEnds
  <2>2. fk <= fk /\ b \in 1 .. MaxTime
    BY <1>6, MaxTimeNat
  <2>3. Since(tokens, next, b, fk)
    BY <1>6, <1>12, <2>1, <2>2 DEF Since
  <2>4. Since(c.matured, next, k, fk)
    BY <1>9, <1>12 DEF Since
  <2>5. CallExact("visible", next, fk)
    BY <1>6, <1>7, <1>12, <2>2, <2>3, <2>4 DEF CallExact
  <2> QED BY <1>1, <2>5
<1> QED BY <1>5, <1>13, ReplayedScores

\* When the reference block still has its hash, what was replayed since the
\* anchor is of the chain that hash names.
LEMMA SinceConfirmed ==
    ASSUME NEW c, NEW fk \in {0, 1}, NEW target \in Nat, c.reference \in Nat,
           target <= c.reference, c.hash \in Nat, c.hash = 0 <=> c.reference < ForkBlock,
           HashOn(fk, c.reference) = c.hash, NEW tokens, Since(tokens, c, target, fk)
    PROVE  /\ ChainOf(c.hash) \in {0, 1}
           /\ TokensAt(tokens, c.account, ChainOf(c.hash), c.reference, target)
<1>1. PICK g \in {0, 1} : /\ g <= fk /\ c.hash <= g + 1
                          /\ TokensAt(tokens, c.account, g, c.reference, target)
  BY DEF Since
<1>2. ForkBlock \in Nat
  BY ScoreChainAssumption
<1>3. CASE c.hash = 0
  <2>1. ChainOf(c.hash) = 0 /\ target < ForkBlock
    BY <1>2, <1>3 DEF ChainOf
  <2>2. HashOn(g, target) = HashOn(0, target)
    BY <2>1 DEF HashOn
  <2>3. TokensAt(tokens, c.account, 0, c.reference, target)
    <3> SUFFICES ASSUME NEW i \in DOMAIN Tokens
                 PROVE  TokenAt(tokens[i], i, c.account, 0, ScoredAt(Tokens[i], c.reference), target)
      BY DEF TokensAt
    <3>1. PICK t, u, rates : /\ t = tokens[i] /\ u = c.account
                             /\ rates = ScoredAt(Tokens[i], c.reference)
      BY Zenon
    <3>2. TokenAt(t, i, u, g, rates, target)
      BY <1>1, <3>1 DEF TokensAt
    <3>3. TokenAt(t, i, u, 0, rates, target)
      BY <2>2, <3>2, TokenAtFork
    <3> QED BY <3>1, <3>3
  <2> QED BY <2>1, <2>3
<1>4. CASE c.hash # 0
  <2>1. c.hash = fk + 1
    BY <1>4 DEF HashOn
  <2>2. g = fk /\ c.hash - 1 = fk
    BY <1>1, <2>1
  <2>3. ChainOf(c.hash) = g
    BY <1>4, <2>2 DEF ChainOf
  <2> QED BY <1>1, <2>3
<1> QED BY <1>3, <1>4

\* The anchors are read again.
LEMMA ConfirmScores ==
    ASSUME ApiInv, ScoreInv, NEW p \in Lambdas, Confirm(p)
    PROVE  ScoreInv'
<1>1. PICK c, fk : c = call[p] /\ fk = fork
  BY Zenon
<1>2. /\ pc[p] = "visible" /\ pc' = [pc EXCEPT ![p] = "computed"] /\ call' = call
      /\ HashOn(fk, c.reference) = c.hash /\ UNCHANGED <<chain, saved, writes>>
  BY <1>1 DEF Confirm, Goes
<1>3. fk \in {0, 1} /\ CallExact("visible", c, fk)
  BY <1>1, <1>2 DEF ScoreInv
<1>4. PICK b, k : b = c.reference /\ k = score_cutoff_block(b)
  BY Zenon
<1>5. /\ b \in 1 .. MaxTime /\ c.hash \in Nat /\ c.hash <= fk + 1 /\ (c.hash = 0 <=> b < ForkBlock)
      /\ Since(c.matured, c, k, fk) /\ Since(c.visible, c, b, fk)
  BY <1>3, <1>4 DEF CallExact
<1>6. b \in Nat /\ b <= b /\ k \in Nat /\ k <= b
  <2>1. b \in Nat /\ b > 0 /\ b <= b
    BY <1>5, MaxTimeNat
  <2> QED BY <1>4, <2>1, CutoffIs
<1>7. /\ ChainOf(c.hash) \in {0, 1} /\ TokensAt(c.matured, c.account, ChainOf(c.hash), b, k)
  BY <1>2, <1>3, <1>4, <1>5, <1>6, SinceConfirmed
<1>8. TokensAt(c.visible, c.account, ChainOf(c.hash), b, b)
  BY <1>2, <1>3, <1>4, <1>5, <1>6, SinceConfirmed
<1>9. CallExact("computed", c, fk)
  BY <1>4, <1>5, <1>7, <1>8 DEF CallExact
<1>10. ApiType /\ UNCHANGED chain /\ call' = [call EXCEPT ![p] = c]
  BY <1>1, <1>2 DEF ApiInv, ApiType
<1>11. /\ \A s \in saved' : PayloadOk(s[1], s[2])
       /\ \A w \in writes' : PayloadOk(w.account, w.payload)
  BY <1>2 DEF ScoreInv
<1> QED BY <1>1, <1>2, <1>9, <1>10, <1>11, OneMoves

\* What is sent to the table is exact.
LEMMA SendSaveScores ==
    ASSUME ApiInv, ScoreInv, NEW p \in Lambdas, SendSave(p)
    PROVE  ScoreInv'
<1>1. PICK c, u, w : c = call[p] /\ u = c.account /\ w = WriteOf(p)
  BY Zenon
<1>2. /\ pc[p] = "computed" /\ pc' = [pc EXCEPT ![p] = "saving"] /\ call' = call
      /\ writes' = writes \cup {w} /\ UNCHANGED <<chain, saved>>
  BY <1>1 DEF SendSave, Goes
<1>3. u \in Accounts
  BY <1>1, <1>2 DEF ApiInv, CallSound, Loaded
<1>4. CallExact("computed", c, fork)
  BY <1>1, <1>2 DEF ScoreInv
<1>5. PICK d : d = Payload(u, c)
  OBVIOUS
<1>6. PayloadOk(u, d)
  <2>1. /\ c.reference \in 1 .. MaxTime /\ ChainOf(c.hash) \in {0, 1}
        /\ TokensAt(c.matured, u, ChainOf(c.hash), c.reference, score_cutoff_block(c.reference))
        /\ TokensAt(c.visible, u, ChainOf(c.hash), c.reference, c.reference)
    BY <1>1, <1>4 DEF CallExact
  <2> QED BY <1>3, <1>5, <2>1, PayloadExact
<1>7. w.account = u /\ w.payload = d
  BY <1>1, <1>5 DEF WriteOf
<1>8. /\ \A s \in saved' : PayloadOk(s[1], s[2])
      /\ \A v \in writes' : PayloadOk(v.account, v.payload)
  BY <1>2, <1>6, <1>7 DEF ScoreInv
<1>9. ApiType /\ UNCHANGED chain /\ call' = [call EXCEPT ![p] = c] /\ "saving" \in Quiet
  BY <1>1, <1>2 DEF ApiInv, ApiType, Quiet
<1>10. CallExact("saving", c, fork)
  BY <1>9, QuietExact
<1> QED BY <1>2, <1>8, <1>9, <1>10, OneMoves

\* What arrives was sent.
LEMMA ArriveScores ==
    ASSUME ApiInv, ScoreInv, NEW w \in writes, Arrive(w)
    PROVE  ScoreInv'
<1>1. PICK u, d : u = w.account /\ d = w.payload
  BY Zenon
<1>2. PayloadOk(u, d)
  BY <1>1 DEF ScoreInv
<1>3. writes' \subseteq writes /\ saved' \subseteq saved \cup {<<u, d>>} /\ UNCHANGED chain
  BY <1>1 DEF Arrive
<1>4. ASSUME NEW s \in saved'  PROVE PayloadOk(s[1], s[2])
  <2>1. CASE s \in saved
    BY <2>1 DEF ScoreInv
  <2>2. CASE s = <<u, d>>
    <3>1. s[1] = u /\ s[2] = d
      BY <2>2
    <3> QED BY <1>2, <3>1
  <2> QED BY <1>3, <2>1, <2>2
<1>5. \A v \in writes' : PayloadOk(v.account, v.payload)
  BY <1>3 DEF ScoreInv
<1>6. \/ UNCHANGED <<pc, call>>
      \/ \E p \in Lambdas : pc' = [pc EXCEPT ![p] = "idle"] /\ call' = [call EXCEPT ![p] = NoCall]
  BY DEF Arrive, Return, Defer
<1>7. CASE UNCHANGED <<pc, call>>
  BY <1>3, <1>4, <1>5, <1>7 DEF ScoreInv, chain
<1>8. CASE \E p \in Lambdas : /\ pc' = [pc EXCEPT ![p] = "idle"]
                              /\ call' = [call EXCEPT ![p] = NoCall]
  <2>1. PICK p \in Lambdas : pc' = [pc EXCEPT ![p] = "idle"] /\ call' = [call EXCEPT ![p] = NoCall]
    BY <1>8
  <2>2. ApiType /\ "idle" \in Quiet
    BY DEF ApiInv, Quiet
  <2>3. CallExact("idle", NoCall, fork)
    BY <2>2, QuietExact
  <2> QED BY <1>3, <1>4, <1>5, <2>1, <2>2, <2>3, OneMoves
<1> QED BY <1>6, <1>7, <1>8

\* Nothing was replayed at first.
LEMMA ScoreInit == Init => ScoreInv
<1> SUFFICES ASSUME Init  PROVE ScoreInv
  OBVIOUS
<1>1. StartTime > 1 /\ StartTime <= MaxTime /\ StartTime \in Nat /\ MaxTime \in Nat
  BY ScoreApiAssumption, ScoreChainAssumption
<1>2. now <= MaxTime /\ finalized >= 1 /\ finalized <= now /\ fork \in {0, 1}
  BY <1>1 DEF Init
<1>3. ASSUME NEW p \in Lambdas  PROVE CallExact(pc[p], call[p], fork)
  <2>1. pc[p] = "idle" /\ "idle" \in Quiet
    BY DEF Init, Quiet
  <2> QED BY <2>1, QuietExact
<1>4. saved = {} /\ writes = {}
  BY DEF Init
<1> QED BY <1>2, <1>3, <1>4 DEF ScoreInv

LEMMA ScoreNext == ApiInv /\ ScoreInv /\ [Next]_vars => ScoreInv'
<1> SUFFICES ASSUME ApiInv, ScoreInv, [Next]_vars  PROVE ScoreInv'
  OBVIOUS
<1>1. now \in Nat /\ finalized \in Nat /\ MaxTime \in Nat /\ ApiType
  BY MaxTimeNat DEF ApiInv, ApiType
<1>2. now <= MaxTime /\ finalized >= 1 /\ finalized <= now /\ fork \in {0, 1}
  BY DEF ScoreInv
<1>3. CASE Tick \/ Finalize \/ Reorganise \/ UNCHANGED vars
  <2>1. UNCHANGED <<saved, writes, pc, call>>
    BY <1>3 DEF Tick, Finalize, Reorganise, vars
  <2>2. fork' \in {0, 1} /\ fork <= fork'
    BY <1>2, <1>3 DEF Tick, Finalize, Reorganise, vars
  <2>3. now' <= MaxTime /\ finalized' >= 1 /\ finalized' <= now'
    BY <1>1, <1>2, <1>3 DEF Tick, Finalize, Reorganise, vars
  <2> QED BY <2>1, <2>2, <2>3, WorldScores
<1>4. ASSUME NEW w \in writes, Arrive(w)  PROVE ScoreInv'
  BY <1>4, ArriveScores
<1>5. ASSUME NEW p \in Lambdas,
             \/ Load(p) \/ Acquire(p) \/ Reserve(p)
             \/ AcquireLost(p) \/ ReserveDenied(p) \/ NoAnchor(p) \/ AnchorChanged(p) \/ TimeOut(p)
      PROVE  ScoreInv'
  BY <1>1, <1>5, QuietSteps
<1>6. ASSUME NEW p \in Lambdas,
             Anchor(p) \/ Mature(p) \/ Visible(p) \/ Confirm(p) \/ SendSave(p)
      PROVE  ScoreInv'
  BY <1>6, AnchorScores, MatureScores, VisibleScores, ConfirmScores, SendSaveScores
<1> QED BY <1>3, <1>4, <1>5, <1>6 DEF Next

\* At every moment each stored checkpoint, and each replay under way, is what
\* the transfers of a chain of its block make it.
THEOREM ScoreInvHolds == Spec => []ScoreInv
BY ApiInvHolds, ScoreInit, ScoreNext, PTL DEF Spec

\* Every score the API ever saved is the exact one of its account and block:
\* whatever days, chains, failures and late saves its checkpoints went through.
THEOREM SavedScoresAreExact == Spec => []SavedScoreIsExact
<1>1. ScoreInv => SavedScoreIsExact
  <2> SUFFICES ASSUME ScoreInv, NEW s \in saved  PROVE ExactPayload(s[1], s[2])
    BY DEF SavedScoreIsExact, ExactPayload, ChainOf
  <2> QED BY DEF ScoreInv, PayloadOk
<1> QED BY <1>1, ScoreInvHolds, PTL

=============================================================================
