------------------------ MODULE ScoreCheckpointProofs ------------------------
(***************************************************************************)
(* What settlement runs that share a score checkpoint can rely on, for     *)
(* every number of runs, tokens and accounts, every history and whatever   *)
(* dies on the way: one run at a time works on the checkpoint, and no      *)
(* commit takes back blocks that the file it replaces had indexed.         *)
(*                                                                         *)
(* The second part is about what is computed.  Every token in memory or in *)
(* a file is the exact replay of one of the two chains up to its cursor,   *)
(* so that files survive crashes and a continued score is the score of the *)
(* whole history.                                                          *)
(***************************************************************************)
EXTENDS ScoreCheckpoint, ScoreCoreProofs, TLAPS

\* Places of a run that has the lock, and of one that has loaded the file and
\* not replaced it yet.
Busy    == {"locked", "indexing", "ready", "written", "renamed"}
Loading == {"indexing", "ready", "written"}

\* A token of a checkpoint, whatever was computed for its accounts.
TokenSound(s) ==
    s # NoToken =>
        /\ s = [decimals |-> s.decimals, cursor |-> s.cursor, hash |-> s.hash, rates |-> s.rates,
                accounts |-> s.accounts]
        /\ s.cursor \in Nat

TokensSound(c) == c = [t \in Tokens |-> c[t]] /\ \A t \in Tokens : TokenSound(c[t])

FileSound(f) ==
    f # NoFile =>
        /\ f = [tokens |-> f.tokens, key |-> f.key, synced |-> f.synced, whole |-> f.whole]
        /\ TokensSound(f.tokens)

StoreType ==
    /\ head \in Nat
    /\ place \in [Runs -> Busy \cup {"idle", "dead"}]
    /\ asOf \in [Runs -> Nat]
    /\ mem = [p \in Runs |-> mem[p]] /\ \A p \in Runs : TokensSound(mem[p])
    /\ FileSound(file) /\ FileSound(durable)

\* One run at a time has the lock.
LockHeld == \A p \in Runs : place[p] \in Busy => lock = p

Cursor(s) == IF s = NoToken THEN 0 ELSE s.cursor

\* A run that has loaded the file has indexed at least as much as the file.
Ahead ==
    \A p \in Runs : place[p] \in Loading =>
        \A t \in Tokens : CursorOf(file, t) <= Cursor(mem[p][t])

\* The inductive strengthening of CursorNeverRegresses.
StoreInv == StoreType /\ LockHeld /\ Ahead

-----------------------------------------------------------------------------
\* Cursors are numbers.
LEMMA CursorType ==
    ASSUME NEW s, TokenSound(s)
    PROVE  Cursor(s) \in Nat
BY DEF TokenSound, Cursor

\* A token and a file that exist are not the missing ones.
LEMMA TokenExists ==
    ASSUME NEW d, NEW c, NEW h, NEW r, NEW a
    PROVE  [decimals |-> d, cursor |-> c, hash |-> h, rates |-> r, accounts |-> a] # NoToken
<1>1. "none" \notin DOMAIN [decimals |-> d, cursor |-> c, hash |-> h, rates |-> r, accounts |-> a]
  OBVIOUS
<1>2. "none" \in DOMAIN NoToken
  BY DEF NoToken
<1> QED BY <1>1, <1>2

\* What a file holds of a token.
LEMMA CursorOfFile ==
    ASSUME NEW f, NEW t
    PROVE  CursorOf(f, t) = IF f = NoFile THEN 0 ELSE Cursor(f.tokens[t])
BY DEF CursorOf, Cursor

\* A missing token, and a checkpoint without tokens.
LEMMA Missing ==
    /\ TokenSound(NoToken) /\ Cursor(NoToken) = 0
    /\ TokensSound([t \in Tokens |-> NoToken]) /\ FileSound(NoFile)
BY DEF TokenSound, Cursor, TokensSound, FileSound

\* A run that ends gives the lock back.
LEMMA ReleaseKeeps ==
    ASSUME StoreInv, NEW p \in Runs, place[p] \in Busy, Release(p), file' = file,
           durable' \in {file, durable}
    PROVE  StoreInv'
<1>1. /\ place' = [place EXCEPT ![p] = "idle"] /\ lock' = NoRun /\ head' = head
      /\ asOf' = [asOf EXCEPT ![p] = 0]
      /\ mem' = [mem EXCEPT ![p] = [t \in Tokens |-> NoToken]]
  BY DEF Release, Forget, world
<1>2. StoreType'
  BY <1>1, Missing DEF StoreInv, StoreType
<1>3. \A q \in Runs : place'[q] \notin Busy
  BY <1>1 DEF StoreInv, StoreType, LockHeld, Busy
<1>4. Loading \subseteq Busy
  BY DEF Loading, Busy
<1> QED BY <1>2, <1>3, <1>4 DEF StoreInv, LockHeld, Ahead

\* A step of p within the lock, which leaves the file alone.
LEMMA BusyKeeps ==
    ASSUME StoreInv, NEW p \in Runs, place[p] \in Busy, NEW to \in Busy,
           place' = [place EXCEPT ![p] = to], UNCHANGED <<head, file, durable, lock, asOf>>,
           NEW m, mem' = [mem EXCEPT ![p] = m], TokensSound(m),
           to \in Loading => \A t \in Tokens : CursorOf(file, t) <= Cursor(m[t])
    PROVE  StoreInv'
<1>1. /\ place'[p] = to /\ mem'[p] = m
      /\ \A q \in Runs \ {p} : place'[q] = place[q] /\ mem'[q] = mem[q]
  BY DEF StoreInv, StoreType
<1>2. StoreType'
  BY <1>1 DEF StoreInv, StoreType
<1>3. LockHeld'
  BY <1>1 DEF StoreInv, LockHeld
<1>4. Ahead'
  <2> SUFFICES ASSUME NEW q \in Runs, place'[q] \in Loading, NEW t \in Tokens
               PROVE  CursorOf(file, t)' <= Cursor(mem'[q][t])
    BY DEF Ahead, Cursor
  <2>1. CursorOf(file, t)' = CursorOf(file, t)
    BY DEF CursorOf
  <2>2. CASE q = p
    BY <1>1, <2>1, <2>2
  <2>3. CASE q # p
    BY <1>1, <2>1, <2>3 DEF StoreInv, Ahead
  <2> QED BY <2>2, <2>3
<1> QED BY <1>2, <1>3, <1>4 DEF StoreInv

-----------------------------------------------------------------------------
(* The steps *)

\* The lock is free: nobody works on the checkpoint.
LEMMA OpenKeeps ==
    ASSUME StoreInv, NEW p \in Runs, Open(p)
    PROVE  StoreInv'
<1>1. /\ lock = NoRun /\ lock' = p /\ place' = [place EXCEPT ![p] = "locked"]
      /\ UNCHANGED <<head, file, durable, mem>>
  BY DEF Open, world
<1>2. asOf' \in [Runs -> Nat]
  <2>1. PICK b \in 1 .. head : asOf' = [asOf EXCEPT ![p] = b]
    BY DEF Open
  <2> QED BY <2>1 DEF StoreInv, StoreType
<1>3. \A q \in Runs : place[q] \notin Busy
  BY <1>1, CheckpointAssumption DEF StoreInv, LockHeld
<1>4. place'[p] = "locked" /\ \A q \in Runs \ {p} : place'[q] = place[q]
  BY <1>1 DEF StoreInv, StoreType
<1>5. "locked" \in Busy /\ "locked" \notin Loading /\ Loading \subseteq Busy
  BY DEF Busy, Loading
<1>6. StoreType'
  BY <1>1, <1>2, <1>5 DEF StoreInv, StoreType
<1>7. LockHeld' /\ Ahead'
  BY <1>1, <1>3, <1>4, <1>5 DEF LockHeld, Ahead
<1> QED BY <1>6, <1>7 DEF StoreInv

\* The file is loaded as it is.
LEMMA LoadKeeps ==
    ASSUME StoreInv, NEW p \in Runs, Load(p)
    PROVE  StoreInv'
<1>1. PICK m : m = IF file = NoFile THEN [t \in Tokens |-> NoToken] ELSE file.tokens
  OBVIOUS
<1>2. /\ place[p] = "locked" /\ place' = [place EXCEPT ![p] = "indexing"]
      /\ mem' = [mem EXCEPT ![p] = m] /\ UNCHANGED <<head, file, durable, lock, asOf>>
  BY <1>1 DEF Load, world
<1>3. TokensSound(m)
  BY <1>1, Missing DEF StoreInv, StoreType, FileSound
<1>4. ASSUME NEW t \in Tokens  PROVE CursorOf(file, t) <= Cursor(m[t])
  <2>1. Cursor(m[t]) \in Nat
    BY <1>3, CursorType DEF TokensSound
  <2>2. CursorOf(file, t) = Cursor(m[t])
    BY <1>1, CursorOfFile, Missing
  <2> QED BY <2>1, <2>2
<1>5. place[p] \in Busy /\ "indexing" \in Busy
  BY <1>2 DEF Busy
<1> QED BY <1>2, <1>3, <1>4, <1>5, BusyKeeps

\* A token that is extended: its cursor does not go back.
LEMMA ExtendedFields ==
    ASSUME StoreInv, NEW p \in Runs, NEW t, NEW s, s # NoToken, TokenSound(s),
           Advanceable(p, s, t), NEW n, n = Extended(p, s, t).token
    PROVE  TokenSound(n) /\ Cursor(s) <= Cursor(n)
<1>1. asOf[p] \in Nat /\ asOf[p] >= s.cursor /\ s.cursor \in Nat
  BY DEF StoreInv, StoreType, Advanceable, TokenSound
<1>2. CASE asOf[p] = s.cursor
  <2>1. n = s
    BY <1>2 DEF Extended
  <2> QED BY <1>1, <2>1 DEF Cursor
<1>3. CASE asOf[p] # s.cursor
  <2>1. PICK x, h, r : n = [s EXCEPT !.accounts = x, !.cursor = asOf[p], !.hash = h, !.rates = r]
    BY <1>3, Zenon DEF Extended
  <2>2. PICK a : a = asOf[p]
    OBVIOUS
  <2>3. n = [decimals |-> s.decimals, cursor |-> a, hash |-> h, rates |-> r, accounts |-> x]
    BY <2>1, <2>2 DEF TokenSound
  <2>4. n # NoToken
    BY <2>3, TokenExists
  <2> QED BY <1>1, <2>2, <2>3, <2>4 DEF TokenSound, Cursor
<1> QED BY <1>2, <1>3

\* A token that is not in the checkpoint yet.
LEMMA EmptyFields ==
    ASSUME NEW t
    PROVE  EmptyToken(t) # NoToken /\ TokenSound(EmptyToken(t)) /\ Cursor(EmptyToken(t)) = 0
<1>1. PICK e : e = EmptyToken(t)
  OBVIOUS
<1>2. PICK d, r, x : e = [decimals |-> d, cursor |-> 0, hash |-> 0, rates |-> r, accounts |-> x]
  BY <1>1, Zenon DEF EmptyToken
<1>3. e # NoToken
  BY <1>2, TokenExists
<1>4. TokenSound(e) /\ Cursor(e) = 0
  BY <1>2, <1>3 DEF TokenSound, Cursor
<1> QED BY <1>1, <1>3, <1>4

\* A token is extended to the run's block, or the run fails.
LEMMA IndexKeeps ==
    ASSUME StoreInv, NEW p \in Runs, IndexToken(p)
    PROVE  StoreInv'
<1>1. place[p] = "indexing" /\ place[p] \in Busy /\ "indexing" \in Busy /\ "indexing" \in Loading
  BY DEF IndexToken, Busy, Loading
<1>2. CASE Release(p) /\ UNCHANGED <<file, durable>>
  BY <1>1, <1>2, ReleaseKeeps
<1>3. CASE ~(Release(p) /\ UNCHANGED <<file, durable>>)
  <2> DEFINE Old(t) == IF mem[p][t] = NoToken THEN EmptyToken(t) ELSE mem[p][t]
  <2>1. PICK t \in todo[p] :
          /\ Advanceable(p, Old(t), t)
          /\ mem' = [mem EXCEPT ![p][t] = Extended(p, Old(t), t).token]
          /\ UNCHANGED <<world, file, durable, lock, place, asOf, key, claimants>>
    BY <1>3 DEF IndexToken
  <2>2. PICK c, s, n : c = mem[p] /\ s = Old(t) /\ n = Extended(p, s, t).token
    OBVIOUS
  <2>3. PICK m : m = [c EXCEPT ![t] = n]
    OBVIOUS
  <2>4. /\ mem' = [mem EXCEPT ![p] = m] /\ place' = [place EXCEPT ![p] = "indexing"]
        /\ UNCHANGED <<head, file, durable, lock, asOf>>
    BY <1>1, <2>1, <2>2, <2>3 DEF world, StoreInv, StoreType
  <2>5. TokensSound(c) /\ \A v \in Tokens : CursorOf(file, v) <= Cursor(c[v])
    BY <1>1, <2>2 DEF StoreInv, StoreType, Ahead
  <2>6. CASE t \notin Tokens
    <3>1. m = c
      BY <2>3, <2>5, <2>6 DEF TokensSound
    <3> QED BY <1>1, <2>4, <2>5, <3>1, BusyKeeps
  <2>7. CASE t \in Tokens
    <3>1. s # NoToken /\ TokenSound(s) /\ Cursor(c[t]) <= Cursor(s)
      <4>1. CASE c[t] = NoToken
        BY <2>2, <4>1, EmptyFields, Missing
      <4>2. CASE c[t] # NoToken
        <5>1. s = c[t] /\ TokenSound(s)
          BY <2>2, <2>5, <2>7, <4>2 DEF TokensSound
        <5> QED BY <4>2, <5>1, CursorType
      <4> QED BY <4>1, <4>2
    <3> HIDE DEF Old
    <3>2. TokenSound(n) /\ Cursor(s) <= Cursor(n)
      BY <2>1, <2>2, <3>1, ExtendedFields
    <3>3. m[t] = n /\ \A v \in Tokens \ {t} : m[v] = c[v]
      BY <2>3, <2>5, <2>7 DEF TokensSound
    <3>4. TokensSound(m)
      BY <2>3, <2>5, <3>2, <3>3 DEF TokensSound
    <3>5. ASSUME NEW v \in Tokens  PROVE CursorOf(file, v) <= Cursor(m[v])
      <4>1. CASE v # t
        BY <2>5, <3>3, <4>1
      <4>2. CASE v = t
        <5>1. /\ CursorOf(file, t) <= Cursor(c[t]) /\ Cursor(m[t]) = Cursor(n)
              /\ Cursor(c[t]) \in Nat /\ Cursor(s) \in Nat /\ Cursor(n) \in Nat
          BY <2>5, <2>7, <3>1, <3>2, <3>3, CursorType DEF TokensSound
        <5>2. CursorOf(file, t) \in Nat
          <6>1. CASE file = NoFile
            BY <6>1, CursorOfFile
          <6>2. CASE file # NoFile
            <7>1. TokenSound(file.tokens[t])
              BY <2>7, <6>2 DEF StoreInv, StoreType, FileSound, TokensSound
            <7> QED BY <6>2, <7>1, CursorOfFile, CursorType
          <6> QED BY <6>1, <6>2
        <5> QED BY <3>1, <3>2, <4>2, <5>1, <5>2
      <4> QED BY <4>1, <4>2
    <3> QED BY <1>1, <2>4, <3>4, <3>5, BusyKeeps
  <2> QED BY <2>6, <2>7
<1> QED BY <1>2, <1>3

\* The run has all its tokens, and writes its temporary file.
LEMMA ReadyKeeps ==
    ASSUME StoreInv, NEW p \in Runs, Opened(p) \/ WriteTemporary(p)
    PROVE  StoreInv'
<1>1. PICK to \in {"ready", "written"} :
         place' = [place EXCEPT ![p] = to] /\ place[p] \in {"indexing", "ready"}
  BY DEF Opened, WriteTemporary
<1>2. UNCHANGED <<head, file, durable, lock, asOf, mem>>
  BY DEF Opened, WriteTemporary, world, local
<1>3. place[p] \in Busy /\ place[p] \in Loading /\ to \in Busy
  BY <1>1 DEF Busy, Loading
<1>4. PICK m : m = mem[p]
  OBVIOUS
<1>5. TokensSound(m) /\ mem' = [mem EXCEPT ![p] = m]
      /\ \A t \in Tokens : CursorOf(file, t) <= Cursor(m[t])
  BY <1>2, <1>3, <1>4 DEF StoreInv, StoreType, Ahead
<1> QED BY <1>1, <1>2, <1>3, <1>5, BusyKeeps

\* The checkpoint is replaced by the run that has the lock.
LEMMA RenameKeeps ==
    ASSUME StoreInv, NEW p \in Runs, Rename(p)
    PROVE  StoreInv'
<1>1. /\ place[p] = "written" /\ place' = [place EXCEPT ![p] = "renamed"]
      /\ file' = serialize_state(p, TRUE) /\ UNCHANGED <<head, durable, lock, asOf, mem>>
  BY DEF Rename, world, local
<1>2. /\ "written" \in Busy /\ "renamed" \in Busy /\ "renamed" \notin Loading
      /\ Loading \subseteq Busy
  BY DEF Busy, Loading
<1>3. FileSound(file')
  <2>1. PICK c, k : c = mem[p] /\ k = key[p]
    OBVIOUS
  <2>2. file' = [tokens |-> c, key |-> k, synced |-> TRUE, whole |-> TRUE] /\ TokensSound(c)
    BY <1>1, <2>1 DEF serialize_state, StoreInv, StoreType
  <2> QED BY <2>2 DEF FileSound
<1>4. place'[p] = "renamed" /\ \A q \in Runs \ {p} : place'[q] = place[q]
  BY <1>1 DEF StoreInv, StoreType
<1>5. \A q \in Runs \ {p} : place[q] \notin Busy
  BY <1>1, <1>2 DEF StoreInv, LockHeld
<1>6. StoreType'
  BY <1>1, <1>2, <1>3 DEF StoreInv, StoreType
<1>7. LockHeld' /\ Ahead'
  BY <1>1, <1>2, <1>4, <1>5 DEF StoreInv, LockHeld, Ahead
<1> QED BY <1>6, <1>7 DEF StoreInv

\* Runs that end by themselves.
LEMMA EndsKeep ==
    ASSUME StoreInv, NEW p \in Runs, LoadFails(p) \/ SyncDirectory(p) \/ Fails(p)
    PROVE  StoreInv'
<1>1. place[p] \in Busy
  BY DEF LoadFails, SyncDirectory, Fails, Busy, StoreInv, StoreType
<1> QED BY <1>1, ReleaseKeeps DEF LoadFails, SyncDirectory, Fails

\* Runs that die, and the operator who removes the lock of a dead one.
LEMMA CrashKeeps ==
    ASSUME StoreInv, NEW p \in Runs, Die(p) \/ ClearLock(p)
    PROVE  StoreInv'
<1>1. PICK to \in {"idle", "dead"} : place' = [place EXCEPT ![p] = to]
  BY DEF Die, ClearLock
<1>2. UNCHANGED <<head, file, durable>> /\ to \notin Busy /\ Loading \subseteq Busy
  BY DEF Die, ClearLock, world, Busy, Loading
<1>3. /\ asOf' = [asOf EXCEPT ![p] = 0] \/ asOf' = asOf
      /\ mem' = [mem EXCEPT ![p] = [t \in Tokens |-> NoToken]] \/ mem' = mem
  BY DEF Die, ClearLock, Forget, local
<1>4. StoreType'
  BY <1>1, <1>2, <1>3, Missing DEF StoreInv, StoreType
<1>5. place'[p] = to /\ \A q \in Runs \ {p} : place'[q] = place[q] /\ mem'[q] = mem[q]
  BY <1>1, <1>3 DEF StoreInv, StoreType
<1>6. ASSUME NEW q \in Runs, place'[q] \in Busy  PROVE q # p /\ place[q] \in Busy /\ lock' = lock
  <2>1. q # p /\ place[q] \in Busy
    BY <1>2, <1>5, <1>6
  <2>2. lock = q
    BY <2>1 DEF StoreInv, LockHeld
  <2> QED BY <2>1, <2>2 DEF Die, ClearLock
<1>7. LockHeld'
  BY <1>6 DEF StoreInv, LockHeld
<1>8. Ahead'
  <2> SUFFICES ASSUME NEW q \in Runs, place'[q] \in Loading, NEW t \in Tokens
               PROVE  CursorOf(file, t)' <= Cursor(mem'[q][t])
    BY DEF Ahead, Cursor
  <2>1. CursorOf(file, t)' = CursorOf(file, t)
    BY <1>2 DEF CursorOf
  <2> QED BY <1>2, <1>5, <1>6, <2>1 DEF StoreInv, Ahead
<1> QED BY <1>4, <1>7, <1>8 DEF StoreInv

\* After a power loss no run is left.
LEMMA PowerLossKeeps ==
    ASSUME StoreInv, PowerLoss
    PROVE  StoreInv'
<1>1. /\ place' = [p \in Runs |-> IF place[p] = "idle" THEN "idle" ELSE "dead"]
      /\ asOf' = [p \in Runs |-> 0] /\ mem' = [p \in Runs |-> [t \in Tokens |-> NoToken]]
      /\ head' = head
  BY DEF PowerLoss, world
<1>2. PICK f \in {file, durable} : file' = Settled(f) /\ durable' = Settled(f)
  BY DEF PowerLoss
<1>3. FileSound(Settled(f))
  <2>1. FileSound(f)
    BY DEF StoreInv, StoreType
  <2>2. CASE f = NoFile \/ f.synced
    BY <2>1, <2>2 DEF Settled
  <2>3. CASE ~(f = NoFile \/ f.synced)
    <3>1. PICK n : n = [f EXCEPT !.whole = FALSE] /\ Settled(f) = n
      BY <2>3 DEF Settled
    <3>2. n = [tokens |-> n.tokens, key |-> n.key, synced |-> n.synced, whole |-> n.whole]
          /\ n.tokens = f.tokens
      BY <2>1, <2>3, <3>1 DEF FileSound
    <3> QED BY <2>1, <2>3, <3>1, <3>2 DEF FileSound
  <2> QED BY <2>2, <2>3
<1>4. \A p \in Runs : place'[p] \notin Busy
  BY <1>1 DEF Busy
<1>5. StoreType' /\ Loading \subseteq Busy
  BY <1>1, <1>2, <1>3, Missing DEF StoreInv, StoreType, Loading, Busy
<1> QED BY <1>4, <1>5 DEF StoreInv, LockHeld, Ahead

\* Steps that no run takes part in.
LEMMA ChainKeeps ==
    ASSUME StoreInv, head' \in Nat, UNCHANGED <<file, durable, lock, place, local>>
    PROVE  StoreInv'
<1>1. UNCHANGED <<asOf, mem>>
  BY DEF local
<1>2. StoreType' /\ LockHeld'
  BY <1>1 DEF StoreInv, StoreType, LockHeld
<1>3. Ahead'
  BY <1>1 DEF StoreInv, Ahead, CursorOf, Cursor
<1> QED BY <1>2, <1>3 DEF StoreInv

-----------------------------------------------------------------------------
\* There is no checkpoint at first.
LEMMA StoreInit == Init => StoreInv
<1> SUFFICES ASSUME Init  PROVE StoreInv
  OBVIOUS
<1>1. StoreType
  BY Missing, CheckpointAssumption DEF Init, StoreType
<1>2. \A p \in Runs : place[p] \notin Busy /\ place[p] \notin Loading
  BY DEF Init, Busy, Loading
<1> QED BY <1>1, <1>2 DEF StoreInv, LockHeld, Ahead

\* Every step keeps the invariant.
LEMMA StoreNext == StoreInv /\ [Next]_vars => StoreInv'
<1> SUFFICES ASSUME StoreInv, [Next]_vars  PROVE StoreInv'
  OBVIOUS
<1>1. head \in Nat
  BY DEF StoreInv, StoreType
<1>2. CASE Mine \/ Reorganise \/ (\E t \in Tokens : AddRate(t)) \/ UNCHANGED vars
  <2>1. head' \in Nat /\ UNCHANGED <<file, durable, lock, place, local>>
    BY <1>1, <1>2 DEF Mine, Reorganise, AddRate, vars, world
  <2> QED BY <2>1, ChainKeeps
<1>3. CASE PowerLoss
  BY <1>3, PowerLossKeeps
<1>4. ASSUME NEW p \in Runs, RunStep(p) \/ Die(p) \/ ClearLock(p)  PROVE StoreInv'
  BY <1>4, OpenKeeps, LoadKeeps, EndsKeep, IndexKeeps, ReadyKeeps, RenameKeeps, CrashKeeps
     DEF RunStep
<1> QED BY <1>2, <1>3, <1>4 DEF Next

\* One run at a time works on the checkpoint, on what the file holds.
THEOREM StoreInvHolds == Spec => []StoreInv
BY StoreInit, StoreNext, PTL DEF Spec

\* The file that a commit replaces had not indexed any token further.
CommitForward ==
    \A p \in Runs : Rename(p) => \A t \in Tokens : CursorOf(file', t) >= CursorOf(file, t)

\* What a rename puts in place of the file.
LEMMA CommitStep == StoreInv => CommitForward
<1> SUFFICES ASSUME StoreInv, NEW p \in Runs, Rename(p), NEW t \in Tokens
             PROVE  CursorOf(file', t) >= CursorOf(file, t)
  BY DEF CommitForward
<1>1. PICK c, k, n : c = mem[p] /\ k = key[p] /\ n = file'
  OBVIOUS
<1>2. n = [tokens |-> c, key |-> k, synced |-> TRUE, whole |-> TRUE]
      /\ place[p] \in Loading
  BY <1>1 DEF Rename, serialize_state, Loading
<1>3. n # NoFile
  <2>1. "none" \notin DOMAIN n /\ "none" \in DOMAIN NoFile
    BY <1>2 DEF NoFile
  <2> QED BY <2>1
<1>4. CursorOf(n, t) = Cursor(c[t])
  BY <1>2, <1>3, CursorOfFile
<1>5. CursorOf(file, t) <= Cursor(c[t])
  BY <1>1, <1>2 DEF StoreInv, Ahead
<1>6. Cursor(c[t]) \in Nat /\ CursorOf(file, t) \in Nat
  <2>1. TokenSound(c[t])
    BY <1>1 DEF StoreInv, StoreType, TokensSound
  <2>2. file # NoFile => TokenSound(file.tokens[t])
    BY DEF StoreInv, StoreType, FileSound, TokensSound
  <2> QED BY <2>1, <2>2, CursorType, CursorOfFile
<1> QED BY <1>1, <1>4, <1>5, <1>6

\* save_checkpoint never takes back blocks that another run had indexed,
\* whatever processes died or were restarted between.
THEOREM CommitsMoveForward == Spec => CursorNeverRegresses
<1>1. StoreInv /\ [Next]_vars => [CommitForward]_vars
  BY CommitStep
<1> QED BY <1>1, StoreInvHolds, PTL DEF Spec, CursorNeverRegresses, CommitForward

-----------------------------------------------------------------------------
(* What the runs and the files hold *)

\* The two chains, and the hashes of their blocks.
HistoryOn(tr, g, t) ==
    IF g = 0 THEN tr[t]
    ELSE SubSeq(tr[t], 1, Cardinality({k \in 1 .. Len(tr[t]) : tr[t][k].block < ForkBlock}))

HashOn(g, b) == IF b = 0 THEN 0 ELSE IF b < ForkBlock THEN 1 ELSE 2 + g

\* The world is a chain that grows, with rates that are added.
WorldOk(tr, fk, hd, rs) ==
    /\ tr \in Histories /\ fk \in {0, 1} /\ hd \in Nat /\ hd <= MaxHead
    /\ rs = [t \in Tokens |-> rs[t]] /\ \A t \in Tokens : RatesOk(rs[t])

\* A token's accounts are those of one of the chains so far at its cursor.
MadeFrom(s, t, tr, g) ==
    /\ s.hash = HashOn(g, s.cursor)
    /\ Standing(s.accounts, Accounts, HistoryOn(tr, g, t), s.rates, Decimals[t], s.cursor)

TokenExact(s, t, tr, fk, hd, rs) ==
    s # NoToken =>
        /\ s.decimals = Decimals[t] /\ s.cursor \in 1 .. hd
        /\ RatesOk(s.rates) /\ Longer(s.rates, rs[t], s.cursor)
        /\ \E g \in 0 .. fk : MadeFrom(s, t, tr, g)

TokensExact(c, tr, fk, hd, rs) == \A t \in Tokens : TokenExact(c[t], t, tr, fk, hd, rs)

FileExact(f, tr, fk, hd, rs) ==
    f # NoFile => f.whole = TRUE /\ f.synced = TRUE /\ TokensExact(f.tokens, tr, fk, hd, rs)

\* What a run has indexed stands at its block.
Scoring == {"ready", "written", "renamed"}

Indexed(s, b, fk) == s # NoToken /\ s.cursor = b /\ s.hash = HashOn(fk, b)

Contributing(rs, b) == {t \in Tokens : contributes_at(rs[t], b)}

RunExact(pl, b, td, m, fk, hd, rs) ==
    /\ pl \in Busy => b \in 1 .. hd
    /\ pl \in Scoring => td = {}
    /\ pl \in Scoring \cup {"indexing"} =>
        /\ td \subseteq Contributing(rs, b)
        /\ \A t \in Contributing(rs, b) \ td : Indexed(m[t], b, fk)

\* The inductive strengthening of IncrementalScoreIsExact and
\* CheckpointSurvivesCrashes.
ExactInv ==
    /\ WorldOk(transfers, fork, head, rates)
    /\ todo = [p \in Runs |-> todo[p]]
    /\ \A p \in Runs : TokensExact(mem[p], transfers, fork, head, rates)
    /\ \A p \in Runs : RunExact(place[p], asOf[p], todo[p], mem[p], fork, head, rates)
    /\ FileExact(file, transfers, fork, head, rates)
    /\ FileExact(durable, transfers, fork, head, rates)

LEMMA HistoryNow ==
    ASSUME NEW t, NEW b
    PROVE  History(t) = HistoryOn(transfers, fork, t) /\ BlockHash(b) = HashOn(fork, b)
BY DEF History, Shared, HistoryOn, BlockHash, HashOn

\* Both chains are histories, and they agree before the fork.
LEMMA HistoryOnOk ==
    ASSUME NEW tr \in Histories, NEW g \in {0, 1}, NEW t \in Tokens
    PROVE  IsHistory(HistoryOn(tr, g, t))
BY ForkedHistory, ChainAssumption DEF HistoryOn

LEMMA HistoriesAgree ==
    ASSUME NEW tr \in Histories, NEW g \in {0, 1}, NEW f \in {0, 1}, NEW t \in Tokens,
           NEW c \in Nat, HashOn(g, c) = HashOn(f, c)
    PROVE  g = f \/ SameUntil(HistoryOn(tr, g, t), HistoryOn(tr, f, t), c)
<1> SUFFICES ASSUME g # f  PROVE SameUntil(HistoryOn(tr, g, t), HistoryOn(tr, f, t), c)
  OBVIOUS
<1>1. PICK ts, qs : ts = HistoryOn(tr, 0, t) /\ qs = HistoryOn(tr, 1, t)
  OBVIOUS
<1>2. /\ ts = tr[t]
      /\ qs = SubSeq(ts, 1, Cardinality({k \in 1 .. Len(ts) : ts[k].block < ForkBlock}))
  BY <1>1 DEF HistoryOn
<1>3. IsHistory(ts)
  BY <1>2, ChainAssumption
<1>4. c < ForkBlock => SameUntil(ts, qs, c) /\ SameUntil(qs, ts, c)
  BY <1>2, <1>3, ChainAssumption, ForkedHistory
<1>5. CASE c < ForkBlock
  BY <1>1, <1>4, <1>5
<1>6. CASE c = 0
  <2>1. \A k \in 1 .. Len(ts) : ~(ts[k].block <= 0)
    BY <1>3, HistoryAt
  <2>2. IsHistory(qs)
    BY <1>2, <1>3, ChainAssumption, ForkedHistory
  <2>3. \A k \in 1 .. Len(qs) : ~(qs[k].block <= 0)
    BY <2>2, HistoryAt
  <2>4. Cut(ts, 0) = {} /\ Cut(qs, 0) = {}
    BY <2>1, <2>3 DEF Cut
  <2> QED BY <1>1, <1>6, <2>4 DEF SameUntil
<1> QED BY <1>5, <1>6, ChainAssumption DEF HashOn

\* A token whose hash is still on the chain stands on that chain.
LEMMA ExactCurrent ==
    ASSUME NEW tr, NEW fk, NEW hd, NEW rs, WorldOk(tr, fk, hd, rs), NEW t \in Tokens, NEW s,
           s # NoToken, TokenExact(s, t, tr, fk, hd, rs), s.hash = HashOn(fk, s.cursor)
    PROVE  Standing(s.accounts, Accounts, HistoryOn(tr, fk, t), s.rates, Decimals[t], s.cursor)
<1>1. PICK g \in 0 .. fk : MadeFrom(s, t, tr, g)
  BY DEF TokenExact
<1>2. tr \in Histories /\ fk \in {0, 1} /\ g \in {0, 1} /\ s.cursor \in Nat
  BY <1>1 DEF WorldOk, TokenExact
<1>3. PICK c : c = s.cursor
  OBVIOUS
<1>4. HashOn(g, c) = HashOn(fk, c) /\ c \in Nat
  BY <1>1, <1>2, <1>3 DEF MadeFrom
<1>5. g = fk \/ SameUntil(HistoryOn(tr, g, t), HistoryOn(tr, fk, t), c)
  BY <1>2, <1>4, HistoriesAgree
<1>6. Standing(s.accounts, Accounts, HistoryOn(tr, g, t), s.rates, Decimals[t], c)
  BY <1>1, <1>3 DEF MadeFrom
<1>7. CASE g = fk
  BY <1>3, <1>6, <1>7
<1>8. CASE SameUntil(HistoryOn(tr, g, t), HistoryOn(tr, fk, t), c)
  <2>1. IsHistory(HistoryOn(tr, g, t)) /\ IsHistory(HistoryOn(tr, fk, t))
    BY <1>2, HistoryOnOk
  <2> QED BY <1>3, <1>4, <1>6, <1>8, <2>1, StandingFork
<1> QED BY <1>5, <1>7, <1>8

\* Points that are added twice.
LEMMA LongerTwice ==
    ASSUME NEW a, RatesOk(a), NEW b, RatesOk(b), NEW d, RatesOk(d), NEW c \in Nat, NEW h \in Nat,
           c <= h, Longer(a, b, c), Longer(b, d, h)
    PROVE  Longer(a, d, c)
<1>1. Len(a) \in Nat /\ Len(b) \in Nat /\ Len(d) \in Nat
  BY RatesLen
<1>2. Len(a) <= Len(b) /\ Len(b) <= Len(d)
  BY DEF Longer
<1>3. ASSUME NEW i \in 1 .. Len(a)  PROVE d[i] = a[i]
  <2>1. i \in 1 .. Len(b)
    BY <1>1, <1>2
  <2> QED BY <2>1 DEF Longer
<1>4. ASSUME NEW i \in Len(a) + 1 .. Len(d)  PROVE d[i].from > c
  <2>1. CASE i <= Len(b)
    <3>1. i \in 1 .. Len(b) /\ i \in Len(a) + 1 .. Len(b)
      BY <1>1, <1>2, <2>1
    <3>2. d[i] = b[i] /\ b[i].from > c
      BY <3>1 DEF Longer
    <3> QED BY <3>2
  <2>2. CASE i > Len(b)
    <3>1. i \in Len(b) + 1 .. Len(d) /\ i \in 1 .. Len(d)
      BY <1>1, <1>2, <2>2
    <3>2. d[i].from > h /\ d[i].from \in Nat
      BY <3>1, RatePoint DEF Longer
    <3> QED BY <3>2
  <2>3. i \in Int
    OBVIOUS
  <2> QED BY <1>1, <2>1, <2>2, <2>3
<1>5. Len(a) <= Len(d)
  BY <1>1, <1>2
<1> QED BY <1>3, <1>4, <1>5 DEF Longer

\* The chain grows, moves to its fork, and rates are added for later blocks.
WorldGrows(fk, hd, rs, fk2, hd2, rs2) ==
    /\ fk <= fk2 /\ hd <= hd2
    /\ \A t \in Tokens : Longer(rs[t], rs2[t], hd)

LEMMA TokenGrows ==
    ASSUME NEW tr, NEW fk, NEW hd, NEW rs, WorldOk(tr, fk, hd, rs),
           NEW fk2, NEW hd2, NEW rs2, WorldOk(tr, fk2, hd2, rs2),
           WorldGrows(fk, hd, rs, fk2, hd2, rs2),
           NEW t \in Tokens, NEW s, TokenExact(s, t, tr, fk, hd, rs)
    PROVE  TokenExact(s, t, tr, fk2, hd2, rs2)
<1> SUFFICES ASSUME s # NoToken  PROVE TokenExact(s, t, tr, fk2, hd2, rs2)
  BY DEF TokenExact
<1>1. hd \in Nat /\ hd2 \in Nat /\ fk \in {0, 1} /\ fk2 \in {0, 1} /\ hd <= hd2 /\ fk <= fk2
  BY DEF WorldOk, WorldGrows
<1>2. s.decimals = Decimals[t] /\ s.cursor \in 1 .. hd2 /\ s.cursor \in Nat /\ s.cursor <= hd
  BY <1>1 DEF TokenExact
<1>3. RatesOk(s.rates) /\ RatesOk(rs[t]) /\ RatesOk(rs2[t])
  BY DEF TokenExact, WorldOk
<1>4. Longer(s.rates, rs[t], s.cursor) /\ Longer(rs[t], rs2[t], hd)
  BY DEF TokenExact, WorldGrows
<1>5. Longer(s.rates, rs2[t], s.cursor)
  BY ONLY <1>1, <1>2, <1>3, <1>4, LongerTwice
<1>6. PICK g \in 0 .. fk : MadeFrom(s, t, tr, g)
  BY DEF TokenExact
<1>7. g \in 0 .. fk2
  BY <1>1, <1>6
<1> QED BY <1>2, <1>3, <1>5, <1>6, <1>7 DEF TokenExact

LEMMA FileGrows ==
    ASSUME NEW tr, NEW fk, NEW hd, NEW rs, WorldOk(tr, fk, hd, rs),
           NEW fk2, NEW hd2, NEW rs2, WorldOk(tr, fk2, hd2, rs2),
           WorldGrows(fk, hd, rs, fk2, hd2, rs2)
    PROVE  /\ \A c : TokensExact(c, tr, fk, hd, rs) => TokensExact(c, tr, fk2, hd2, rs2)
           /\ \A f : FileExact(f, tr, fk, hd, rs) => FileExact(f, tr, fk2, hd2, rs2)
<1>1. ASSUME NEW c, TokensExact(c, tr, fk, hd, rs)  PROVE TokensExact(c, tr, fk2, hd2, rs2)
  <2>1. ASSUME NEW t \in Tokens  PROVE TokenExact(c[t], t, tr, fk2, hd2, rs2)
    <3>1. PICK s : s = c[t]
      OBVIOUS
    <3>2. TokenExact(s, t, tr, fk, hd, rs)
      BY <1>1, <3>1 DEF TokensExact
    <3>3. TokenExact(s, t, tr, fk2, hd2, rs2)
      BY <3>2, TokenGrows
    <3> QED BY <3>1, <3>3
  <2> QED BY <2>1 DEF TokensExact
<1> QED BY <1>1 DEF FileExact

\* Rates for later blocks do not make more tokens count.
LEMMA ContributingGrows ==
    ASSUME NEW tr, NEW fk, NEW hd, NEW rs, WorldOk(tr, fk, hd, rs),
           NEW fk2, NEW hd2, NEW rs2, WorldOk(tr, fk2, hd2, rs2),
           WorldGrows(fk, hd, rs, fk2, hd2, rs2), NEW b \in 1 .. hd
    PROVE  Contributing(rs2, b) = Contributing(rs, b)
<1>1. hd \in Nat /\ b \in Nat /\ b <= hd
  BY DEF WorldOk
<1>2. ASSUME NEW t \in Tokens  PROVE contributes_at(rs[t], b) <=> contributes_at(rs2[t], b)
  <2>1. RatesOk(rs[t]) /\ RatesOk(rs2[t]) /\ Longer(rs[t], rs2[t], hd)
    BY DEF WorldOk, WorldGrows
  <2> QED BY <1>1, <2>1, LongerContributes
<1> QED BY <1>2 DEF Contributing

\* A step of the chain: the runs go on, and none is under way when the fork
\* becomes the chain.
LEMMA WorldKeeps ==
    ASSUME ExactInv, WorldOk(transfers, fork', head', rates'),
           WorldGrows(fork, head, rates, fork', head', rates'),
           UNCHANGED <<transfers, file, durable, place, local>>,
           fork' = fork \/ \A p \in Runs : place[p] \notin Busy
    PROVE  ExactInv'
<1>1. WorldOk(transfers, fork, head, rates) /\ UNCHANGED <<asOf, mem, todo>>
  BY DEF ExactInv, local
<1>2. WorldOk(transfers, fork, head, rates)'
  OBVIOUS
<1>3. \A p \in Runs : TokensExact(mem[p], transfers, fork', head', rates')
  BY <1>1, FileGrows DEF ExactInv
<1>4. FileExact(file, transfers, fork', head', rates') /\ FileExact(durable, transfers, fork', head', rates')
  BY <1>1, FileGrows DEF ExactInv
<1>5. ASSUME NEW p \in Runs  PROVE RunExact(place[p], asOf[p], todo[p], mem[p], fork', head', rates')
  <2>1. RunExact(place[p], asOf[p], todo[p], mem[p], fork, head, rates)
    BY DEF ExactInv
  <2>2. CASE place[p] \notin Busy
    BY <2>2 DEF RunExact, Busy, Scoring
  <2>3. CASE place[p] \in Busy
    <3>1. fork' = fork
      BY <2>3
    <3>2. asOf[p] \in 1 .. head
      BY <2>1, <2>3 DEF RunExact
    <3>3. Contributing(rates', asOf[p]) = Contributing(rates, asOf[p])
      BY <1>1, <3>2, ContributingGrows
    <3>4. asOf[p] \in 1 .. head'
      BY <1>1, <3>2 DEF WorldOk, WorldGrows
    <3> QED BY <2>1, <3>1, <3>3, <3>4 DEF RunExact
  <2> QED BY <2>2, <2>3
<1>6. (\A p \in Runs : TokensExact(mem[p], transfers, fork, head, rates))'
  BY <1>1, <1>3 DEF TokensExact, TokenExact, MadeFrom
<1>7. (FileExact(file, transfers, fork, head, rates) /\ FileExact(durable, transfers, fork, head, rates))'
  BY <1>4 DEF FileExact, TokensExact, TokenExact, MadeFrom
<1>8. (\A p \in Runs : RunExact(place[p], asOf[p], todo[p], mem[p], fork, head, rates))'
  BY <1>1, <1>5 DEF RunExact, Indexed, Contributing
<1> QED BY <1>1, <1>2, <1>6, <1>7, <1>8 DEF ExactInv

\* A rate is added for the block after the finalized one.
LEMMA RateAdded ==
    ASSUME NEW a, RatesOk(a), NEW h \in Nat, a # <<>> => Last(a).from <= h, NEW r \in Nat,
           NEW b, b = Append(a, [from |-> h + 1, rate |-> r])
    PROVE  RatesOk(b) /\ Longer(a, b, h)
<1>1. PICK p : p = [from |-> h + 1, rate |-> r]
  OBVIOUS
<1>2. p \in [from : Nat, rate : Nat] /\ p.from = h + 1
  BY <1>1
<1>3. a \in Seq([from : Nat, rate : Nat]) /\ b = Append(a, p)
  BY <1>1 DEF RatesOk
<1>4. /\ b \in Seq([from : Nat, rate : Nat]) /\ Len(b) = Len(a) + 1
      /\ \A i \in 1 .. Len(a) : b[i] = a[i]
      /\ b[Len(a) + 1] = p
  BY <1>2, <1>3
<1>5. Len(a) \in Nat
  BY RatesLen
<1>6. ASSUME NEW i \in 1 .. Len(a)  PROVE a[i].from <= h
  <2>1. a # <<>> /\ Last(a) = a[Len(a)] /\ Len(a) \in 1 .. Len(a)
    BY <1>3, <1>5 DEF Last
  <2>2. i < Len(a) => a[i].from < a[Len(a)].from
    BY <2>1 DEF RatesOk
  <2>3. a[i].from \in Nat /\ a[Len(a)].from \in Nat /\ a[Len(a)].from <= h
    BY <2>1, RatePoint
  <2> QED BY <1>5, <2>2, <2>3
<1>7. ASSUME NEW i \in 1 .. Len(b), NEW j \in 1 .. Len(b), i < j  PROVE b[i].from < b[j].from
  <2>1. i \in 1 .. Len(a)
    BY <1>4, <1>5, <1>7
  <2>2. CASE j \in 1 .. Len(a)
    BY <1>4, <1>7, <2>1, <2>2 DEF RatesOk
  <2>3. CASE j = Len(a) + 1
    <3>1. b[j].from = h + 1 /\ b[i] = a[i]
      BY <1>2, <1>4, <2>1, <2>3
    <3>2. a[i].from <= h /\ a[i].from \in Nat
      BY <1>6, <2>1, RatePoint
    <3> QED BY <3>1, <3>2
  <2> QED BY <1>4, <1>5, <2>2, <2>3
<1>8. \A i \in Len(a) + 1 .. Len(b) : b[i].from > h
  BY <1>2, <1>4, <1>5
<1>9. RatesOk(b)
  BY <1>4, <1>7 DEF RatesOk
<1> QED BY <1>4, <1>5, <1>8, <1>9 DEF Longer

\* The chain grows by a block, by a rate, or moves to the fork.
LEMMA ChainStep ==
    ASSUME ExactInv, Mine \/ Reorganise \/ (\E t \in Tokens : AddRate(t)) \/ UNCHANGED vars
    PROVE  ExactInv'
<1>1. /\ transfers \in Histories /\ fork \in {0, 1} /\ head \in Nat /\ head <= MaxHead
      /\ rates = [t \in Tokens |-> rates[t]] /\ \A t \in Tokens : RatesOk(rates[t])
  BY DEF ExactInv, WorldOk
<1>2. \A t \in Tokens : Longer(rates[t], rates[t], head)
  BY <1>1, LongerSelf
<1>3. CASE Mine
  <2>1. /\ head' = head + 1 /\ head < MaxHead
        /\ UNCHANGED <<transfers, fork, rates, file, durable, place, local>>
    BY <1>3 DEF Mine
  <2>2. WorldOk(transfers, fork', head', rates')
    BY <1>1, <2>1, CheckpointAssumption DEF WorldOk
  <2>3. WorldGrows(fork, head, rates, fork', head', rates')
    BY <1>1, <1>2, <2>1 DEF WorldGrows
  <2> QED BY <2>1, <2>2, <2>3, WorldKeeps
<1>4. CASE Reorganise
  <2>1. /\ fork = 0 /\ fork' = 1 /\ Down = Runs
        /\ UNCHANGED <<transfers, head, rates, file, durable, place, local>>
    BY <1>4 DEF Reorganise
  <2>2. WorldOk(transfers, fork', head', rates')
    BY <1>1, <2>1 DEF WorldOk
  <2>3. WorldGrows(fork, head, rates, fork', head', rates')
    BY <1>1, <1>2, <2>1 DEF WorldGrows
  <2>4. \A p \in Runs : place[p] \notin Busy
    BY <2>1 DEF Down, Busy
  <2> QED BY <2>1, <2>2, <2>3, <2>4, WorldKeeps
<1>5. ASSUME NEW t \in Tokens, AddRate(t)  PROVE ExactInv'
  <2>1. PICK r \in NewRates : rates' = [rates EXCEPT ![t] = Append(@, [from |-> head + 1, rate |-> r])]
    BY <1>5 DEF AddRate
  <2>2. /\ rates[t] # <<>> => Last(rates[t]).from <= head
        /\ UNCHANGED <<transfers, fork, head, file, durable, place, local>>
    BY <1>5 DEF AddRate
  <2>3. PICK a, b : a = rates[t] /\ b = Append(a, [from |-> head + 1, rate |-> r])
    OBVIOUS
  <2>4. r \in Nat /\ RatesOk(a)
    BY <1>1, <2>3, ChainAssumption
  <2>5. RatesOk(b) /\ Longer(a, b, head)
    BY <1>1, <2>2, <2>3, <2>4, RateAdded
  <2>6. rates' = [rates EXCEPT ![t] = b]
    BY <2>1, <2>3
  <2>7. WorldOk(transfers, fork', head', rates')
    BY <1>1, <2>2, <2>5, <2>6 DEF WorldOk
  <2>8. \A v \in Tokens : Longer(rates[v], rates'[v], head)
    BY <1>1, <1>2, <2>3, <2>5, <2>6
  <2>9. WorldGrows(fork, head, rates, fork', head', rates')
    BY <1>1, <2>2, <2>8 DEF WorldGrows
  <2> QED BY <2>2, <2>7, <2>9, WorldKeeps
<1>6. CASE UNCHANGED vars
  <2>1. UNCHANGED <<transfers, fork, head, rates, file, durable, place, local>>
    BY <1>6 DEF vars, world
  <2>2. WorldOk(transfers, fork', head', rates') /\ WorldGrows(fork, head, rates, fork', head', rates')
    BY <1>1, <1>2, <2>1 DEF WorldOk, WorldGrows
  <2> QED BY <2>1, <2>2, WorldKeeps
<1> QED BY <1>3, <1>4, <1>5, <1>6

-----------------------------------------------------------------------------
(* The steps of a run *)

\* A token that can be advanced stands on the chain with today's rates.
LEMMA AdvanceableStands ==
    ASSUME ExactInv, NEW p \in Runs, NEW t \in Tokens, NEW s, TokenSound(s), s # NoToken,
           s = EmptyToken(t) \/ TokenExact(s, t, transfers, fork, head, rates),
           Advanceable(p, s, t)
    PROVE  /\ s.cursor \in Nat /\ s.decimals = Decimals[t]
           /\ Standing(s.accounts, Accounts, HistoryOn(transfers, fork, t), rates[t], Decimals[t],
                       s.cursor)
<1>1. WorldOk(transfers, fork, head, rates) /\ RatesOk(rates[t]) /\ Decimals[t] \in Nat
  BY CheckpointAssumption DEF ExactInv, WorldOk
<1>2. IsHistory(HistoryOn(transfers, fork, t))
  BY <1>1, HistoryOnOk DEF WorldOk
<1>3. s.cursor \in Nat
  BY DEF TokenSound
<1>4. s.decimals = Decimals[t]
  BY DEF Advanceable, validate_stored_token
<1>5. CASE s = EmptyToken(t)
  <2>1. s.cursor = 0 /\ s.accounts = [u \in Accounts |-> NewAccount]
    BY <1>5 DEF EmptyToken
  <2>2. PICK as : as = [u \in Accounts |-> NewAccount]
    OBVIOUS
  <2>3. Standing(as, Accounts, HistoryOn(transfers, fork, t), rates[t], Decimals[t], 0)
    BY <1>1, <1>2, <2>2, NewStands
  <2> QED BY <1>4, <2>1, <2>2, <2>3
<1>6. CASE TokenExact(s, t, transfers, fork, head, rates)
  <2>1. s.cursor # 0 /\ RatesOk(s.rates) /\ Longer(s.rates, rates[t], s.cursor)
    BY <1>6 DEF TokenExact
  <2>2. s.hash = HashOn(fork, s.cursor)
    BY <2>1, HistoryNow DEF Advanceable
  <2>3. Standing(s.accounts, Accounts, HistoryOn(transfers, fork, t), s.rates, Decimals[t], s.cursor)
    BY <1>1, <1>6, <2>2, ExactCurrent
  <2>4. Standing(s.accounts, Accounts, HistoryOn(transfers, fork, t), rates[t], Decimals[t], s.cursor)
    BY <1>1, <1>2, <1>3, <2>1, <2>3, StandingLonger
  <2> QED BY <1>3, <1>4, <2>4
<1> QED BY <1>5, <1>6

\* advance_token takes it to the run's block.
LEMMA ExtendedExact ==
    ASSUME ExactInv, NEW p \in Runs, NEW t \in Tokens, NEW s, TokenSound(s), s # NoToken,
           s = EmptyToken(t) \/ TokenExact(s, t, transfers, fork, head, rates),
           Advanceable(p, s, t), asOf[p] \in 1 .. head, NEW n, n = Extended(p, s, t).token
    PROVE  TokenExact(n, t, transfers, fork, head, rates) /\ Indexed(n, asOf[p], fork)
<1>1. /\ transfers \in Histories /\ fork \in {0, 1} /\ head \in Nat
      /\ RatesOk(rates[t]) /\ Decimals[t] \in Nat
  BY CheckpointAssumption DEF ExactInv, WorldOk
<1>2. /\ s.cursor \in Nat /\ s.decimals = Decimals[t]
      /\ Standing(s.accounts, Accounts, HistoryOn(transfers, fork, t), rates[t], Decimals[t],
                  s.cursor)
  BY AdvanceableStands
<1>3. PICK b : b = asOf[p]
  OBVIOUS
<1>4. b \in Nat /\ b >= 1 /\ b <= head /\ b >= s.cursor
  BY <1>1, <1>3 DEF Advanceable
<1>5. CASE b = s.cursor
  <2>1. n = s
    BY <1>3, <1>5 DEF Extended
  <2>2. s.cursor # 0
    BY <1>4, <1>5
  <2>3. s.hash = HashOn(fork, b)
    BY <1>5, <2>2, HistoryNow DEF Advanceable
  <2>4. s # EmptyToken(t)
    BY <2>2 DEF EmptyToken
  <2> QED BY <1>3, <1>5, <2>1, <2>3, <2>4 DEF Indexed
<1>6. CASE b # s.cursor
  <2>1. PICK e, h, r : /\ e = advance_token(s.accounts, History(t), s.cursor, b, QueryRange,
                                            rates[t], s.decimals)
                       /\ h = BlockHash(b) /\ r = rates[t]
    OBVIOUS
  <2>2. n = [s EXCEPT !.accounts = e.accounts, !.cursor = b, !.hash = h, !.rates = r]
    BY <1>3, <1>6, <2>1 DEF Extended
  <2>3. PICK x : x = e.accounts
    OBVIOUS
  <2>4. n = [decimals |-> s.decimals, cursor |-> b, hash |-> h, rates |-> r, accounts |-> x]
    BY <2>2, <2>3 DEF TokenSound
  <2>5. n # NoToken
    BY <2>4, TokenExists
  <2>6. /\ n.decimals = Decimals[t] /\ n.cursor = b /\ n.hash = HashOn(fork, b)
        /\ n.rates = rates[t] /\ n.accounts = x
    BY <1>2, <2>1, <2>4, HistoryNow
  <2>7. PICK ts, as, c : ts = HistoryOn(transfers, fork, t) /\ as = s.accounts /\ c = s.cursor
    OBVIOUS
  <2>8. IsHistory(ts) /\ AllReplayed(as, Accounts, ts, rates[t], Decimals[t], Cut(ts, c))
    BY <1>1, <1>2, <2>7, HistoryOnOk DEF Standing
  <2>9. e = advance_token(as, ts, c, b, QueryRange, rates[t], Decimals[t])
    BY <1>2, <2>1, <2>7, HistoryNow
  <2>10. c \in Nat /\ c <= b /\ QueryRange \in Nat /\ QueryRange > 0 /\ Zero \notin Accounts
    BY <1>2, <1>4, <2>7, CheckpointAssumption, ChainAssumption
  <2>11. AllReplayed(e.accounts, Accounts, ts, rates[t], Decimals[t], Cut(ts, b))
    BY ONLY <1>1, <1>4, <2>8, <2>9, <2>10, TokenReplayed
  <2>12. MadeFrom(n, t, transfers, fork)
    BY <2>3, <2>6, <2>7, <2>11 DEF MadeFrom, Standing
  <2>13. Longer(n.rates, rates[t], n.cursor) /\ RatesOk(n.rates)
    BY <1>1, <2>6, LongerSelf
  <2>14. n.cursor \in 1 .. head /\ fork \in 0 .. fork
    BY <1>1, <1>4, <2>6
  <2>15. TokenExact(n, t, transfers, fork, head, rates)
    BY <2>5, <2>6, <2>12, <2>13, <2>14 DEF TokenExact
  <2> QED BY <1>3, <2>5, <2>6, <2>15 DEF Indexed
<1> QED BY <1>5, <1>6

\* A step of run p that leaves the chain alone.
LEMMA RunKeeps ==
    ASSUME StoreInv, ExactInv, NEW p \in Runs, UNCHANGED world,
           NEW pl, NEW b, NEW td, NEW m,
           place' = [place EXCEPT ![p] = pl], asOf' = [asOf EXCEPT ![p] = b],
           todo' = [todo EXCEPT ![p] = td], mem' = [mem EXCEPT ![p] = m],
           TokensExact(m, transfers, fork, head, rates),
           RunExact(pl, b, td, m, fork, head, rates),
           FileExact(file', transfers, fork, head, rates),
           FileExact(durable', transfers, fork, head, rates)
    PROVE  ExactInv'
<1>1. UNCHANGED <<transfers, fork, head, rates>>
  BY DEF world
<1>2. WorldOk(transfers, fork, head, rates)'
  BY <1>1 DEF ExactInv, WorldOk
<1>3. /\ place'[p] = pl /\ asOf'[p] = b /\ todo'[p] = td /\ mem'[p] = m
      /\ \A q \in Runs \ {p} : /\ place'[q] = place[q] /\ asOf'[q] = asOf[q]
                               /\ todo'[q] = todo[q] /\ mem'[q] = mem[q]
  BY DEF StoreInv, StoreType, ExactInv
<1>4. \A q \in Runs : TokensExact(mem'[q], transfers, fork, head, rates)
  BY <1>3 DEF ExactInv
<1>5. \A q \in Runs : RunExact(place'[q], asOf'[q], todo'[q], mem'[q], fork, head, rates)
  BY <1>3 DEF ExactInv
<1>6. (\A q \in Runs : TokensExact(mem[q], transfers, fork, head, rates))'
  BY <1>1, <1>4 DEF TokensExact, TokenExact, MadeFrom
<1>7. (\A q \in Runs : RunExact(place[q], asOf[q], todo[q], mem[q], fork, head, rates))'
  BY <1>1, <1>5 DEF RunExact, Indexed, Contributing
<1>8. (FileExact(file, transfers, fork, head, rates) /\ FileExact(durable, transfers, fork, head, rates))'
  BY <1>1 DEF FileExact, TokensExact, TokenExact, MadeFrom
<1>9. (todo = [q \in Runs |-> todo[q]])'
  BY DEF ExactInv
<1> QED BY <1>2, <1>6, <1>7, <1>8, <1>9 DEF ExactInv

\* A checkpoint without tokens, and a run that is not under way.
LEMMA NothingExact ==
    ASSUME NEW tr, NEW fk, NEW hd, NEW rs
    PROVE  /\ TokensExact([t \in Tokens |-> NoToken], tr, fk, hd, rs)
           /\ FileExact(NoFile, tr, fk, hd, rs)
           /\ \A pl, b, td, m : pl \notin Busy => RunExact(pl, b, td, m, fk, hd, rs)
BY DEF TokensExact, TokenExact, FileExact, RunExact, Busy, Scoring

\* A run that is over, or dead.
LEMMA OverExact ==
    ASSUME StoreInv, ExactInv, NEW p \in Runs, UNCHANGED world, Forget(p), NEW pl, pl \notin Busy,
           place' = [place EXCEPT ![p] = pl], file' = file, durable' \in {file, durable}
    PROVE  ExactInv'
<1>1. PICK m : m = [t \in Tokens |-> NoToken]
  OBVIOUS
<1>2. /\ asOf' = [asOf EXCEPT ![p] = 0] /\ todo' = [todo EXCEPT ![p] = {}]
      /\ mem' = [mem EXCEPT ![p] = m]
  BY <1>1 DEF Forget
<1>3. /\ TokensExact(m, transfers, fork, head, rates)
      /\ RunExact(pl, 0, {}, m, fork, head, rates)
  BY <1>1, NothingExact
<1>4. FileExact(file', transfers, fork, head, rates) /\ FileExact(durable', transfers, fork, head, rates)
  BY DEF ExactInv
<1> QED BY <1>2, <1>3, <1>4, RunKeeps

LEMMA EndsExact ==
    ASSUME StoreInv, ExactInv, NEW p \in Runs, Release(p), file' = file, durable' \in {file, durable}
    PROVE  ExactInv'
BY OverExact DEF Release, Busy

\* The runs that do not touch what was indexed.
LEMMA OpenExact ==
    ASSUME StoreInv, ExactInv, NEW p \in Runs, Open(p)
    PROVE  ExactInv'
<1>1. PICK b \in 1 .. head : asOf' = [asOf EXCEPT ![p] = b]
  BY DEF Open
<1>2. place' = [place EXCEPT ![p] = "locked"] /\ UNCHANGED <<world, file, durable, mem, todo>>
  BY DEF Open
<1>3. PICK m, td : m = mem[p] /\ td = todo[p]
  OBVIOUS
<1>4. mem' = [mem EXCEPT ![p] = m] /\ todo' = [todo EXCEPT ![p] = td]
  BY <1>2, <1>3 DEF StoreInv, StoreType, ExactInv
<1>5. TokensExact(m, transfers, fork, head, rates)
  BY <1>3 DEF ExactInv
<1>6. RunExact("locked", b, td, m, fork, head, rates)
  BY DEF RunExact, Scoring
<1>7. FileExact(file', transfers, fork, head, rates) /\ FileExact(durable', transfers, fork, head, rates)
  BY <1>2 DEF ExactInv
<1> QED BY <1>1, <1>2, <1>4, <1>5, <1>6, <1>7, RunKeeps

LEMMA LoadExact ==
    ASSUME StoreInv, ExactInv, NEW p \in Runs, Load(p)
    PROVE  ExactInv'
<1>1. PICK m, td, b :
        /\ m = (IF file = NoFile THEN [t \in Tokens |-> NoToken] ELSE file.tokens)
        /\ td = {t \in Tokens : contributes_at(rates[t], asOf[p])} /\ b = asOf[p]
  OBVIOUS
<1>2. /\ place[p] = "locked" /\ place' = [place EXCEPT ![p] = "indexing"]
      /\ mem' = [mem EXCEPT ![p] = m] /\ todo' = [todo EXCEPT ![p] = td]
      /\ UNCHANGED <<world, file, durable, asOf>>
  BY <1>1 DEF Load
<1>3. TokensExact(m, transfers, fork, head, rates)
  BY <1>1, NothingExact DEF ExactInv, FileExact
<1>4. b \in 1 .. head
  BY <1>1, <1>2 DEF ExactInv, RunExact, Busy
<1>5. td = Contributing(rates, b)
  BY <1>1 DEF Contributing
<1>6. RunExact("indexing", b, td, m, fork, head, rates)
  BY <1>4, <1>5 DEF RunExact, Scoring
<1>7. asOf' = [asOf EXCEPT ![p] = b]
  BY <1>1, <1>2 DEF StoreInv, StoreType
<1>8. FileExact(file', transfers, fork, head, rates) /\ FileExact(durable', transfers, fork, head, rates)
  BY <1>2 DEF ExactInv
<1> QED BY <1>2, <1>3, <1>6, <1>7, <1>8, RunKeeps

LEMMA IndexExact ==
    ASSUME StoreInv, ExactInv, NEW p \in Runs, IndexToken(p)
    PROVE  ExactInv'
<1>1. CASE Release(p) /\ UNCHANGED <<file, durable>>
  BY <1>1, EndsExact
<1>2. CASE ~(Release(p) /\ UNCHANGED <<file, durable>>)
  <2> DEFINE Old(t) == IF mem[p][t] = NoToken THEN EmptyToken(t) ELSE mem[p][t]
  <2>1. PICK t \in todo[p] :
          /\ Advanceable(p, Old(t), t)
          /\ mem' = [mem EXCEPT ![p][t] = Extended(p, Old(t), t).token]
          /\ todo' = [todo EXCEPT ![p] = @ \ {t}]
          /\ UNCHANGED <<world, file, durable, lock, place, asOf, key, claimants>>
    BY <1>2 DEF IndexToken
  <2>2. PICK c, s, n, b, td : /\ c = mem[p] /\ s = Old(t) /\ n = Extended(p, s, t).token
                              /\ b = asOf[p] /\ td = todo[p] \ {t}
    OBVIOUS
  <2>3. PICK m : m = [c EXCEPT ![t] = n]
    OBVIOUS
  <2>4. place[p] = "indexing"
    BY DEF IndexToken
  <2>5. /\ b \in 1 .. head /\ todo[p] \subseteq Contributing(rates, b)
        /\ \A v \in Contributing(rates, b) \ todo[p] : Indexed(c[v], b, fork)
    BY <2>2, <2>4 DEF ExactInv, RunExact, Busy
  <2>6. t \in Tokens
    BY <2>1, <2>5 DEF Contributing
  <2>7. TokensSound(c) /\ TokensExact(c, transfers, fork, head, rates)
    BY <2>2 DEF StoreInv, StoreType, ExactInv
  <2>8. /\ s # NoToken /\ TokenSound(s)
        /\ s = EmptyToken(t) \/ TokenExact(s, t, transfers, fork, head, rates)
    <3>1. CASE c[t] = NoToken
      BY <2>2, <3>1, EmptyFields
    <3>2. CASE c[t] # NoToken
      BY <2>2, <2>6, <2>7, <3>2 DEF TokensSound, TokensExact
    <3> QED BY <3>1, <3>2
  <2>9. Advanceable(p, s, t)
    BY <2>1, <2>2
  <2> HIDE DEF Old
  <2>10. TokenExact(n, t, transfers, fork, head, rates) /\ Indexed(n, b, fork)
    BY <2>2, <2>5, <2>6, <2>8, <2>9, ExtendedExact
  <2>11. m[t] = n /\ \A v \in Tokens \ {t} : m[v] = c[v]
    BY <2>3, <2>6, <2>7 DEF TokensSound
  <2>12. TokensExact(m, transfers, fork, head, rates)
    BY <2>7, <2>10, <2>11 DEF TokensExact
  <2>13. RunExact("indexing", b, td, m, fork, head, rates)
    <3>1. td \subseteq Contributing(rates, b)
      BY <2>2, <2>5
    <3>2. ASSUME NEW v \in Contributing(rates, b) \ td  PROVE Indexed(m[v], b, fork)
      <4>1. v \in Tokens
        BY DEF Contributing
      <4>2. CASE v = t
        BY <2>10, <2>11, <4>2
      <4>3. CASE v # t
        BY <2>2, <2>5, <2>11, <4>1, <4>3
      <4> QED BY <4>2, <4>3
    <3> QED BY <2>5, <3>1, <3>2 DEF RunExact, Scoring
  <2>14. /\ mem' = [mem EXCEPT ![p] = m] /\ place' = [place EXCEPT ![p] = "indexing"]
         /\ asOf' = [asOf EXCEPT ![p] = b] /\ todo' = [todo EXCEPT ![p] = td]
         /\ UNCHANGED <<world, file, durable>>
    BY <2>1, <2>2, <2>3, <2>4 DEF StoreInv, StoreType, ExactInv
  <2>15. FileExact(file', transfers, fork, head, rates) /\ FileExact(durable', transfers, fork, head, rates)
    BY <2>14 DEF ExactInv
  <2> QED BY <2>12, <2>13, <2>14, <2>15, RunKeeps
<1> QED BY <1>1, <1>2

LEMMA ReadyExact ==
    ASSUME StoreInv, ExactInv, NEW p \in Runs, Opened(p) \/ WriteTemporary(p) \/ Rename(p)
    PROVE  ExactInv'
<1>1. PICK pl \in {"ready", "written", "renamed"} : place' = [place EXCEPT ![p] = pl]
  BY DEF Opened, WriteTemporary, Rename
<1>2. UNCHANGED <<world, durable, asOf, mem, todo>>
  BY DEF Opened, WriteTemporary, Rename, local
<1>3. PICK m, td, b : m = mem[p] /\ td = todo[p] /\ b = asOf[p]
  OBVIOUS
<1>4. /\ mem' = [mem EXCEPT ![p] = m] /\ todo' = [todo EXCEPT ![p] = td]
      /\ asOf' = [asOf EXCEPT ![p] = b]
  BY <1>2, <1>3 DEF StoreInv, StoreType, ExactInv
<1>5. TokensExact(m, transfers, fork, head, rates)
  BY <1>3 DEF ExactInv
<1>6. RunExact(pl, b, td, m, fork, head, rates)
  <2>1. RunExact(place[p], b, td, m, fork, head, rates)
    BY <1>3 DEF ExactInv
  <2>2. /\ place[p] \in Scoring \cup {"indexing"} /\ place[p] \in Busy
        /\ place[p] = "indexing" => todo[p] = {}
    BY DEF Opened, WriteTemporary, Rename, Scoring, Busy
  <2>3. td = {}
    BY <1>3, <2>1, <2>2 DEF RunExact
  <2> QED BY <2>1, <2>2, <2>3 DEF RunExact
<1>7. FileExact(file', transfers, fork, head, rates)
  <2>1. CASE file' = file
    BY <2>1 DEF ExactInv
  <2>2. CASE file' # file
    <3>1. file' = serialize_state(p, TRUE)
      BY <2>2 DEF Opened, WriteTemporary, Rename
    <3>2. PICK k : file' = [tokens |-> m, key |-> k, synced |-> TRUE, whole |-> TRUE]
      BY <1>3, <3>1, Zenon DEF serialize_state
    <3> QED BY <1>5, <3>2 DEF FileExact
  <2> QED BY <2>1, <2>2
<1>8. FileExact(durable', transfers, fork, head, rates)
  BY <1>2 DEF ExactInv
<1> QED BY <1>1, <1>2, <1>4, <1>5, <1>6, <1>7, <1>8, RunKeeps

\* The operator removes a lock.
LEMMA ClearExact ==
    ASSUME StoreInv, ExactInv, NEW p \in Runs, ClearLock(p)
    PROVE  ExactInv'
<1>1. place' = [place EXCEPT ![p] = "idle"] /\ UNCHANGED <<world, file, durable, asOf, mem, todo>>
  BY DEF ClearLock, local
<1>2. PICK m, td, b : m = mem[p] /\ td = todo[p] /\ b = asOf[p]
  OBVIOUS
<1>3. /\ mem' = [mem EXCEPT ![p] = m] /\ todo' = [todo EXCEPT ![p] = td]
      /\ asOf' = [asOf EXCEPT ![p] = b]
  BY <1>1, <1>2 DEF StoreInv, StoreType, ExactInv
<1>4. TokensExact(m, transfers, fork, head, rates)
  BY <1>2 DEF ExactInv
<1>5. RunExact("idle", b, td, m, fork, head, rates)
  BY NothingExact DEF Busy
<1>6. FileExact(file', transfers, fork, head, rates) /\ FileExact(durable', transfers, fork, head, rates)
  BY <1>1 DEF ExactInv
<1> QED BY <1>1, <1>3, <1>4, <1>5, <1>6, RunKeeps

\* A power loss ends all runs, and leaves one of the two files: both were
\* synced before they had their name.
LEMMA PowerLossExact ==
    ASSUME StoreInv, ExactInv, PowerLoss
    PROVE  ExactInv'
<1>1. /\ place' = [p \in Runs |-> IF place[p] = "idle" THEN "idle" ELSE "dead"]
      /\ asOf' = [p \in Runs |-> 0] /\ mem' = [p \in Runs |-> [t \in Tokens |-> NoToken]]
      /\ todo' = [p \in Runs |-> {}] /\ UNCHANGED <<transfers, fork, head, rates>>
  BY DEF PowerLoss, world
<1>2. PICK f \in {file, durable} : file' = Settled(f) /\ durable' = Settled(f)
  BY DEF PowerLoss
<1>3. FileExact(f, transfers, fork, head, rates)
  BY DEF ExactInv
<1>4. Settled(f) = f
  BY <1>3 DEF Settled, FileExact
<1>5. (FileExact(file, transfers, fork, head, rates) /\ FileExact(durable, transfers, fork, head, rates))'
  BY <1>1, <1>2, <1>3, <1>4 DEF FileExact, TokensExact, TokenExact, MadeFrom
<1>6. \A p \in Runs : place'[p] \notin Busy
  BY <1>1 DEF Busy
<1>7. (\A p \in Runs : RunExact(place[p], asOf[p], todo[p], mem[p], fork, head, rates))'
  BY <1>6, NothingExact
<1>8. (\A p \in Runs : TokensExact(mem[p], transfers, fork, head, rates))'
  BY <1>1, NothingExact
<1>9. WorldOk(transfers, fork, head, rates)' /\ (todo = [p \in Runs |-> todo[p]])'
  BY <1>1 DEF ExactInv, WorldOk
<1> QED BY <1>5, <1>7, <1>8, <1>9 DEF ExactInv

LEMMA ExactInit == Init => ExactInv
<1> SUFFICES ASSUME Init  PROVE ExactInv
  OBVIOUS
<1>1. /\ transfers \in Histories /\ fork = 0 /\ head = FirstHead /\ rates = FirstRates
      /\ file = NoFile /\ durable = NoFile /\ place = [p \in Runs |-> "idle"]
      /\ asOf = [p \in Runs |-> 0] /\ mem = [p \in Runs |-> [t \in Tokens |-> NoToken]]
      /\ todo = [p \in Runs |-> {}]
  BY DEF Init
<1>2. \A t \in Tokens : RatesOk(FirstRates[t])
  BY CheckpointAssumption, ChainAssumption, Ascending
<1>3. WorldOk(transfers, fork, head, rates)
  BY <1>1, <1>2, CheckpointAssumption, ChainAssumption DEF WorldOk
<1>4. \A p \in Runs : place[p] \notin Busy
  BY <1>1 DEF Busy
<1>5. \A p \in Runs : RunExact(place[p], asOf[p], todo[p], mem[p], fork, head, rates)
  BY <1>4, NothingExact
<1>6. \A p \in Runs : TokensExact(mem[p], transfers, fork, head, rates)
  BY <1>1, NothingExact
<1>7. FileExact(file, transfers, fork, head, rates) /\ FileExact(durable, transfers, fork, head, rates)
  BY <1>1, NothingExact
<1> QED BY <1>1, <1>3, <1>5, <1>6, <1>7 DEF ExactInv

LEMMA ExactNext == StoreInv /\ ExactInv /\ [Next]_vars => ExactInv'
<1> SUFFICES ASSUME StoreInv, ExactInv, [Next]_vars  PROVE ExactInv'
  OBVIOUS
<1>1. CASE Mine \/ Reorganise \/ (\E t \in Tokens : AddRate(t)) \/ UNCHANGED vars
  BY <1>1, ChainStep
<1>2. CASE PowerLoss
  BY <1>2, PowerLossExact
<1>3. ASSUME NEW p \in Runs, LoadFails(p) \/ SyncDirectory(p) \/ Fails(p)  PROVE ExactInv'
  BY <1>3, EndsExact DEF LoadFails, SyncDirectory, Fails
<1>4. ASSUME NEW p \in Runs, Die(p)  PROVE ExactInv'
  <2>1. place' = [place EXCEPT ![p] = "dead"] /\ Forget(p) /\ UNCHANGED <<world, file, durable>>
    BY <1>4 DEF Die
  <2>2. "dead" \notin Busy
    BY DEF Busy
  <2> QED BY <2>1, <2>2, OverExact
<1>5. ASSUME NEW p \in Runs, RunStep(p) \/ Die(p) \/ ClearLock(p)  PROVE ExactInv'
  BY <1>3, <1>4, <1>5, OpenExact, LoadExact, IndexExact, ReadyExact, ClearExact DEF RunStep
<1> QED BY <1>1, <1>2, <1>5 DEF Next

\* Whatever runs did, died and took over, every token that a run or a file
\* holds has the accounts of one of the chains at its cursor.
THEOREM ExactInvHolds == Spec => []ExactInv
<1>1. Init => ExactInv
  BY ExactInit
<1>2. StoreInv /\ ExactInv /\ [Next]_vars => ExactInv'
  BY ExactNext
<1> QED BY <1>1, <1>2, StoreInvHolds, PTL DEF Spec

-----------------------------------------------------------------------------
(* The checkpoint after crashes *)

\* A token in a file parses.
LEMMA ExactParses ==
    ASSUME ExactInv, NEW t \in Tokens, NEW s, s # NoToken,
           TokenExact(s, t, transfers, fork, head, rates)
    PROVE  parse_token(s)
<1>1. PICK g \in 0 .. fork : MadeFrom(s, t, transfers, g)
  BY DEF TokenExact
<1>2. transfers \in Histories /\ g \in {0, 1} /\ s.cursor \in Nat /\ s.cursor # 0 /\ RatesOk(s.rates)
  BY <1>1 DEF ExactInv, WorldOk, TokenExact
<1>3. IsHistory(HistoryOn(transfers, g, t))
  BY <1>2, HistoryOnOk
<1>4. Standing(s.accounts, Accounts, HistoryOn(transfers, g, t), s.rates, Decimals[t], s.cursor)
  BY <1>1 DEF MadeFrom
<1>5. ASSUME NEW u \in Accounts
      PROVE  /\ s.accounts[u].last <= s.cursor
             /\ IF s.accounts[u].seg = NoSegment THEN s.accounts[u].integral = 0
                ELSE \E p \in ToSet(s.rates) : p.from = s.accounts[u].seg
  BY <1>2, <1>3, <1>4, StandingParses
<1>6. validate_rates(s.rates)
  <2>1. Len(s.rates) \in Nat
    BY <1>2, RatesLen
  <2>2. ASSUME NEW i \in 1 .. Len(s.rates) - 1  PROVE s.rates[i].from < s.rates[i + 1].from
    <3>1. i \in 1 .. Len(s.rates) /\ i + 1 \in 1 .. Len(s.rates) /\ i < i + 1
      BY <2>1
    <3> QED BY <1>2, <3>1 DEF RatesOk
  <2> QED BY <2>2 DEF validate_rates
<1> QED BY <1>2, <1>5, <1>6 DEF parse_token

\* One replay of the whole chain, in one slice, gives the same accounts.
LEMMA OneReplay ==
    ASSUME ExactInv, NEW t \in Tokens, NEW s, s # NoToken,
           TokenExact(s, t, transfers, fork, head, rates), s.hash = BlockHash(s.cursor)
    PROVE  s.accounts = advance_token([u \in Accounts |-> NewAccount], History(t), 0, s.cursor,
                                      MaxHead, s.rates, Decimals[t]).accounts
<1>1. PICK ts, c, rs, dec, as, e :
        /\ ts = HistoryOn(transfers, fork, t) /\ c = s.cursor /\ rs = s.rates /\ dec = Decimals[t]
        /\ as = [u \in Accounts |-> NewAccount] /\ e = advance_token(as, ts, 0, c, MaxHead, rs, dec)
  OBVIOUS
<1>2. WorldOk(transfers, fork, head, rates) /\ dec \in Nat /\ RatesOk(rs)
  BY <1>1, CheckpointAssumption DEF ExactInv, TokenExact
<1>3. c \in Nat /\ 0 <= c /\ MaxHead \in Nat /\ MaxHead > 0 /\ 0 \in Nat
  BY <1>1, <1>2, CheckpointAssumption DEF TokenExact, WorldOk
<1>4. IsHistory(ts) /\ Zero \notin Accounts
  BY <1>1, <1>2, HistoryOnOk, ChainAssumption DEF WorldOk
<1>5. Standing(s.accounts, Accounts, ts, rs, dec, c)
  <2>1. s.hash = HashOn(fork, s.cursor)
    BY HistoryNow
  <2> QED BY <1>1, <1>2, <2>1, ExactCurrent
<1>6. AllReplayed(as, Accounts, ts, rs, dec, Cut(ts, 0))
  BY <1>1, <1>2, <1>4, NewStands DEF Standing
<1>7. AllReplayed(e.accounts, Accounts, ts, rs, dec, Cut(ts, c))
  BY ONLY <1>1, <1>2, <1>3, <1>4, <1>6, TokenReplayed
<1>8. s.accounts = e.accounts
  BY <1>4, <1>5, <1>7, StandingUnique DEF Standing
<1> QED BY <1>1, <1>8, HistoryNow

LEMMA ExactSurvives == ExactInv => CheckpointSurvivesCrashes
<1> SUFFICES ASSUME ExactInv, NEW f \in {file, durable} \ {NoFile}
             PROVE  /\ Loadable(f, f.key)
                    /\ \A t \in Tokens : f.tokens[t] # NoToken /\ f.tokens[t].hash = BlockHash(f.tokens[t].cursor) =>
                        f.tokens[t].accounts =
                            advance_token([u \in Accounts |-> NewAccount], History(t), 0, f.tokens[t].cursor,
                                          MaxHead, f.tokens[t].rates, Decimals[t]).accounts
  BY DEF CheckpointSurvivesCrashes
<1>1. f.whole = TRUE /\ \A t \in Tokens : TokenExact(f.tokens[t], t, transfers, fork, head, rates)
  BY DEF ExactInv, FileExact, TokensExact
<1>2. parse_state(f.tokens)
  BY <1>1, ExactParses DEF parse_state
<1>3. Loadable(f, f.key)
  BY <1>1, <1>2 DEF Loadable
<1>4. ASSUME NEW t \in Tokens, f.tokens[t] # NoToken,
             f.tokens[t].hash = BlockHash(f.tokens[t].cursor)
      PROVE  f.tokens[t].accounts =
               advance_token([u \in Accounts |-> NewAccount], History(t), 0, f.tokens[t].cursor,
                             MaxHead, f.tokens[t].rates, Decimals[t]).accounts
  BY <1>1, <1>4, OneReplay
<1> QED BY <1>3, <1>4

\* Every checkpoint that a crash, a power loss or a take-over leaves parses,
\* and holds what one replay of its chain gives.
THEOREM CheckpointsSurvive == Spec => []CheckpointSurvivesCrashes
<1> QED BY ExactInvHolds, ExactSurvives, PTL

-----------------------------------------------------------------------------
(* The scores *)

\* What a run that computes scores has of a token that counts.
LEMMA ScoringStands ==
    ASSUME ExactInv, NEW p \in Runs, place[p] \in Scoring, NEW t \in Active(p), NEW u \in Accounts
    PROVE  /\ t \in Tokens /\ asOf[p] \in Nat
           /\ mem[p][t].accounts[u].balance = net(History(t), u, asOf[p])
           /\ projected_numerator(mem[p][t].accounts[u], asOf[p], rates[t], Decimals[t]) =
                Total(Worths(Nets(History(t), u), rates[t], Decimals[t], asOf[p]), 1 .. Len(rates[t]))
<1>1. PICK b, ts, s, rs, dec, hd, fk :
        /\ b = asOf[p] /\ ts = HistoryOn(transfers, fork, t) /\ s = mem[p][t] /\ rs = rates[t]
        /\ dec = Decimals[t] /\ hd = head /\ fk = fork
  OBVIOUS
<1>2. t \in Contributing(rates, b)
  BY <1>1 DEF Active, Contributing
<1>3. t \in Tokens /\ WorldOk(transfers, fork, head, rates) /\ dec \in Nat /\ RatesOk(rs)
  BY <1>1, <1>2, CheckpointAssumption DEF Contributing, ExactInv, WorldOk
<1>4. b \in 1 .. head /\ Indexed(s, b, fork)
  <2>1. RunExact(place[p], b, todo[p], mem[p], fork, head, rates)
    BY <1>1 DEF ExactInv
  <2>2. place[p] \in Busy
    BY DEF Busy, Scoring
  <2> QED BY <1>1, <1>2, <2>1, <2>2 DEF RunExact
<1>5. s # NoToken /\ s.cursor = b /\ s.hash = HashOn(fork, s.cursor) /\ b \in Nat
  BY <1>3, <1>4 DEF Indexed, WorldOk
<1>6. TokenExact(s, t, transfers, fork, head, rates)
  BY <1>1, <1>3 DEF ExactInv, TokensExact
<1>7. IsHistory(ts)
  BY <1>1, <1>3, HistoryOnOk DEF WorldOk
<1>8. PICK as, old : as = s.accounts /\ old = s.rates
  OBVIOUS
<1>9. Standing(as, Accounts, ts, old, dec, b)
  <2>1. Standing(s.accounts, Accounts, HistoryOn(transfers, fork, t), s.rates, Decimals[t], s.cursor)
    BY <1>3, <1>5, <1>6, ExactCurrent
  <2> QED BY <1>1, <1>5, <1>8, <2>1
<1>10. RatesOk(old) /\ Longer(old, rs, b)
  BY <1>1, <1>5, <1>6, <1>8 DEF TokenExact
<1>11. Standing(as, Accounts, ts, rs, dec, b)
  BY ONLY <1>3, <1>5, <1>7, <1>9, <1>10, StandingLonger
<1>14. u \in Accounts /\ b \in Nat
  BY <1>5
<1>12. as[u].balance = net(ts, u, b)
  <2>1. Reached(as[u], ts, u, rs, dec, Cut(ts, b))
    BY <1>7, <1>11, <1>14, StandingAt
  <2> QED BY <1>7, <2>1, NetIs DEF Reached
<1>13. projected_numerator(as[u], b, rs, dec) = Total(Worths(Nets(ts, u), rs, dec, b), 1 .. Len(rs))
  <2>1. Projects(as[u], Nets(ts, u), rs, dec, b)
    BY <1>3, <1>7, <1>11, <1>14, ProjectedIs
  <2> QED BY <2>1 DEF Projects
<1> QED BY <1>1, <1>3, <1>5, <1>8, <1>12, <1>13, HistoryNow

\* An indexed balance that is not balanceOf's belongs to a token that rebased.
LEMMA WrongIsRebased ==
    ASSUME NEW ts, IsHistory(ts), NEW r \in Nat, NEW u, NEW b \in Nat,
           net(ts, u, b) # BalanceAfter(ts, r, u, b)
    PROVE  r <= b /\ BalanceAfter(ts, r, u, r) # 0
<1>1. net(ts, u, b) \in Int /\ net(ts, u, r) \in Int
  BY NetIs
<1>2. BalanceAfter(ts, r, u, b) = net(ts, u, b) + (IF r <= b THEN net(ts, u, r) ELSE 0)
  BY DEF BalanceAfter
<1>3. BalanceAfter(ts, r, u, r) = net(ts, u, r) + net(ts, u, r)
  BY DEF BalanceAfter
<1> HIDE DEF net, BalanceAfter
<1>4. PICK x, y : x = net(ts, u, b) /\ y = net(ts, u, r)
  OBVIOUS
<1>5. r <= b /\ y # 0
  BY <1>1, <1>2, <1>4
<1> QED BY <1>1, <1>3, <1>4, <1>5

\* One that is has been right at every block before.
LEMMA RightBefore ==
    ASSUME NEW ts, IsHistory(ts), NEW r \in Nat, NEW u, NEW b \in Nat,
           net(ts, u, b) = BalanceAfter(ts, r, u, b)
    PROVE  Agree(Nets(ts, u), Balances(ts, r, u), b)
<1>1. ASSUME NEW c \in 0 .. b - 1  PROVE Nets(ts, u)[c] = Balances(ts, r, u)[c]
  <2>1. c \in Nat /\ c < b
    OBVIOUS
  <2>2. net(ts, u, b) \in Int /\ net(ts, u, r) \in Int /\ net(ts, u, c) \in Int
    BY NetIs
  <2>3. /\ BalanceAfter(ts, r, u, b) = net(ts, u, b) + (IF r <= b THEN net(ts, u, r) ELSE 0)
        /\ BalanceAfter(ts, r, u, c) = net(ts, u, c) + (IF r <= c THEN net(ts, u, r) ELSE 0)
    BY DEF BalanceAfter
  <2>4. Nets(ts, u)[c] = net(ts, u, c) /\ Balances(ts, r, u)[c] = BalanceAfter(ts, r, u, c)
    BY <2>1 DEF Nets, Balances
  <2> HIDE DEF net, BalanceAfter
  <2>5. PICK x, y, z : x = net(ts, u, b) /\ y = net(ts, u, r) /\ z = net(ts, u, c)
    OBVIOUS
  <2>6. r <= b => y = 0
    BY <2>2, <2>3, <2>5
  <2>7. z = z + (IF r <= c THEN y ELSE 0)
    BY <2>1, <2>2, <2>5, <2>6
  <2> QED BY <2>3, <2>4, <2>5, <2>7
<1> QED BY <1>1 DEF Agree

\* The score of an account whose indexed balances are balanceOf's.
LEMMA ScoreSums ==
    ASSUME ExactInv, NEW p \in Runs, place[p] \in Scoring, NEW u \in Accounts,
           \A t \in Active(p) : mem[p][t].accounts[u].balance = balance_of_at(t, u, asOf[p])
    PROVE  SumOver([t \in Active(p) |->
                projected_numerator(mem[p][t].accounts[u], asOf[p], rates[t], Decimals[t])], Active(p)) =
           SumOver([t \in Tokens |->
                ReferenceNumerator(History(t), RebaseAt[t], u, rates[t], Decimals[t], asOf[p])], Tokens)
<1>1. PICK b, A : b = asOf[p] /\ A = Active(p)
  OBVIOUS
<1> DEFINE Ours(t) == projected_numerator(mem[p][t].accounts[u], b, rates[t], Decimals[t])
           Ref(t)   == ReferenceNumerator(History(t), RebaseAt[t], u, rates[t], Decimals[t], b)
<1>2. PICK f, g : f = [t \in A |-> Ours(t)] /\ g = [t \in Tokens |-> Ref(t)]
  OBVIOUS
<1>3. A \subseteq Tokens /\ IsFiniteSet(Tokens) /\ IsFiniteSet(A)
  BY <1>1, ChainAssumption, FS_Subset DEF Active
<1>4. b \in Nat
  BY <1>1 DEF ExactInv, WorldOk, RunExact, Busy, Scoring
<1>5. ASSUME NEW t \in Tokens
      PROVE  /\ Ref(t) \in Int
             /\ t \in A => Ours(t) = Ref(t)
             /\ t \notin A => Ref(t) = 0
  <2>1. PICK ts, r, rs, dec : /\ ts = History(t) /\ r = RebaseAt[t] /\ rs = rates[t]
                              /\ dec = Decimals[t]
    OBVIOUS
  <2>2. r \in Nat /\ RatesOk(rs) /\ dec \in Nat /\ IsHistory(ts)
    BY <2>1, CheckpointAssumption, ChainAssumption, HistoryOnOk, HistoryNow DEF ExactInv, WorldOk
  <2>3. PICK h : h = Balances(ts, r, u)
    OBVIOUS
  <2>4. Held(h)
    BY <2>2, <2>3, BalancesHeld
  <2>5. Ref(t) = Total(Worths(h, rs, dec, b), 1 .. Len(rs))
    BY <1>4, <2>1, <2>2, <2>3, ReferenceIs
  <2>6. Total(Worths(h, rs, dec, b), 1 .. Len(rs)) \in Int
    BY <1>4, <2>2, <2>4, WorthsInt
  <2>7. ASSUME t \notin A  PROVE Ref(t) = 0
    <3>1. ~contributes_at(rs, b)
      BY <1>1, <2>1, <2>7 DEF Active
    <3>2. Total(Worths(h, rs, dec, b), 1 .. Len(rs)) = 0
      BY <1>4, <2>2, <2>4, <3>1, NothingEarned
    <3> QED BY <2>5, <3>2
  <2>8. ASSUME t \in A  PROVE Ours(t) = Ref(t)
    <3>1. /\ mem[p][t].accounts[u].balance = net(ts, u, b)
          /\ Ours(t) = Total(Worths(Nets(ts, u), rs, dec, b), 1 .. Len(rs))
      BY <1>1, <2>1, <2>8, ScoringStands
    <3>2. mem[p][t].accounts[u].balance = BalanceAfter(ts, r, u, b)
      BY <1>1, <2>1, <2>8 DEF balance_of_at
    <3>3. Agree(Nets(ts, u), h, b)
      BY <1>4, <2>2, <2>3, <3>1, <3>2, RightBefore
    <3>4. Held(Nets(ts, u))
      BY <2>2, NetsHeld
    <3>5. Worths(Nets(ts, u), rs, dec, b) = Worths(h, rs, dec, b)
      BY <1>4, <3>3, <3>4, SameWorths
    <3> QED BY <2>5, <3>1, <3>5
  <2> QED BY <2>5, <2>6, <2>7, <2>8
<1> HIDE DEF Ours, Ref
<1>6. \A t \in A : f[t] \in Int /\ f[t] = g[t]
  BY <1>2, <1>3, <1>5
<1>7. \A t \in Tokens : g[t] \in Int
  BY <1>2, <1>5
<1>8. \A t \in Tokens \ A : g[t] = 0
  BY <1>2, <1>5
<1>9. Total(f, A) = Total(g, A)
  BY <1>3, <1>6, TotalSame
<1>10. Total(g, A) = Total(g, Tokens)
  BY <1>3, <1>7, <1>8, TotalWiden
<1>11. SumOver(f, A) = Total(f, A) /\ SumOver(g, Tokens) = Total(g, Tokens)
  BY Zenon DEF SumOver, Total
<1>12. SumOver(f, A) = SumOver(g, Tokens)
  BY <1>9, <1>10, <1>11
<1> QED BY <1>1, <1>2, <1>12, Zenon DEF Ours, Ref

LEMMA ExactScores == ExactInv => IncrementalScoreIsExact
<1> SUFFICES ASSUME ExactInv, NEW p \in Runs, place[p] \in Scoring, NEW u \in Accounts
             PROVE  \/ gross_score_of(p, u) = Reference(u, asOf[p])
                    \/ gross_score_of(p, u) = Failed /\ \E t \in Active(p) : Rebased(t, u, asOf[p])
  BY DEF IncrementalScoreIsExact, Scoring
<1>1. CASE \E t \in Active(p) : mem[p][t].accounts[u].balance # balance_of_at(t, u, asOf[p])
  <2>1. gross_score_of(p, u) = Failed
    BY <1>1, Zenon DEF gross_score_of
  <2>2. PICK t \in Active(p) : mem[p][t].accounts[u].balance # balance_of_at(t, u, asOf[p])
    BY <1>1
  <2>3. /\ t \in Tokens /\ asOf[p] \in Nat
        /\ mem[p][t].accounts[u].balance = net(History(t), u, asOf[p])
    BY ScoringStands
  <2>4. RebaseAt[t] \in Nat /\ IsHistory(History(t))
    BY <2>3, ChainAssumption, HistoryOnOk, HistoryNow DEF ExactInv, WorldOk
  <2>5. RebaseAt[t] <= asOf[p] /\ BalanceAfter(History(t), RebaseAt[t], u, RebaseAt[t]) # 0
    BY <2>2, <2>3, <2>4, WrongIsRebased DEF balance_of_at
  <2>6. Rebased(t, u, asOf[p])
    BY <2>5 DEF Rebased, balance_of_at
  <2> QED BY <2>1, <2>6
<1>2. CASE ~\E t \in Active(p) : mem[p][t].accounts[u].balance # balance_of_at(t, u, asOf[p])
  <2>1. \A t \in Active(p) : mem[p][t].accounts[u].balance = balance_of_at(t, u, asOf[p])
    BY <1>2
  <2>2. gross_score_of(p, u) = gross_score(SumOver([t \in Active(p) |->
            projected_numerator(mem[p][t].accounts[u], asOf[p], rates[t], Decimals[t])], Active(p)))
    BY <1>2, Zenon DEF gross_score_of
  <2>3. gross_score_of(p, u) = Reference(u, asOf[p])
    BY <2>1, <2>2, ScoreSums, Zenon DEF Reference
  <2> QED BY <2>3
<1> QED BY <1>1, <1>2

\* The score that a run computes from the work of earlier runs is the integral
\* of the account's balances over the whole history, to the last unit, unless
\* a token has changed balances without transfers: then the run fails.
THEOREM ScoresAreExact == Spec => []IncrementalScoreIsExact
<1> QED BY ExactInvHolds, ExactScores, PTL

-----------------------------------------------------------------------------
(* The other sources *)

\* Every token's history, on the chain that is canonical.
LEMMA HistoryIs ==
    ASSUME ExactInv, NEW t \in Tokens, NEW ts, ts = History(t)
    PROVE  IsHistory(ts) /\ \A v \in Accounts : Solvent(ts, RebaseAt[t], v)
<1>1. PICK qs : qs = transfers[t]
  OBVIOUS
<1>2. transfers \in Histories /\ fork \in {0, 1}
  BY DEF ExactInv, WorldOk
<1>3. IsHistory(qs) /\ (\A v \in Accounts : Solvent(qs, RebaseAt[t], v)) /\ RebaseAt[t] \in Nat
      /\ ForkBlock \in Nat
  BY <1>1, <1>2, ChainAssumption
<1>4. CASE fork = 0
  <2>1. ts = qs
    BY <1>1, <1>4 DEF History
  <2> QED BY <1>3, <2>1
<1>5. CASE fork = 1
  <2>1. ts = SubSeq(qs, 1, Cardinality({k \in 1 .. Len(qs) : qs[k].block < ForkBlock}))
    BY <1>1, <1>5 DEF History, Shared
  <2>2. IsHistory(ts)
    BY <1>3, <2>1, ForkedHistory
  <2>3. ASSUME NEW v \in Accounts  PROVE Solvent(ts, RebaseAt[t], v)
    BY <1>3, <2>1, ForkedSolvent
  <2> QED BY <2>2, <2>3
<1> QED BY <1>2, <1>4, <1>5

\* A source that failed because of a rebase.
LEMMA RebasedIs ==
    ASSUME ExactInv, NEW t \in Tokens, NEW v \in Accounts, NEW b,
           RebaseAt[t] <= b, net(History(t), v, RebaseAt[t]) # 0
    PROVE  Rebased(t, v, b)
<1>1. PICK ts, r : ts = History(t) /\ r = RebaseAt[t]
  OBVIOUS
<1>2. r \in Nat /\ IsHistory(ts)
  BY <1>1, ChainAssumption, HistoryIs
<1>3. PICK x : x = net(ts, v, r)
  OBVIOUS
<1>4. x \in Int /\ x # 0
  BY <1>1, <1>2, <1>3, NetIs
<1>5. BalanceAfter(ts, r, v, r) = x + x
  BY <1>2, <1>3 DEF BalanceAfter
<1>6. BalanceAfter(ts, r, v, r) # 0
  BY <1>4, <1>5
<1> QED BY <1>1, <1>6 DEF Rebased, balance_of_at

\* min_balances_over gives the least balance, or fails because of a rebase.
LEMMA LeastIs ==
    ASSUME NEW ts, IsHistory(ts), NEW r \in Nat, NEW u, Solvent(ts, r, u),
           NEW lo \in Nat, NEW b \in Nat, lo <= b, NEW later \in Nat, later > lo
    PROVE  min_balance_over(ts, r, u, lo, b) \in
             IF r \in lo + 1 .. b THEN {Failed, ReferenceMinimum(ts, later, u, lo, b)}
             ELSE {ReferenceMinimum(ts, r, u, lo, b)}
<1>1. PICK m, o : m = min_balance_over(ts, r, u, lo, b) /\ o = Gained(ts, r, u, lo)
  BY Zenon
<1>2. m = IF Smooth(ts, r, u, lo, b) THEN Min(Candidates(ts, u, o, lo, b)) ELSE Failed
  BY <1>1, MinimumIs
<1>3. CASE r \in lo + 1 .. b
  <2>1. o = 0 /\ Gained(ts, later, u, lo) = 0
    BY <1>1, <1>3 DEF Gained
  <2>2. ReferenceMinimum(ts, later, u, lo, b) = Min(Candidates(ts, u, o, lo, b))
    BY <2>1, ReferenceMinimumIs
  <2>3. m = Failed \/ m = ReferenceMinimum(ts, later, u, lo, b)
    BY <1>2, <2>2
  <2> QED BY <1>1, <1>3, <2>3, Zenon
<1>4. CASE r \notin lo + 1 .. b
  <2>1. Smooth(ts, r, u, lo, b)
    BY <1>4 DEF Smooth
  <2>2. m = ReferenceMinimum(ts, r, u, lo, b)
    BY <1>1, <1>2, <2>1, ReferenceMinimumIs
  <2> QED BY <1>1, <1>4, <2>2, Zenon
<1> QED BY <1>3, <1>4

LEMMA ExactAgrees == ExactInv => SourcesAgree
<1> DEFINE Ref(t, u, b)  == ReferenceNumerator(History(t), RebaseAt[t], u, rates[t], Decimals[t], b)
           Raw(t, u, b)  == RawNumerator(History(t), RebaseAt[t], u, rates[t], Decimals[t], b)
           Bulk(t, u, b) ==
             BulkNumerator(History(t), RebaseAt[t], Accounts, u, rates[t], Decimals[t], b, QueryRange)
           Least(t, u, lo, b) ==
             min_balance_over(History(t), RebaseAt[t], u, lo, b) \in
               IF RebaseAt[t] \in lo + 1 .. b
               THEN {Failed, ReferenceMinimum(History(t), MaxHead + 1, u, lo, b)}
               ELSE {ReferenceMinimum(History(t), RebaseAt[t], u, lo, b)}
<1> SUFFICES ASSUME ExactInv, NEW t \in Tokens, NEW u \in Accounts, NEW b \in 0 .. head
             PROVE  /\ Raw(t, u, b) \in {Ref(t, u, b)} \cup IF Rebased(t, u, b) THEN {Failed} ELSE {}
                    /\ Bulk(t, u, b) \in {Ref(t, u, b)}
                         \cup IF \E w \in Accounts : Rebased(t, w, b) THEN {Failed} ELSE {}
                    /\ \A lo \in 0 .. b : Least(t, u, lo, b)
  BY Zenon DEF SourcesAgree
<1>1. PICK ts, r, rs, dec : ts = History(t) /\ r = RebaseAt[t] /\ rs = rates[t] /\ dec = Decimals[t]
  BY Zenon
<1>2. /\ IsHistory(ts) /\ (\A v \in Accounts : Solvent(ts, r, v)) /\ r \in Nat /\ Zero \notin Accounts
      /\ RatesOk(rs) /\ dec \in Nat /\ QueryRange \in Nat /\ QueryRange > 0
      /\ b \in Nat /\ b <= MaxHead /\ MaxHead \in Nat
  <2>1. head \in Nat /\ head <= MaxHead /\ RatesOk(rs)
    BY <1>1 DEF ExactInv, WorldOk
  <2>2. IsHistory(ts) /\ \A v \in Accounts : Solvent(ts, r, v)
    BY <1>1, HistoryIs
  <2>3. r \in Nat /\ Zero \notin Accounts
    BY <1>1, ChainAssumption
  <2>4. dec \in Nat /\ QueryRange \in Nat /\ QueryRange > 0 /\ MaxHead \in Nat
    BY <1>1, CheckpointAssumption
  <2>5. b \in Nat /\ b <= MaxHead
    BY <2>1, <2>4
  <2> QED BY <2>1, <2>2, <2>3, <2>4, <2>5
<1>3. Raw(t, u, b) = Ref(t, u, b) \/ (Raw(t, u, b) = Failed /\ Rebased(t, u, b))
  <2>1. PICK x : x = RawNumerator(ts, r, u, rs, dec, b)
    OBVIOUS
  <2>2. \/ x = ReferenceNumerator(ts, r, u, rs, dec, b)
        \/ x = Failed /\ r <= b /\ net(ts, u, r) # 0
    BY <1>2, <2>1, RawIs
  <2>3. r <= b /\ net(ts, u, r) # 0 => Rebased(t, u, b)
    BY <1>1, RebasedIs
  <2> QED BY <1>1, <2>1, <2>2, <2>3
<1>4. Bulk(t, u, b) = Ref(t, u, b) \/ (Bulk(t, u, b) = Failed /\ \E w \in Accounts : Rebased(t, w, b))
  <2>1. PICK x : x = BulkNumerator(ts, r, Accounts, u, rs, dec, b, QueryRange)
    OBVIOUS
  <2>2. \/ x = ReferenceNumerator(ts, r, u, rs, dec, b)
        \/ x = Failed /\ r <= b /\ \E w \in Accounts : net(ts, w, r) # 0
    BY <1>2, <2>1, BulkIs
  <2>3. r <= b => \A w \in Accounts : net(ts, w, r) # 0 => Rebased(t, w, b)
    BY <1>1, RebasedIs
  <2> QED BY <1>1, <2>1, <2>2, <2>3
<1>5. ASSUME NEW lo \in 0 .. b  PROVE Least(t, u, lo, b)
  <2>1. lo \in Nat /\ lo <= b /\ MaxHead + 1 \in Nat /\ MaxHead + 1 > lo
    BY <1>2
  <2> QED BY <1>1, <1>2, <2>1, LeastIs
<1> HIDE DEF Ref, Raw, Bulk, Least
<1> QED BY <1>3, <1>4, <1>5

\* The per-segment integrals of earned_score_of, the bulk replay and the least
\* balance held are what their definitions say, for every account and every
\* block, and fail only where a token has changed balances without transfers.
THEOREM SourcesAlwaysAgree == Spec => []SourcesAgree
<1> QED BY ExactInvHolds, ExactAgrees, PTL

=============================================================================
