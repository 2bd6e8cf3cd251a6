------------------------------ MODULE RpcClient ------------------------------
(***************************************************************************)
(* The JSON-RPC client, src/offchain-rust/src/rpc.rs: reading the logs of  *)
(* a range of blocks from a provider that truncates, refuses, repeats and  *)
(* delays, and batched calls whose answers arrive in any order.            *)
(*                                                                         *)
(* One step is one transport attempt with the local decisions up to the    *)
(* next one.  A topic filter is the set of topics it accepts (null: all of *)
(* them); hashes, addresses and topics are model values, and an error is   *)
(* the class that retryable and range_limited tell apart.                  *)
(***************************************************************************)
EXTENDS Integers, Sequences, FiniteSets, SequencesExt

CONSTANTS
    Blocks,         \* the blocks there are, an interval 1 .. n
    Chains,         \* block contents to read: sequences of [tx, address, topics]
    Txs,            \* transactions of a block, 1 .. n, some of them without logs
    Filter,         \* [address, topics: a sequence of sets of topics]
    Queries,        \* calls: [from, to, range, cap] or batches [params]
    ProviderCap,    \* the provider drops what exceeds this many results
    MaxRange, MaxCap,               \* MAX_INITIAL_LOG_RANGE, MAX_LOG_RESULT_CAP
    RetryCount, MaxRetries,         \* retry_count, MAX_RPC_RETRIES
    MaxRequests, MaxBisections,     \* budgets of a chunk
    MaxBatch,                       \* 256 methods
    OtherAttempts                   \* bound on the attempts of other readers

MaxAttempts == MaxRequests * (MaxRetries + 1)

ASSUME RpcAssumption ==
    /\ Blocks \subseteq Nat /\ Txs \subseteq Nat
    /\ RetryCount \in 0 .. MaxRetries   \* HttpRpc::new_inner refuses more
    /\ MaxRequests \in Nat /\ MaxBisections \in Nat
    \* The result cap in the configuration is at most what the provider
    \* returns: otherwise a truncated answer looks like a complete one.
    /\ MaxCap <= ProviderCap

VARIABLES
    chain,          \* what is really in the blocks
    query,          \* the arguments of the call
    pc,             \* where the call is
    start,          \* chunk_start
    last,           \* chunk_end
    pending,        \* the stack of ranges of the chunk still to be read
    cur,            \* the range the request in flight asks for
    output,         \* logs collected so far; the results of a batch
    requests, bisections, attempts,  \* spent on this chunk
    retry,          \* failed attempts of the request in flight
    capped,         \* was the receipt read caused by the result cap?
    others          \* attempts of other readers of the same client

vars == <<chain, query, pc, start, last, pending, cur, output, requests,
          bisections, attempts, retry, capped, others>>

chunk == <<start, last, requests, bisections>>

-----------------------------------------------------------------------------
(* What the chain holds and what matches. *)

LogsOf(b) ==
    [i \in DOMAIN chain[b] |->
        [block |-> b, index |-> i, tx |-> chain[b][i].tx, form |-> "ok",
         address |-> chain[b][i].address, topics |-> chain[b][i].topics]]

topic_matches(accepted, topic) == topic \in accepted

log_matches_filter(log) ==
    \A i \in DOMAIN Filter.topics :
        i \in DOMAIN log.topics /\ topic_matches(Filter.topics[i], log.topics[i])

Hit(log) == log.address = Filter.address /\ log_matches_filter(log)

\* What a complete and ordered read of lo .. hi returns.
Matching(lo, hi) ==
    FlattenSeq([n \in 1 .. (hi - lo + 1) |-> SelectSeq(LogsOf(lo + n - 1), Hit)])

-----------------------------------------------------------------------------
(* The provider. *)

\* eth_getLogs: in any order, cut at the provider's cap, one log repeated, or
\* with a log nobody asked for.
GetLogsAnswers(lo, hi) ==
    LET all   == Matching(lo, hi)
        sent  == SubSeq(all, 1, IF Len(all) < ProviderCap THEN Len(all) ELSE ProviderCap)
        stray == [block |-> hi, index |-> 9, tx |-> 1, form |-> "ok",
                  address |-> Filter.address, topics |-> <<>>]
    IN  {sent, Reverse(sent), Append(sent, stray)}
        \cup {Append(sent, [l EXCEPT !.block = hi + 1]) : l \in ToSet(sent)}
        \cup {Append(sent, [l EXCEPT !.form = "removed"]) : l \in ToSet(sent)}
        \cup {Append(sent, l) : l \in ToSet(sent)}

\* eth_getBlockByNumber: the block asked for, another one, or one that lists
\* a transaction twice.
BlockAnswers(b) ==
    {[number |-> n, hash |-> "canonical", txs |-> t] :
        n \in {b, b + 1},
        t \in {[i \in Txs |-> i], [i \in Txs |-> 1]}}

\* eth_getBlockReceipts: the receipts, or with one missing, out of order, of
\* a block that was reorganised away, or with the log of another receipt.
ReceiptAnswers(b) ==
    LET true == [t \in Txs |->
                    [block |-> b, hash |-> "canonical", tx |-> t,
                     logs |-> SelectSeq(LogsOf(b), LAMBDA l : l.tx = t)]]
    IN  {true, Tail(true), Reverse(true), [true EXCEPT ![1].hash = "fork"],
         [true EXCEPT ![1].logs = LogsOf(b)]}

\* The members of a batch answer: every id once, in some order, or with an id
\* repeated, with a member missing or with a failed member.
BatchAnswers(n) ==
    LET member(i) == [id |-> i, ok |-> TRUE, result |-> i]
        whole == [i \in 1 .. n |-> member(i)]
    IN  {whole, Reverse(whole), Tail(whole), Append(whole, member(1)),
         [whole EXCEPT ![n] = member(1)], [whole EXCEPT ![1].ok = FALSE],
         [whole EXCEPT ![1].id = n + 1]}

Errors == {"transport", "http_retry", "http_fatal", "bad_response",
           "too_large", "range_message", "other_message"}

\* A connection error, a timeout, 408, 429 and 500 .. 504 are tried again.
retryable(e) == e \in {"transport", "http_retry"}

range_limited(e) == e \in {"too_large", "range_message"}

-----------------------------------------------------------------------------
(* Beginning a call. *)

\* A client that new_inner accepted is about to make one call.
Init ==
    /\ chain \in Chains /\ query \in Queries
    /\ pc = "call" /\ start = 0 /\ last = 0 /\ pending = <<>> /\ cur = <<0, 0>>
    /\ output = <<>> /\ requests = 0 /\ bisections = 0 /\ attempts = 0
    /\ retry = 0 /\ capped = FALSE /\ others = 0

IsBatch == "params" \in DOMAIN query

\* get_logs_chunked checks its policy, and an empty range has no logs.
ReadLogs ==
    /\ pc = "call" /\ ~IsBatch
    /\ pc' = IF query.range \notin 1 .. MaxRange \/ query.cap \notin 1 .. MaxCap THEN "error"
             ELSE IF query.from > query.to THEN "ok"
             ELSE "chunk"
    /\ start' = query.from
    /\ UNCHANGED <<chain, query, last, pending, cur, output, requests,
                   bisections, attempts, retry, capped, others>>

batch_request ==
    /\ pc = "call" /\ IsBatch
    /\ pc' = IF query.params \in 1 .. MaxBatch THEN "batch" ELSE "error"
    /\ UNCHANGED <<chain, query, chunk, pending, cur, output, attempts, retry, capped, others>>

-----------------------------------------------------------------------------
(* A request and its attempts. *)

Fail == /\ pc' = "error"
        /\ UNCHANGED <<chunk, pending, cur, output, capped>>

Waiting == pc \in {"logs", "block", "receipts", "batch"}

\* Mutated form: the retries start again at zero when they are used up, uncounted.
EndlessRetry ==
    /\ Waiting
    /\ \E e \in Errors : retryable(e)
    /\ retry' = (retry + 1) % (RetryCount + 1)
    /\ UNCHANGED <<chain, query, pc, chunk, pending, cur, output, attempts, capped, others>>

\* complete_request: a retryable failure is followed by another attempt.
Retry ==
    /\ Waiting /\ retry < RetryCount
    /\ \E e \in Errors : retryable(e)
    /\ retry' = retry + 1 /\ attempts' = attempts + 1
    /\ UNCHANGED <<chain, query, pc, chunk, pending, cur, output, capped, others>>

\* The request ends, with an answer or an error: its last attempt is counted.
Ends == /\ Waiting /\ attempts' = attempts + 1 /\ retry' = 0
        /\ UNCHANGED <<chain, query, others>>

Final(e) == retryable(e) => retry = RetryCount

\* A range that is read as a whole leaves the stack.
Collect(logs) ==
    /\ output' = output \o logs /\ pc' = "pop"
    /\ UNCHANGED <<chunk, pending, cur, capped>>

\* The halves go on the stack, the lower one on top.
Bisect ==
    LET middle == cur[1] + (cur[2] - cur[1]) \div 2 IN
    IF bisections >= MaxBisections THEN Fail
    ELSE /\ bisections' = bisections + 1
         /\ pending' = pending \o << <<middle + 1, cur[2]>>, <<cur[1], middle>> >>
         /\ pc' = "pop"
         /\ UNCHANGED <<start, last, requests, cur, output, capped>>

\* One block that cannot be read completely is read from its receipts.
Fallback(why) ==
    IF requests + 2 > MaxRequests THEN Fail
    ELSE /\ requests' = requests + 2 /\ capped' = (why = "cap") /\ pc' = "block"
         /\ UNCHANGED <<start, last, bisections, pending, cur, output>>

Narrow(why) == IF cur[1] = cur[2] THEN Fallback(why) ELSE Bisect

Overspent == attempts' > MaxAttempts

\* eth_getLogs failed: a provider's limit narrows the range, the rest ends
\* the read.
LogsFail ==
    /\ pc = "logs" /\ Ends
    /\ \E e \in Errors :
        /\ Final(e)
        /\ IF ~Overspent /\ range_limited(e) THEN Narrow("limit") ELSE Fail

parse_log(log) == log.form = "ok"

\* fetch_logs refuses a log that is out of range or does not match.
Wanted(log) == parse_log(log) /\ log.block \in cur[1] .. cur[2] /\ Hit(log)

\* Mutated form: the cap is compared with > where a full answer may have been cut.
LooseLogsAnswer ==
    /\ pc = "logs" /\ Ends
    /\ \E logs \in GetLogsAnswers(cur[1], cur[2]) :
        IF Overspent \/ \E l \in ToSet(logs) : ~Wanted(l) THEN Fail
        ELSE IF Len(logs) > query.cap THEN Narrow("cap")
        ELSE Collect(logs)

LogsAnswer ==
    /\ pc = "logs" /\ Ends
    /\ \E logs \in GetLogsAnswers(cur[1], cur[2]) :
        IF Overspent \/ \E l \in ToSet(logs) : ~Wanted(l) THEN Fail
        ELSE IF Len(logs) >= query.cap THEN Narrow("cap")
        ELSE Collect(logs)

\* fetch_block_receipt_logs, first the block and then its receipts.
BlockAnswer ==
    /\ pc = "block" /\ Ends
    /\ \E a \in BlockAnswers(cur[1]) :
        IF a.number # cur[1] \/ ~IsInjective(a.txs) THEN Fail
        ELSE pc' = "receipts" /\ UNCHANGED <<chunk, pending, cur, output, capped>>

ReceiptMatches(receipt, t) ==
    /\ receipt.block = cur[1] /\ receipt.hash = "canonical" /\ receipt.tx = t
    /\ \A l \in ToSet(receipt.logs) :
        parse_log(l) /\ l.block = cur[1] /\ l.tx = t

ReceiptsAnswer ==
    /\ pc = "receipts" /\ Ends
    /\ \E receipts \in ReceiptAnswers(cur[1]) :
        IF \/ Len(receipts) # Cardinality(Txs)
           \/ \E t \in DOMAIN receipts : ~ReceiptMatches(receipts[t], t)
           \/ capped /\ Overspent
        THEN Fail
        ELSE Collect(FlattenSeq([t \in Txs |-> SelectSeq(receipts[t].logs, Hit)]))

ReceiptsFail ==
    /\ pc \in {"block", "receipts"} /\ Ends
    /\ \E e \in Errors : Final(e)
    /\ Fail

\* A batch has one member for every id, and none of them failed; results go
\* to the place of their id.
batch_accepted(n, members) ==
    /\ Len(members) = n
    /\ \A m \in ToSet(members) : m.ok /\ m.id \in 1 .. n
    /\ IsInjective([i \in DOMAIN members |-> members[i].id])

BatchAnswer ==
    /\ pc = "batch" /\ Ends
    /\ \E members \in BatchAnswers(query.params) :
        IF batch_accepted(query.params, members)
        THEN /\ pc' = "ok"
             /\ output' = [i \in 1 .. query.params |->
                            (CHOOSE m \in ToSet(members) : m.id = i).result]
             /\ UNCHANGED <<chunk, pending, cur, capped>>
        ELSE Fail

BatchFail ==
    /\ pc = "batch" /\ Ends
    /\ \E e \in Errors : Final(e)
    /\ Fail

-----------------------------------------------------------------------------
(* The loop over chunks and over the ranges of a chunk. *)

OpenChunk ==
    /\ pc = "chunk" /\ start <= query.to
    /\ LET end == start + query.range - 1 IN
        last' = IF end < query.to THEN end ELSE query.to
    /\ pending' = << <<start, last'>> >>
    /\ requests' = 0 /\ bisections' = 0 /\ attempts' = 0 /\ pc' = "pop"
    /\ UNCHANGED <<chain, query, start, cur, output, retry, capped, others>>

PopRange ==
    /\ pc = "pop" /\ pending # <<>>
    /\ IF requests >= MaxRequests \/ attempts >= MaxAttempts THEN Fail
       ELSE /\ cur' = Last(pending) /\ pending' = Front(pending)
            /\ requests' = requests + 1 /\ pc' = "logs"
            /\ UNCHANGED <<start, last, bisections, output, capped>>
    /\ UNCHANGED <<chain, query, attempts, retry, others>>

ChunkDone ==
    /\ pc = "pop" /\ pending = <<>>
    /\ start' = last + 1 /\ pc' = "chunk"
    /\ UNCHANGED <<chain, query, last, pending, cur, output, requests, bisections,
                   attempts, retry, capped, others>>

Before(l, m) == l.block < m.block \/ (l.block = m.block /\ l.index < m.index)

Position(l) == <<l.block, l.index>>

\* Mutated forms: no sort; repeated logs are returned.
UnsortedFinish ==
    /\ pc = "chunk" /\ start > query.to
    /\ pc' = IF IsInjective([i \in DOMAIN output |-> Position(output[i])])
             THEN "ok" ELSE "error"
    /\ UNCHANGED <<chain, query, chunk, pending, cur, output, attempts, retry, capped, others>>

RepeatingFinish ==
    /\ pc = "chunk" /\ start > query.to
    /\ output' = SortSeq(output, Before) /\ pc' = "ok"
    /\ UNCHANGED <<chain, query, chunk, pending, cur, attempts, retry, capped, others>>

\* The sort, and the refusal of two logs at one position.
Finish ==
    /\ pc = "chunk" /\ start > query.to
    /\ output' = SortSeq(output, Before)
    /\ pc' = IF IsInjective([i \in DOMAIN output |-> Position(output[i])])
             THEN "ok" ELSE "error"
    /\ UNCHANGED <<chain, query, chunk, pending, cur, attempts, retry, capped, others>>

\* MAX_LOG_CHUNK_DURATION runs out before or during a request.
Deadline ==
    /\ pc \in {"pop", "logs", "block", "receipts"} /\ Fail
    /\ UNCHANGED <<chain, query, attempts, retry, others>>

\* The transport counter belongs to the client, not to this read.
OtherReader ==
    /\ Waiting /\ others < OtherAttempts
    /\ others' = others + 1 /\ attempts' = attempts + 1
    /\ UNCHANGED <<chain, query, pc, chunk, pending, cur, output, retry, capped>>

Done == pc \in {"ok", "error"} /\ UNCHANGED vars

Step ==
    \/ ReadLogs \/ batch_request \/ OpenChunk \/ PopRange \/ ChunkDone \/ Finish
    \/ Retry \/ LogsFail \/ LogsAnswer \/ BlockAnswer \/ ReceiptsAnswer
    \/ ReceiptsFail \/ BatchAnswer \/ BatchFail

Next == Step \/ Deadline \/ OtherReader \/ Done

\* The call is awaited: every step that it can take it eventually takes.
Spec == Init /\ [][Next]_vars /\ WF_vars(Step)

-----------------------------------------------------------------------------
(* Properties. *)

\* The answer of get_logs_chunked is exactly the matching logs of the range,
\* in block and log order, whatever the provider cut, repeated or refused on
\* the way; the results of a batch are in the order of its parameters.
AnswerIsComplete ==
    pc = "ok" => output = IF IsBatch THEN [i \in 1 .. query.params |-> i]
                          ELSE Matching(query.from, query.to)

\* Every call ends, also when the provider refuses every range it is asked
\* for and fails every attempt that may be repeated.
CallEnds == <>(pc \in {"ok", "error"})

=============================================================================
