-------------------------- MODULE MCDefiInsurance --------------------------
(* Small instances of DefiInsurance for TLC. *)
EXTENDS DefiInsurance, TLC

CONSTANTS u1, u2, usd8, ins, p1, p2

PayRow(e, s, b, a) ==
    [eligible |-> e, score |-> s, boosted |-> BoostedScore(s, b), booster |-> b,
     pay |-> [p \in Pools |-> a]]

MCRowChoices == {PayRow(0, 0, 0, 0), PayRow(1, 1, 0, 4)}
BoosterRowChoices == {PayRow(0, 0, 0, 0), PayRow(1, 1, 1, 4)}

\* Time does not end where the clock does.  At MaxTime the deadlines of the
\* last incident come closer instead, since only their distance matters; what
\* depends on openedAt is long over then (MaxTime > OpenUntil + 2 windows).
DeadlineComesCloser ==
    LET i == Len(incidents) IN
    /\ now = MaxTime
    /\ i # 0 /\ TerminalDeadline(incidents[i]) >= now
    /\ incidents' = [incidents EXCEPT ![i].phaseDeadline = @ - 1]
    /\ UNCHANGED <<now, registry, scoreSpent, configVars, claims, custodyVars,
                   poolAssets, signed>>

\* Blocks keep coming for ever, and claimants who can leave do.
UnendingSpec ==
    /\ Init /\ [][Next \/ DeadlineComesCloser]_vars
    /\ WF_vars(Tick \/ DeadlineComesCloser)
    /\ ClaimantsLeave

============================================================================
