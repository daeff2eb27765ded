-------------------------- MODULE OnoeWifiManager --------------------------
(* OnoeWifiManager: the rate of one station, decided once in a while from    *)
(* what became of its packets.  Time is left out: a decision may be due       *)
(* whenever a frame is sent.  That DoGetDataTxVector sends the late retries   *)
(* of a packet at a rate below txrate is left out as well.                    *)
EXTENDS Integers

CONSTANTS MaxRate,                \* index of the highest rate supported
          RaiseThreshold,
          AddCreditThreshold,     \* a percentage
          Enough,                 \* packets that make a decision, 10 in the code
          MaxRetry,               \* bound: failures of a packet
          MaxTx                   \* bound: packets between two decisions

OnoeConstants ==
    /\ {MaxRate, AddCreditThreshold, Enough, MaxTx} \subseteq Nat
    /\ {RaiseThreshold, MaxRetry} \subseteq Nat \ {0}

VARIABLES txrate,
          tx,                     \* m_tx_ok, m_tx_err, m_tx_retr, m_tx_upper
          rateBlocked,
          retry                   \* m_shortRetry and m_longRetry

vars == <<txrate, tx, rateBlocked, retry>>

NoRetry == [short |-> 0, long |-> 0]

\* The direction a decision takes: -1, 0 or 1.
Direction(enough) ==
    IF enough /\ tx.err = 0 /\ tx.retr < (tx.ok * AddCreditThreshold) \div 100 THEN 1
    ELSE IF (enough /\ tx.ok < tx.retr) \/ (tx.err > 0 /\ tx.ok = 0) THEN -1
    ELSE 0

NewRate(dir, upper) ==
    CASE dir = -1 /\ txrate > 0                                        -> txrate - 1
      [] dir = 1 /\ upper + 1 >= RaiseThreshold /\ txrate + 1 <= MaxRate -> txrate + 1
      [] OTHER                                                          -> txrate

NewCredit(dir, enough, upper) ==
    CASE dir = 0  -> IF enough /\ upper > 0 THEN upper - 1 ELSE upper
      [] dir = -1 -> 0
      [] dir = 1  -> IF upper + 1 < RaiseThreshold THEN upper + 1 ELSE 0

\* UpdateMode, when it is due
UpdateMode ==
    LET enough == tx.ok + tx.err >= Enough
        dir    == Direction(enough)
        rate   == NewRate(dir, tx.upper)
    IN  /\ ~rateBlocked
        /\ txrate' = rate
        /\ tx' = IF rate # txrate THEN [ok |-> 0, err |-> 0, retr |-> 0, upper |-> 0]
                 ELSE IF enough
                 THEN [ok |-> 0, err |-> 0, retr |-> 0, upper |-> NewCredit(dir, enough, tx.upper)]
                 ELSE [tx EXCEPT !.upper = NewCredit(dir, enough, @)]
        /\ UNCHANGED <<rateBlocked, retry>>

\* UpdateRetry, and one packet more in the count of outcome
Outcome(outcome, retries) ==
    /\ tx.ok + tx.err < MaxTx
    /\ tx' = [tx EXCEPT ![outcome] = @ + 1, !.retr = @ + retries]
    /\ retry' = NoRetry
    /\ rateBlocked' = FALSE
    /\ UNCHANGED txrate

Retries == retry.short + retry.long

\* Mutant of Failed: the rate is not blocked.
FailedUnblocked(kind) ==
    \/ /\ Retries + 1 < MaxRetry
       /\ retry' = [retry EXCEPT ![kind] = @ + 1]
       /\ UNCHANGED <<txrate, tx, rateBlocked>>
    \/ Outcome("err", Retries + 1)

\* DoReportRtsFailed and DoReportDataFailed, followed by DoReportFinalRtsFailed
\* or DoReportFinalDataFailed when the remote station manager gives the packet up.
Failed(kind) ==
    \/ /\ Retries + 1 < MaxRetry
       /\ retry' = [retry EXCEPT ![kind] = @ + 1]
       /\ rateBlocked' = TRUE
       /\ UNCHANGED <<txrate, tx>>
    \/ Outcome("err", Retries + 1)

\* DoReportRtsOk
RtsOk ==
    /\ rateBlocked' = TRUE
    /\ UNCHANGED <<txrate, tx, retry>>

\* DoReportDataOk
DataOk == Outcome("ok", Retries)

\* DoCreateStation
Init ==
    /\ txrate = 0
    /\ tx = [ok |-> 0, err |-> 0, retr |-> 0, upper |-> 0]
    /\ rateBlocked = FALSE
    /\ retry = NoRetry

Next == UpdateMode \/ Failed("short") \/ Failed("long") \/ RtsOk \/ DataOk

Spec == Init /\ [][Next]_vars

-----------------------------------------------------------------------------
\* No decision is taken while a packet is being retried: its retries are not
\* yet in the counts, and its rate stays.
PacketKeepsRate == [][Retries > 0 => UNCHANGED <<txrate, tx>> \/ retry' = NoRetry]_vars

=============================================================================
