------------------------------ MODULE Metrics -------------------------------
(***************************************************************************)
(* The counters of the dashboard.  Each orchestrator replica increments    *)
(* them one at a time after it has published an evaluation; the gateway's  *)
(* get_metrics reads them with one GET after another.                      *)
(***************************************************************************)
EXTENDS Naturals, Sequences, SequencesExt

CONSTANTS Replicas,   \* orchestrators
          Amounts,    \* of transactions
          MaxCounted  \* bound: transactions each of them starts to count

ASSUME MetricsAssumption == Amounts \subseteq Nat /\ MaxCounted \in Nat

Counters == {"total", "volume", "fraud", "blocked"}

VARIABLES
  kpi,       \* the counters in Redis
  counting,  \* per replica, the counters it still has to increment
  due,       \* per replica, the amount of the transaction it counts
  started,   \* per replica, the transactions it started to count
  reading,   \* the request: the values read so far, in order
  failed,    \* the request: a GET raised, and zeros are answered
  covered    \* history: the amounts of the transactions the total counts

metricsVars == <<kpi, counting, due, started, reading, failed, covered>>

MetricsTypeOK ==
  /\ \A c \in Counters : kpi[c] \in Nat
  /\ counting \in [Replicas -> Seq(Counters)]
  /\ due \in [Replicas -> Amounts \cup {0}]
  /\ started \in [Replicas -> 0..MaxCounted]
  /\ reading \in Seq(Nat) /\ failed \in BOOLEAN /\ covered \in Nat

MetricsInit ==
  /\ kpi = [c \in Counters |-> 0]
  /\ counting = [r \in Replicas |-> <<>>] /\ due = [r \in Replicas |-> 0]
  /\ started = [r \in Replicas |-> 0]
  /\ reading = <<>> /\ failed = FALSE /\ covered = 0
-----------------------------------------------------------------------------
\* The increments that follow an approve, a review and a block.
Orders == {<<"total", "volume">>, <<"total", "volume", "fraud">>,
           <<"total", "volume", "blocked", "fraud">>}

StartCounting(r) ==
  /\ counting[r] = <<>> /\ started[r] < MaxCounted
  /\ started' = [started EXCEPT ![r] = @ + 1]
  /\ \E o \in Orders : counting' = [counting EXCEPT ![r] = o]
  /\ \E a \in Amounts : due' = [due EXCEPT ![r] = a]
  /\ UNCHANGED <<kpi, reading, failed, covered>>

\* INCRBYFLOAT adds the amount to the volume; the others are incremented.
Increment(c, r) ==
  /\ kpi' = [kpi EXCEPT ![c] = @ + (IF c = "volume" THEN due[r] ELSE 1)]
  /\ covered' = IF c = "total" THEN covered + due[r] ELSE covered

\* Mutant: the increments run in the opposite order.
CountBackwards(r) ==
  /\ counting[r] # <<>>
  /\ Increment(Last(counting[r]), r)
  /\ counting' = [counting EXCEPT ![r] = Front(@)]
  /\ UNCHANGED <<due, started, reading, failed>>

Count(r) ==
  /\ counting[r] # <<>>
  /\ Increment(Head(counting[r]), r)
  /\ counting' = [counting EXCEPT ![r] = Tail(@)]
  /\ UNCHANGED <<due, started, reading, failed>>

\* Redis raises, the amount is not a number, or the replica dies: the rest of
\* the list is abandoned.
Abandon(r) ==
  /\ counting[r] # <<>>
  /\ counting' = [counting EXCEPT ![r] = <<>>]
  /\ UNCHANGED <<kpi, due, started, reading, failed, covered>>
-----------------------------------------------------------------------------
Gets == <<"total", "fraud", "blocked", "volume">>

\* A new request.
Ask ==
  /\ Len(reading) = Len(Gets) \/ failed
  /\ reading' = <<>> /\ failed' = FALSE
  /\ UNCHANGED <<kpi, counting, due, started, covered>>

Get ==
  /\ Len(reading) < Len(Gets) /\ ~failed
  /\ reading' = Append(reading, kpi[Gets[Len(reading) + 1]])
  /\ UNCHANGED <<kpi, counting, due, started, failed, covered>>

GetRaises ==
  /\ Len(reading) < Len(Gets) /\ ~failed
  /\ failed' = TRUE
  /\ UNCHANGED <<kpi, counting, due, started, reading, covered>>

MetricsNext ==
  \/ \E r \in Replicas : StartCounting(r) \/ Count(r) \/ Abandon(r)
  \/ Ask \/ Get \/ GetRaises

MetricsSpec == MetricsInit /\ [][MetricsNext]_metricsVars
-----------------------------------------------------------------------------
\* The answer is torn: it may show more fraud, or more blocked, than
\* transactions, but never by more than were counted while it was read, since no
\* count shown exceeds the total in Redis when the last GET returns, and the
\* volume shown never exceeds the amounts of the transactions in that total.
TornReadBounded ==
  Len(reading) = Len(Gets) =>
    /\ reading[2] <= kpi["total"] /\ reading[3] <= kpi["total"]
    /\ reading[4] <= covered
=============================================================================
