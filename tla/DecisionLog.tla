----------------------------- MODULE DecisionLog -----------------------------
(***************************************************************************)
(* What becomes of the record of a decision of the data route: the counts   *)
(* and latency histograms each process keeps in memory                      *)
(* (packages/core/src/decision-log.ts), and their way to the audit log      *)
(* (apps/web/src/lib/decision-log.ts, packages/db/src/queries/audit-logs.ts *)
(* and the flush of the maintenance job).                                   *)
(*                                                                         *)
(* The two histograms of a summary are filled alike; one is modelled.       *)
(***************************************************************************)
EXTENDS Integers, FiniteSets, FiniteSetsExt, Sequences, SequencesExt

CONSTANTS
    Instances,              \* processes of the application
    Subjects,               \* resource:action, as callers name them
    Latencies,              \* what a decision may take
    LATENCY_BUCKETS_MS,     \* upper bounds, ascending
    MAX_TRACKED_KEYS, FLUSH_INTERVAL_MS

ASSUME DecisionAssumption ==
    /\ LATENCY_BUCKETS_MS \in Seq(Nat) /\ Latencies \subseteq Int
    /\ \A i, j \in DOMAIN LATENCY_BUCKETS_MS : i < j => LATENCY_BUCKETS_MS[i] < LATENCY_BUCKETS_MS[j]
    /\ IsFiniteSet(Instances)
    /\ {MAX_TRACKED_KEYS, FLUSH_INTERVAL_MS} \subseteq Nat \ {0}

VARIABLES
    metrics,        \* by process: [summaries, dropped, lastFlush]
    auditLog,       \* infra_audit_logs: what its summary rows count, by subject and outcome
    denials,        \* infra_audit_logs: the rows denials have of their own, by subject
    decided,        \* history: decisions taken, by subject and outcome
    losses,         \* history: those whose process died, whose insert failed, or past the cap
    now

decisionVars == <<metrics, auditLog, denials, decided, losses>>

-----------------------------------------------------------------------------
(* The histogram *)

Buckets == 1 .. Len(LATENCY_BUCKETS_MS) + 1     \* the last is the overflow
emptyHistogram == [buckets |-> [b \in Buckets |-> 0], count |-> 0, maxMs |-> 0]

Positive(ms) == Max({ms, 0})
BucketOf(ms) == Min({b \in Buckets : b = Max(Buckets) \/ ms <= LATENCY_BUCKETS_MS[b]})

observe(h, ms) ==
    [buckets |-> [h.buckets EXCEPT ![BucketOf(Positive(ms))] = @ + 1],
     count |-> h.count + 1, maxMs |-> Max({h.maxMs, Positive(ms)})]

UpTo(h, b) == FoldFunctionOnSet(+, 0, h.buckets, 1 .. b)

\* The bound of the bucket that holds the n-th smallest, n = ceil(count * percent).
percentile(h, percent) ==
    LET target == (h.count * percent + 99) \div 100
        reached == Min({b \in Buckets : UpTo(h, b) >= target})
    IN  IF h.count = 0 THEN 0
        ELSE IF reached = Max(Buckets) THEN h.maxMs ELSE LATENCY_BUCKETS_MS[reached]

\* The reference: the n-th smallest of the sample itself.
ExactPercentile(sample, percent) ==
    LET sorted == SortSeq(sample, <) IN sorted[(Len(sample) * percent + 99) \div 100]

\* "an over-estimate rather than an under-estimate" (decision-log.ts:64-66),
\* and the least the buckets allow.
Overestimates(sample, percent) ==
    LET answer == percentile(FoldLeft(observe, emptyHistogram, sample), percent)
        exact == ExactPercentile([i \in DOMAIN sample |-> Positive(sample[i])], percent)
    IN  exact <= answer /\ \A b \in DOMAIN LATENCY_BUCKETS_MS : exact <= LATENCY_BUCKETS_MS[b] => answer <= LATENCY_BUCKETS_MS[b]

-----------------------------------------------------------------------------
(* One process between two flushes *)

Outcomes == {"allowed", "denied"}
NoSummary == [count |-> [o \in Outcomes |-> 0], overhead |-> emptyHistogram]
Untracked == <<>>       \* the empty map

\* A process dates its window from the first use of it.
Unused == [summaries |-> Untracked, dropped |-> 0, lastFlush |-> -1]
state(i) == IF metrics[i] = Unused THEN [Unused EXCEPT !.lastFlush = now] ELSE metrics[i]

SummaryOf(summaries, s) == IF s \in DOMAIN summaries THEN summaries[s] ELSE NoSummary

Seen(summary, outcome, ms) ==
    [count |-> [summary.count EXCEPT ![outcome] = @ + 1], overhead |-> observe(summary.overhead, ms)]

\* DecisionMetrics.record: a subject past the cap is counted and forgotten.
Capped(i, s) == s \notin DOMAIN metrics[i].summaries
                  /\ Cardinality(DOMAIN metrics[i].summaries) >= MAX_TRACKED_KEYS
Recorded(i, s, outcome, ms) ==
    IF Capped(i, s) THEN [state(i) EXCEPT !.dropped = @ + 1]
    ELSE [state(i) EXCEPT !.summaries = [x \in DOMAIN @ \cup {s} |->
             IF x = s THEN Seen(SummaryOf(@, s), outcome, ms) ELSE @[x]]]

\* Mutant: the snapshot is taken and the window stays.
drainNothing(m) == [m EXCEPT !.lastFlush = now]

drain(m) == [summaries |-> Untracked, dropped |-> 0, lastFlush |-> now]

Plus(counts, s, outcome, n) == [counts EXCEPT ![s][outcome] = @ + n]

\* What a summary row adds to the log, or its failure to what is lost.
WithSummary(counts, summaries) ==
    [s \in Subjects |-> [o \in Outcomes |-> counts[s][o] + SummaryOf(summaries, s).count[o]]]

\* flushNow, given what the window and the losses have become.
Flushed(i, m, gone) ==
    /\ metrics' = [metrics EXCEPT ![i] = drain(m)]
    /\ \/ auditLog' = WithSummary(auditLog, m.summaries) /\ losses' = gone
       \/ auditLog' = auditLog /\ losses' = WithSummary(gone, m.summaries)

Due(m) == now - m.lastFlush >= FLUSH_INTERVAL_MS /\ m.summaries # Untracked
Idles(m) == now - m.lastFlush >= FLUSH_INTERVAL_MS /\ m.summaries = Untracked

\* What the data route may find: a denial of checkAccess's two layers, which
\* has audited it by the time it is thrown; another error of planQuery, as an
\* insert its policies do not admit; or leave to go on.
Causes == {"access", "plan", "allowed"}
outcomeOf(cause) == IF cause = "allowed" THEN "allowed" ELSE "denied"

\* Rows of its own: checkAccess's, and recordDecision's.
rowsOf(cause) == CASE cause = "access" -> 2 [] cause = "plan" -> 1 [] cause = "allowed" -> 0

\* A denial's rows are inserted at once, each best effort; then the window
\* counts the decision, and is flushed if its time has come.
recordDecision(i, s, cause, ms) ==
    LET outcome == outcomeOf(cause)
        m == Recorded(i, s, outcome, ms)
        gone == IF Capped(i, s) THEN Plus(losses, s, outcome, 1) ELSE losses
    IN
    /\ decided' = Plus(decided, s, outcome, 1)
    /\ \E written \in 0 .. rowsOf(cause) : denials' = [denials EXCEPT ![s] = @ + written]
    /\ IF Due(m) THEN Flushed(i, m, gone)
       ELSE /\ metrics' = [metrics EXCEPT ![i] = IF Idles(m) THEN [m EXCEPT !.lastFlush = now] ELSE m]
            /\ losses' = gone /\ UNCHANGED auditLog

\* The maintenance job flushes the process it runs in.
flushNow(i) == Flushed(i, state(i), losses) /\ UNCHANGED <<decided, denials>>

\* A process that goes takes its window with it.
Forgets(i) ==
    /\ metrics' = [metrics EXCEPT ![i] = Unused]
    /\ losses' = WithSummary(losses, metrics[i].summaries)
    /\ UNCHANGED <<auditLog, denials, decided>>

InitDecisions ==
    LET none == [s \in Subjects |-> [o \in Outcomes |-> 0]] IN
    /\ metrics = [i \in Instances |-> Unused]
    /\ auditLog = none /\ decided = none /\ losses = none
    /\ denials = [s \in Subjects |-> 0]

-----------------------------------------------------------------------------
(* Properties *)

\* The decisions of a subject that processes have in memory.
Unwritten(windows, s, o) ==
    MapThenSumSet(LAMBDA i : SummaryOf(windows[i].summaries, s).count[o], Instances)

\* The summaries count every decision once: it is in a summary row or in the
\* memory of one process that has not flushed it, unless it was lost in one of
\* the ways the code accepts ("Returns the window's summaries and resets, so a
\* flush cannot double-count", decision-log.ts:142).  Of the rows a denial has
\* besides, two or one or none, it says nothing.
Accounted ==
    \A s \in Subjects, o \in Outcomes :
        decided[s][o] = auditLog[s][o] + losses[s][o] + Unwritten(metrics, s, o)
=============================================================================
