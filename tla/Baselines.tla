----------------------------- MODULE Baselines -----------------------------
(***************************************************************************)
(* The windows of recent signals that the features and the edge stage keep *)
(* in memory and flush to a table (features/baseline.go, edge/baseline.go, *)
(* workers/baseline_flush.go; HydrateBaselines and flushKey in             *)
(* run_features.go and run_edge.go; SaveBaseline, LoadBaselines).          *)
(*                                                                         *)
(* The two stores are copies of one another: this module is either. A key  *)
(* is a market and a signal, a number for its place in the order of the    *)
(* flush. The stage appends, without end, while the flush goroutine reads, *)
(* writes and cleans.                                                      *)
(***************************************************************************)
EXTENDS Integers, Sequences, FiniteSets

CONSTANTS
  Keys,            \* market and signal, by their place in the sorted order
  Batches,         \* the keys that one event may append to
  MaxLen,          \* maxLen of the store
  MaxWrites,       \* max_writes of a flush cycle
  Readings,        \* values of a signal
  BaselineFaults   \* bound: failed statements and crashes

ASSUME BaselinesAssumption ==
  /\ Keys \subseteq Nat
  /\ Batches \subseteq SUBSET Keys
  /\ {MaxLen, MaxWrites} \subseteq Nat \ {0}
  /\ BaselineFaults \in Nat

VARIABLES
  history,     \* the ring buffer of each key
  dirty,       \* keys appended to since they were cleaned
  baselines,   \* the table, by key
  flushing,    \* the keys of this cycle still to do, and the one in work
  failures     \* faults so far

baselinesVars == <<history, dirty, baselines, flushing, failures>>

NoKey == -1
NotFlushing == [todo |-> {}, key |-> NoKey, values |-> <<>>, saved |-> FALSE]

\* Slip: the window grows by one.
TrailingOneMore(buf) ==
  IF Len(buf) > MaxLen + 1 THEN SubSeq(buf, Len(buf) - MaxLen, Len(buf)) ELSE buf

\* The newest MaxLen values.
Trailing(buf) ==
  IF Len(buf) > MaxLen THEN SubSeq(buf, Len(buf) - MaxLen + 1, Len(buf)) ELSE buf

BaselinesTypeOK ==
  /\ \A k \in Keys : history[k] \in Seq(Readings) /\ Len(history[k]) <= MaxLen
  /\ dirty \subseteq Keys
  /\ \A k \in Keys : baselines[k] \in Seq(Readings) /\ Len(baselines[k]) <= MaxLen
  /\ flushing.todo \subseteq Keys /\ flushing.key \in Keys \union {NoKey}
  /\ failures \in 0..BaselineFaults

BaselinesInit ==
  /\ history = [k \in Keys |-> <<>>]
  /\ dirty = {}
  /\ baselines = [k \in Keys |-> <<>>]
  /\ flushing = NotFlushing
  /\ failures = 0

Fault == failures < BaselineFaults /\ failures' = failures + 1

-------------------------------------------------------------------------------
(* The stage. *)

\* The values of an event are appended under one lock and their keys are dirty.
AppendBatch(K) ==
  /\ \E r \in [K -> Readings] :
       history' = [k \in Keys |->
         IF k \in K THEN Trailing(Append(history[k], r[k])) ELSE history[k]]
  /\ dirty' = dirty \union K
  /\ UNCHANGED <<baselines, flushing, failures>>

-------------------------------------------------------------------------------
(* The flush. *)

\* A cycle has no room for the key: enough of those before it are dirty.
Outranked(k) == Cardinality({j \in dirty : j < k}) >= MaxWrites

\* The first MaxWrites of the sorted keys.
DirtyKeys == {k \in dirty : ~ Outranked(k)}

FlushBaselineCycle ==
  /\ flushing = NotFlushing /\ dirty # {}
  /\ flushing' = [NotFlushing EXCEPT !.todo = DirtyKeys]
  /\ UNCHANGED <<history, dirty, baselines, failures>>

\* Values copies the buffer.
Values(k) ==
  /\ flushing.key = NoKey
  /\ k \in flushing.todo /\ \A j \in flushing.todo : k <= j
  /\ flushing' = [flushing EXCEPT !.todo = @ \ {k}, !.key = k, !.values = history[k]]
  /\ UNCHANGED <<history, dirty, baselines, failures>>

\* Slip: a write that fails cleans the key like one that succeeds.
SaveBaselineOrForget ==
  /\ flushing.key # NoKey /\ ~ flushing.saved
  /\ flushing' = [flushing EXCEPT !.saved = TRUE]
  /\ \/ /\ baselines' = [baselines EXCEPT ![flushing.key] = flushing.values]
        /\ UNCHANGED failures
     \/ Fault /\ UNCHANGED baselines
  /\ UNCHANGED <<history, dirty>>

\* The row takes the copy. A write that fails leaves the key dirty and the cycle
\* goes on with the next one.
SaveBaseline ==
  /\ flushing.key # NoKey /\ ~ flushing.saved
  /\ \/ /\ baselines' = [baselines EXCEPT ![flushing.key] = flushing.values]
        /\ flushing' = [flushing EXCEPT !.saved = TRUE]
        /\ UNCHANGED failures
     \/ /\ Fault
        /\ flushing' = [NotFlushing EXCEPT !.todo = flushing.todo]
        /\ UNCHANGED baselines
  /\ UNCHANGED <<history, dirty>>

\* MarkClean takes the key off, whatever was appended since the copy.
MarkClean ==
  /\ flushing.saved
  /\ dirty' = dirty \ {flushing.key}
  /\ flushing' = [NotFlushing EXCEPT !.todo = flushing.todo]
  /\ UNCHANGED <<history, baselines, failures>>

-------------------------------------------------------------------------------
(* The process. *)

\* The trailing window of what the table holds. Nothing is dirty.
Hydrate == [k \in Keys |-> Trailing(baselines[k])]

\* The process stops and starts again. When the load fails the stage begins with
\* empty windows.
BaselinesRestart ==
  /\ Fault
  /\ history' \in {Hydrate, [k \in Keys |-> <<>>]}
  /\ dirty' = {}
  /\ flushing' = NotFlushing
  /\ UNCHANGED <<baselines>>

FlushStep ==
  FlushBaselineCycle \/ (\E k \in Keys : Values(k)) \/ SaveBaseline \/ MarkClean

BaselinesNext == (\E K \in Batches : AppendBatch(K)) \/ FlushStep \/ BaselinesRestart

\* The ticker of the flush.
BaselinesFairness == WF_baselinesVars(FlushStep)

BaselinesSpec == BaselinesInit /\ [][BaselinesNext]_baselinesVars
BaselinesFairSpec == BaselinesSpec /\ BaselinesFairness

-------------------------------------------------------------------------------
(* Properties. *)

\* A window that is dirty before the flush takes the key up reaches the table or
\* grows on, whichever writes fail and whatever the stage appends meanwhile, unless
\* the key is put off for good: the cycle begins with the first keys every time, and
\* enough of them may be dirty again whenever it does (flushBaselineCycle).
DirtyWindowsAreSaved ==
  \A k \in Keys :
    \/ []<> Outranked(k)
    \/ \A w \in UNION {[1..n -> Readings] : n \in 1..MaxLen} :
         (k \in dirty /\ flushing.key # k /\ history[k] = w)
           ~> (baselines[k] = w \/ history[k] # w)
=============================================================================
