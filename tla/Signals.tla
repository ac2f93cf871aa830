------------------------------ MODULE Signals ------------------------------
(***************************************************************************)
(* The signals table (internal/store/signals.go): one row per observed     *)
(* value of a fact, appended when the value changes and superseded, never  *)
(* deleted.  RecordSignal is one transaction.  Times, confidence and       *)
(* evidence, which re-observing a value refreshes in place, are left out.  *)
(***************************************************************************)
EXTENDS Naturals, Sequences

CONSTANTS
  Businesses,  (* ids of the businesses observed                        *)
  Sources,     (* who observes: website, meta_ads, manual, ...          *)
  Types,       (* the closed vocabulary of signalSpecs                  *)
  MultiTypes,  (* the types whose values coexist                        *)
  Values

Fact == [business : Businesses, source : Sources, type : Types]
MultiFact == {f \in Fact : f.type \in MultiTypes}
Observation == [fact : Fact, value : Values]
SignalRow == [fact : Fact, value : Values, superseded : BOOLEAN]

VARIABLE signals (* the rows of the signals table, in id order *)

\* v_current_signals: the rows of present belief about fact f.
Current(f) ==
  {k \in DOMAIN signals : signals[k].fact = f /\ ~signals[k].superseded}

\* The current row that already holds the observed value.
Matching(o) == {k \in Current(o.fact) : signals[k].value = o.value}

\* Faulty variant: nothing is superseded, the new value is only added.
FaultySupersedeNever(o) == signals

\* A single-valued type has at most one current row, which a new value replaces.
Supersede(o) ==
  [k \in DOMAIN signals |->
     IF k \in Current(o.fact) /\ o.fact \notin MultiFact
       THEN [signals[k] EXCEPT !.superseded = TRUE] ELSE signals[k]]

\* What RecordSignal reports of an observation: new, confirmed or transition.
Outcome(o) ==
  CASE Matching(o) # {} -> "confirmed"
    [] Matching(o) = {} /\ o.fact \notin MultiFact /\ Current(o.fact) # {} -> "transition"
    [] OTHER -> "new"

\* The value is already current: only the row's freshness moves.
ConfirmSignal(o) ==
  /\ Matching(o) # {}
  /\ UNCHANGED signals

\* Faulty variant: the current row is updated in place.
FaultyAppendSignal(o) ==
  /\ Matching(o) = {}
  /\ signals' =
       IF o.fact \notin MultiFact /\ Current(o.fact) # {}
         THEN [k \in DOMAIN signals |->
                 IF k \in Current(o.fact) THEN [signals[k] EXCEPT !.value = o.value]
                 ELSE signals[k]]
         ELSE Append(signals, [fact |-> o.fact, value |-> o.value, superseded |-> FALSE])

\* Faulty variant: what the value replaces is looked up after the insert, so the
\* new row is superseded with it.
FaultyInsertFirst(o) ==
  /\ Matching(o) = {}
  /\ signals' = Append(Supersede(o),
                       [fact |-> o.fact, value |-> o.value,
                        superseded |-> o.fact \notin MultiFact /\ Current(o.fact) # {}])

\* The value is not current: it is inserted, superseding what it replaces.
AppendSignal(o) ==
  /\ Matching(o) = {}
  /\ signals' = Append(Supersede(o),
                       [fact |-> o.fact, value |-> o.value, superseded |-> FALSE])

RecordSignal(o) == ConfirmSignal(o) \/ AppendSignal(o)

SignalsInit == signals = <<>>

\* enrich records what it reads; signal records what the operator saw.
SignalsNext == \E o \in Observation : RecordSignal(o)

SignalsSpec == SignalsInit /\ [][SignalsNext]_signals

----------------------------------------------------------------------------
SignalsTypeOK == signals \in Seq(SignalRow)

\* ux_signals_current, and "single-valued types are kept single by superseding
\* on change": no value is current twice, and a single-valued fact has at most
\* one current row, however the writers interleave.
OneCurrent ==
  \A k, l \in DOMAIN signals :
    /\ k # l
    /\ signals[k].fact = signals[l].fact
    /\ ~signals[k].superseded /\ ~signals[l].superseded
    => signals[k].value # signals[l].value /\ signals[k].fact \in MultiFact

\* "The full history": a row is never lost or rewritten, and once superseded it
\* is never current again, even when its value is seen again.
HistoryIsFinal ==
  [][\A k \in DOMAIN signals :
       /\ k \in DOMAIN signals'
       /\ signals'[k].fact = signals[k].fact
       /\ signals'[k].value = signals[k].value
       /\ signals[k].superseded => signals'[k].superseded]_signals

\* The current rows are the belief of the abstract specification: the last
\* value observed, or all of them, whatever happened in between.
PresentBelief ==
  INSTANCE Belief WITH Facts <- Fact, Multi <- MultiFact,
    belief <- [f \in Fact |-> {signals[k].value : k \in Current(f)}]
BeliefIsLatest == PresentBelief!Spec
=============================================================================
