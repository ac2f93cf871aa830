--------------------------- MODULE SignalsProofs ---------------------------
(***************************************************************************)
(* Proofs about Signals for every set of businesses, sources, types and    *)
(* values: what the rows of the table are, that no fact is believed twice, *)
(* that the history is final, and that the current rows implement Belief.  *)
(***************************************************************************)
EXTENDS Signals, SequenceTheorems, TLAPS

\* What AppendSignal leaves of the row at k: all but, perhaps, its being current.
LEMMA AppendedRows ==
  ASSUME SignalsTypeOK, NEW o \in Observation, AppendSignal(o)
  PROVE  /\ Len(signals') = Len(signals) + 1
         /\ DOMAIN signals = 1..Len(signals)
         /\ DOMAIN signals' = 1..(Len(signals) + 1)
         /\ \A k \in DOMAIN signals : signals'[k] = Supersede(o)[k]
         /\ signals'[Len(signals) + 1] =
              [fact |-> o.fact, value |-> o.value, superseded |-> FALSE]
         /\ Supersede(o) \in Seq(SignalRow)
         /\ signals' \in Seq(SignalRow)
<1> DEFINE row == [fact |-> o.fact, value |-> o.value, superseded |-> FALSE]
<1>1. /\ signals \in Seq(SignalRow)
      /\ DOMAIN signals = 1..Len(signals)
      /\ Len(signals) \in Nat
  BY DEF SignalsTypeOK
<1>2. Supersede(o) \in [1..Len(signals) -> SignalRow]
  <2> SUFFICES ASSUME NEW k \in 1..Len(signals)
               PROVE  IF k \in Current(o.fact) /\ o.fact \notin MultiFact
                        THEN [signals[k] EXCEPT !.superseded = TRUE] \in SignalRow
                        ELSE signals[k] \in SignalRow
    BY <1>1 DEF Supersede
  <2>1. signals[k] \in SignalRow
    BY <1>1
  <2> QED
    BY <2>1 DEF SignalRow
<1>3. Supersede(o) \in Seq(SignalRow) /\ Len(Supersede(o)) = Len(signals)
  BY <1>1, <1>2, SeqDef, LenProperties
<1>4. row \in SignalRow
  BY DEF SignalRow, Observation
<1>5. signals' = Append(Supersede(o), row)
  BY DEF AppendSignal
<1> HIDE DEF row
<1>6. /\ signals' \in Seq(SignalRow)
      /\ Len(signals') = Len(signals) + 1
      /\ DOMAIN signals' = 1..(Len(signals) + 1)
      /\ \A k \in 1..Len(signals) : signals'[k] = Supersede(o)[k]
      /\ signals'[Len(signals) + 1] = row
  BY <1>3, <1>4, <1>5, AppendProperties
<1> QED
  BY <1>1, <1>3, <1>6 DEF row

\* A row that was there keeps its fact and its value, stays superseded if it
\* was, and ceases to be current exactly when a new value of its fact replaces it.
LEMMA KeptRows ==
  ASSUME SignalsTypeOK, NEW o \in Observation, AppendSignal(o), NEW k \in DOMAIN signals
  PROVE  /\ k \in DOMAIN signals'
         /\ signals'[k].fact = signals[k].fact
         /\ signals'[k].value = signals[k].value
         /\ signals'[k].superseded =
              (signals[k].superseded \/ (k \in Current(o.fact) /\ o.fact \notin MultiFact))
<1>1. /\ k \in 1..Len(signals) /\ k \in 1..(Len(signals) + 1)
      /\ signals[k] \in SignalRow
      /\ signals'[k] = Supersede(o)[k]
      /\ k \in DOMAIN signals'
  <2>1. /\ DOMAIN signals = 1..Len(signals)
        /\ DOMAIN signals' = 1..(Len(signals) + 1)
        /\ \A i \in DOMAIN signals : signals'[i] = Supersede(o)[i]
    BY AppendedRows
  <2>2. Len(signals) \in Nat /\ \A i \in 1..Len(signals) : signals[i] \in SignalRow
    BY DEF SignalsTypeOK
  <2> QED
    BY <2>1, <2>2
<1>2. signals'[k] = IF k \in Current(o.fact) /\ o.fact \notin MultiFact
                      THEN [signals[k] EXCEPT !.superseded = TRUE] ELSE signals[k]
  BY <1>1, AppendedRows DEF Supersede
<1>3. CASE k \in Current(o.fact) /\ o.fact \notin MultiFact
  <2>1. signals'[k] = [signals[k] EXCEPT !.superseded = TRUE]
    BY <1>2, <1>3
  <2> QED
    BY <1>1, <1>3, <2>1 DEF SignalRow
<1>4. CASE ~(k \in Current(o.fact) /\ o.fact \notin MultiFact)
  <2>1. signals'[k] = signals[k]
    BY <1>2, <1>4
  <2> QED
    BY <1>1, <1>4, <2>1 DEF SignalRow
<1> QED
  BY <1>3, <1>4

LEMMA SignalsTypeStep ==
  SignalsTypeOK /\ [SignalsNext]_signals => SignalsTypeOK'
<1> SUFFICES ASSUME SignalsTypeOK, [SignalsNext]_signals PROVE SignalsTypeOK'
  OBVIOUS
<1>1. CASE UNCHANGED signals
  BY <1>1 DEF SignalsTypeOK
<1>2. ASSUME NEW o \in Observation, AppendSignal(o) PROVE SignalsTypeOK'
  BY <1>2, AppendedRows DEF SignalsTypeOK
<1> QED
  BY <1>1, <1>2 DEF SignalsNext, RecordSignal, ConfirmSignal

\* The rows are signal rows, for every writer and every vocabulary.
THEOREM SignalsTypeCorrect == SignalsSpec => []SignalsTypeOK
<1>1. SignalsInit => SignalsTypeOK
  BY DEF SignalsInit, SignalsTypeOK
<1> QED
  BY <1>1, SignalsTypeStep, PTL DEF SignalsSpec

LEMMA OneCurrentStep ==
  SignalsTypeOK /\ OneCurrent /\ [SignalsNext]_signals => OneCurrent'
<1> SUFFICES ASSUME SignalsTypeOK, OneCurrent, [SignalsNext]_signals PROVE OneCurrent'
  OBVIOUS
<1>1. CASE UNCHANGED signals
  BY <1>1 DEF OneCurrent
<1>2. ASSUME NEW o \in Observation, AppendSignal(o) PROVE OneCurrent'
  <2> DEFINE last == Len(signals) + 1
             row == [fact |-> o.fact, value |-> o.value, superseded |-> FALSE]
  <2>1. /\ Len(signals) \in Nat
        /\ DOMAIN signals = 1..Len(signals)
        /\ DOMAIN signals' = 1..last
        /\ signals'[last] = row
    BY <1>2, AppendedRows DEF SignalsTypeOK
  <2>2. DOMAIN signals' = DOMAIN signals \cup {last}
    BY <2>1
  <2>3. signals'[last].fact = o.fact /\ signals'[last].value = o.value
    BY <2>1
  <2> HIDE DEF last
  \* A row that was there and the new one: the old one is current and of the
  \* same fact only if the fact has several values and this is another one.
  <2>4. ASSUME NEW k \in DOMAIN signals,
               signals'[k].fact = o.fact, ~signals'[k].superseded
        PROVE  signals'[k].value # o.value /\ o.fact \in MultiFact
    <3>1. /\ signals[k].fact = o.fact
          /\ signals[k].value = signals'[k].value
          /\ ~signals[k].superseded
          /\ ~(k \in Current(o.fact) /\ o.fact \notin MultiFact)
      BY <1>2, <2>4, KeptRows
    <3>2. k \in Current(o.fact)
      BY <3>1 DEF Current
    <3>3. k \notin Matching(o)
      BY <1>2 DEF AppendSignal
    <3> QED
      BY <3>1, <3>2, <3>3 DEF Matching
  <2>5. ASSUME NEW k \in DOMAIN signals, NEW l \in DOMAIN signals, k # l,
               signals'[k].fact = signals'[l].fact,
               ~signals'[k].superseded, ~signals'[l].superseded
        PROVE  signals'[k].value # signals'[l].value /\ signals'[k].fact \in MultiFact
    <3>1. /\ signals'[k].fact = signals[k].fact /\ signals'[l].fact = signals[l].fact
          /\ signals'[k].value = signals[k].value /\ signals'[l].value = signals[l].value
          /\ ~signals[k].superseded /\ ~signals[l].superseded
      BY <1>2, <2>5, KeptRows
    <3> QED
      BY <2>5, <3>1 DEF OneCurrent
  <2> SUFFICES ASSUME NEW k \in DOMAIN signals', NEW l \in DOMAIN signals', k # l,
                      signals'[k].fact = signals'[l].fact,
                      ~signals'[k].superseded, ~signals'[l].superseded
               PROVE  signals'[k].value # signals'[l].value /\ signals'[k].fact \in MultiFact
    BY DEF OneCurrent
  <2>6. CASE k = last
    BY <2>2, <2>3, <2>4, <2>6
  <2>7. CASE l = last
    BY <2>2, <2>3, <2>4, <2>7
  <2> QED
    BY <2>2, <2>5, <2>6, <2>7
<1> QED
  BY <1>1, <1>2 DEF SignalsNext, RecordSignal, ConfirmSignal

\* ux_signals_current can never reject what RecordSignal writes, and a
\* single-valued fact is believed to have at most one value.
THEOREM OneBelief == SignalsSpec => []OneCurrent
<1>1. SignalsInit => SignalsTypeOK /\ OneCurrent
  BY DEF SignalsInit, SignalsTypeOK, OneCurrent
<1>2. SignalsTypeOK /\ OneCurrent /\ [SignalsNext]_signals => (SignalsTypeOK /\ OneCurrent)'
  BY SignalsTypeStep, OneCurrentStep
<1> QED
  BY <1>1, <1>2, PTL DEF SignalsSpec

\* The history is append-only: no row is lost or rewritten, and none that was
\* superseded becomes current again.
THEOREM HistoryIsAppendOnly == SignalsSpec => HistoryIsFinal
<1> DEFINE Final == \A k \in DOMAIN signals :
                      /\ k \in DOMAIN signals'
                      /\ signals'[k].fact = signals[k].fact
                      /\ signals'[k].value = signals[k].value
                      /\ signals[k].superseded => signals'[k].superseded
<1>1. SignalsTypeOK /\ [SignalsNext]_signals => [Final]_signals
  <2> SUFFICES ASSUME SignalsTypeOK, SignalsNext PROVE Final \/ UNCHANGED signals
    OBVIOUS
  <2>1. ASSUME NEW o \in Observation, AppendSignal(o) PROVE Final
    BY <2>1, KeptRows
  <2> QED
    BY <2>1 DEF SignalsNext, RecordSignal, ConfirmSignal
<1> QED
  BY <1>1, SignalsTypeCorrect, PTL DEF SignalsSpec, HistoryIsFinal

\* The values of fact f after an append: those it had, if it is another fact or
\* one that holds several, and the new one.
LEMMA BeliefAfterAppend ==
  ASSUME SignalsTypeOK, NEW o \in Observation, AppendSignal(o), NEW f \in Fact
  PROVE  {signals'[k].value : k \in Current(f)'} =
           IF f # o.fact THEN {signals[k].value : k \in Current(f)}
           ELSE IF f \in MultiFact THEN {signals[k].value : k \in Current(f)} \cup {o.value}
           ELSE {o.value}
<1> DEFINE last == Len(signals) + 1
<1>1. /\ DOMAIN signals' = DOMAIN signals \cup {last}
      /\ last \notin DOMAIN signals
      /\ signals'[last].fact = o.fact /\ signals'[last].value = o.value
      /\ ~signals'[last].superseded
  <2>1. /\ DOMAIN signals = 1..Len(signals)
        /\ DOMAIN signals' = 1..last
        /\ signals'[last] = [fact |-> o.fact, value |-> o.value, superseded |-> FALSE]
    BY AppendedRows
  <2>2. Len(signals) \in Nat
    BY DEF SignalsTypeOK
  <2> QED
    BY <2>1, <2>2
<1> HIDE DEF last
<1>2. Current(f)' = {k \in DOMAIN signals' : signals'[k].fact = f /\ ~signals'[k].superseded}
  BY DEF Current
<1>3. \A k \in DOMAIN signals :
        k \in Current(f)' <=> k \in Current(f) /\ ~(f = o.fact /\ f \notin MultiFact)
  <2> SUFFICES ASSUME NEW k \in DOMAIN signals
               PROVE  k \in Current(f)' <=> k \in Current(f) /\ ~(f = o.fact /\ f \notin MultiFact)
    OBVIOUS
  <2>1. /\ k \in DOMAIN signals'
        /\ signals'[k].fact = signals[k].fact
        /\ signals'[k].superseded =
             (signals[k].superseded \/ (k \in Current(o.fact) /\ o.fact \notin MultiFact))
    BY KeptRows
  <2> QED
    BY <1>2, <2>1, Zenon DEF Current
<1>4. Current(f) \subseteq DOMAIN signals /\ Current(f)' \subseteq DOMAIN signals \cup {last}
  BY <1>1, <1>2 DEF Current
<1>5. last \in Current(f)' <=> f = o.fact
  BY <1>1, <1>2
<1>6. \A k \in DOMAIN signals : signals'[k].value = signals[k].value
  BY KeptRows
<1>7. CASE f # o.fact
  <2>1. Current(f)' = Current(f)
    BY <1>3, <1>4, <1>5, <1>7
  <2> QED
    BY <1>4, <1>6, <1>7, <2>1
<1>8. CASE f = o.fact /\ f \in MultiFact
  <2>1. Current(f)' = Current(f) \cup {last}
    BY <1>3, <1>4, <1>5, <1>8
  <2>2. {signals'[k].value : k \in Current(f) \cup {last}} =
          {signals'[k].value : k \in Current(f)} \cup {o.value}
    BY <1>1
  <2>3. {signals'[k].value : k \in Current(f)} = {signals[k].value : k \in Current(f)}
    BY <1>4, <1>6
  <2> QED
    BY <1>8, <2>1, <2>2, <2>3
<1>9. CASE f = o.fact /\ f \notin MultiFact
  <2>1. Current(f)' = {last}
    BY <1>3, <1>4, <1>5, <1>9
  <2> QED
    BY <1>1, <1>9, <2>1
<1> QED
  BY <1>7, <1>8, <1>9

\* The signals table implements Belief: what v_current_signals shows is the last
\* value observed of a fact, or all of them, whatever the history.
THEOREM BeliefIsImplemented == SignalsSpec => BeliefIsLatest
<1> DEFINE held == [f \in Fact |-> {signals[k].value : k \in Current(f)}]
<1>1. SignalsInit => PresentBelief!Init
  BY DEF SignalsInit, PresentBelief!Init, Current
<1>2. ASSUME SignalsTypeOK, NEW o \in Observation, AppendSignal(o)
      PROVE  PresentBelief!Observe(o.fact, o.value)
  <2>1. o.fact \in Fact
    BY DEF Observation
  <2>2. held' = [f \in Fact |-> {signals'[k].value : k \in Current(f)'}]
    OBVIOUS
  <2>3. held' = [f \in Fact |->
                   IF f # o.fact THEN held[f]
                   ELSE IF f \in MultiFact THEN held[f] \cup {o.value} ELSE {o.value}]
    BY <1>2, <2>2, BeliefAfterAppend
  <2>4. held' = [held EXCEPT ![o.fact] =
                   IF o.fact \in MultiFact THEN @ \cup {o.value} ELSE {o.value}]
    BY <2>1, <2>3
  <2> QED
    BY <2>4 DEF PresentBelief!Observe
<1>3. SignalsTypeOK /\ [SignalsNext]_signals => [PresentBelief!Next]_held
  <2> SUFFICES ASSUME SignalsTypeOK, [SignalsNext]_signals
               PROVE  PresentBelief!Next \/ UNCHANGED held
    OBVIOUS
  <2>1. CASE UNCHANGED signals
    BY <2>1 DEF Current
  <2>2. ASSUME NEW o \in Observation, AppendSignal(o) PROVE PresentBelief!Next
    <3>1. o.fact \in Fact /\ o.value \in Values
      BY DEF Observation
    <3> QED
      BY <1>2, <2>2, <3>1 DEF PresentBelief!Next
  <2> QED
    BY <2>1, <2>2 DEF SignalsNext, RecordSignal, ConfirmSignal
<1> QED
  BY <1>1, <1>3, SignalsTypeCorrect, PTL DEF SignalsSpec, BeliefIsLatest, PresentBelief!Spec
=============================================================================
