-------------------------- MODULE ViabilityProofs --------------------------
(***************************************************************************)
(* A seeded investigation and its signals: no work is repeated, and the    *)
(* audit of the signals tells what Datadog counted.                        *)
(***************************************************************************)
EXTENDS Viability, TLAPS

-----------------------------------------------------------------------------
(* Signals.                                                                *)

LEMMA KeyTypes ==
    /\ MaxAttempts \in Nat /\ MaxAttempts > 0 /\ MaxFaults \in Nat
    /\ <<"retry", 1>> \in Keys
    /\ Quiet \in SignalState /\ Quiet.pc = "quiet"
<1>1. MaxAttempts \in Nat /\ MaxAttempts > 0 /\ MaxFaults \in Nat
  BY TelemetryAssumption DEF TelemetryAssumption
<1>2. <<"retry", 1>> \in Keys
  BY <1>1 DEF Keys, Attempts
<1>3. Quiet \in SignalState /\ Quiet.pc = "quiet"
  BY <1>2 DEF Quiet, SignalState
<1> QED BY <1>1, <1>2, <1>3

\* A step of the tick that sends k, or starts to: what it does to the row, to the count and
\* to what is in doubt, and what it knows then.
Signals(t, k) ==
    /\ sender' \in [Ticks -> SignalState] /\ \A u \in Ticks \ {t} : sender'[u] = sender[u]
    /\ sender[t].pc # "quiet" \/ sender'[t].pc # "quiet"
    /\ sender[t].pc # "quiet" => sender[t].key = k
    /\ sender'[t].pc # "quiet" =>
          /\ sender'[t].key = k
          /\ sender[t].pc # "quiet" \/ Sending(k) = {} \/ k \in unsure'
    /\ unsure \subseteq unsure' /\ unsure' \subseteq Keys
    /\ emission' \in [Keys -> EmissionRow] /\ counted' \in [Keys -> Nat]
    /\ \A l \in Keys \ {k} : emission'[l] = emission[l] /\ counted'[l] = counted[l]
    /\ counted'[k] >= counted[k]
    /\ emission'[k].emitted => emission'[k].state = "succeeded" /\ counted'[k] > 0
    /\ Unwritten(t)' => counted'[k] > 0
    /\ \/ k \in unsure'
       \/ /\ counted'[k] = 0 \/ emission'[k].emitted \/ Unwritten(t)'
          /\ Unsent(t)' => counted'[k] = 0
          /\ counted'[k] <= 1

SignalsInv == TelemetryTypeOK /\ SignalInv /\ SignalCountedOnce

LEMMA SignalsKeep ==
    ASSUME SignalsInv, NEW t \in Ticks, NEW k \in Keys, Signals(t, k)
    PROVE  SignalInv' /\ SignalCountedOnce'
<1> USE DEF SignalsInv
<1>1. /\ sender \in [Ticks -> SignalState] /\ counted \in [Keys -> Nat]
      /\ \A u \in Ticks : sender[u].key \in Keys /\ sender'[u].key \in Keys
  BY DEF TelemetryTypeOK, Signals, SignalState
<1>2. \A u \in Ticks \ {t} : /\ sender'[u] = sender[u]
                             /\ Unwritten(u)' = Unwritten(u) /\ Unsent(u)' = Unsent(u)
  BY DEF Signals, Unwritten, Unsent, At
<1>3. \A l \in Keys \ {k} : Sending(l)' = Sending(l)
  <2> SUFFICES ASSUME NEW l \in Keys \ {k}, NEW u \in Ticks
               PROVE  u \in Sending(l)' <=> u \in Sending(l)
    BY DEF Sending
  <2> QED BY <1>2 DEF Sending, Signals
<1>4. \A l \in Keys : emission'[l].emitted => emission'[l].state = "succeeded" /\ counted'[l] > 0
  BY DEF Signals, SignalInv
<1>5. \A l \in Keys : counted'[l] >= counted[l] /\ counted'[l] \in Nat /\ counted[l] \in Nat
  BY <1>1 DEF Signals
<1>6. \A u \in Ticks : Unwritten(u)' => counted'[sender'[u].key] > 0
  <2> SUFFICES ASSUME NEW u \in Ticks, Unwritten(u)'
               PROVE  counted'[sender'[u].key] > 0
    OBVIOUS
  <2>1. CASE u = t
    <3>1. sender'[t].pc # "quiet"
      BY <2>1 DEF Unwritten, At
    <3> QED BY <2>1, <3>1 DEF Signals
  <2>2. CASE u # t
    <3>1. counted[sender[u].key] > 0
      BY <1>2, <2>2 DEF SignalInv, Key
    <3> QED BY <3>1, <1>1, <1>2, <1>5, <2>2
  <2> QED BY <2>1, <2>2
<1>7. ASSUME NEW l \in Keys \ unsure' PROVE RowOK(l)' /\ counted'[l] <= 1
  <2>1. RowOK(l) /\ counted[l] <= 1
    BY DEF SignalInv, SignalCountedOnce, Signals
  <2>2. CASE l # k
    <3>1. Sending(l)' = Sending(l) /\ emission'[l] = emission[l] /\ counted'[l] = counted[l]
      BY <1>3, <2>2 DEF Signals
    <3>3. t \notin Sending(l)
      BY <2>2 DEF Sending, Signals
    <3>4. \A u \in Sending(l) : Unwritten(u)' = Unwritten(u) /\ Unsent(u)' = Unsent(u)
      BY <3>3, <1>2 DEF Sending
    <3> QED BY <2>1, <3>1, <3>4 DEF RowOK
  <2>3. CASE l = k
    <3>1. \A u \in Sending(k)' : u = t
      <4> SUFFICES ASSUME NEW u \in Sending(k)', u # t PROVE FALSE
        OBVIOUS
      <4>1. u \in Sending(k) /\ \A v \in Sending(k) : v = u
        BY <1>2, <2>1, <2>3 DEF Sending, RowOK
      <4>2. t \in Sending(k)
        BY <2>3, <4>1 DEF Sending, Signals
      <4> QED BY <4>1, <4>2
    <3>2. \A u \in Sending(k)' : Unsent(u)' => counted'[k] = 0
      BY <3>1, <2>3 DEF Signals
    <3>3. Unwritten(t)' => t \in Sending(k)'
      BY DEF Unwritten, At, Sending, Signals
    <3>4. counted'[k] = 0 \/ emission'[k].emitted \/ \E u \in Sending(k)' : Unwritten(u)'
      BY <3>3, <2>3 DEF Signals
    <3>5. counted'[k] <= 1
      BY <2>3 DEF Signals
    <3> HIDE DEF SignalsInv
    <3> QED BY <2>3, <3>1, <3>2, <3>4, <3>5 DEF RowOK
  <2> QED BY <2>2, <2>3
<1> QED BY <1>4, <1>6, <1>7 DEF SignalInv, SignalCountedOnce, Key

\* What is known of a row that is not in doubt.
LEMMA NoDoubt ==
    ASSUME SignalsInv, NEW t \in Ticks, sender[t].pc # "quiet", Key(t) \notin unsure
    PROVE  /\ counted[Key(t)] <= 1
           /\ Unsent(t) => counted[Key(t)] = 0
           /\ counted[Key(t)] = 0 \/ emission[Key(t)].emitted \/ Unwritten(t)
<1>1. Key(t) \in Keys /\ t \in Sending(Key(t))
  BY DEF SignalsInv, TelemetryTypeOK, SignalState, Key, Sending
<1>2. counted[Key(t)] <= 1 /\ RowOK(Key(t))
  BY <1>1 DEF SignalsInv, SignalInv, SignalCountedOnce
<1> QED BY <1>1, <1>2 DEF RowOK

LEMMA SignalTypes ==
    ASSUME SignalsInv, NEW t \in Ticks
    PROVE  /\ sender \in [Ticks -> SignalState] /\ sender[t] \in SignalState /\ Key(t) \in Keys
           /\ emission \in [Keys -> EmissionRow] /\ counted \in [Keys -> Nat]
           /\ counted[Key(t)] \in Nat /\ emission[Key(t)] \in EmissionRow
           /\ unsure \subseteq Keys /\ faults \in 0 .. MaxFaults
           /\ health \in [Providers -> {"connected", "degraded", "rate_limited"}]
           /\ emission[Key(t)].emitted =>
                 emission[Key(t)].state = "succeeded" /\ counted[Key(t)] > 0
           /\ Unwritten(t) => counted[Key(t)] > 0
<1>1. sender[t] \in SignalState /\ Key(t) \in Keys
  BY DEF SignalsInv, TelemetryTypeOK, SignalState, Key
<1> QED BY <1>1 DEF SignalsInv, TelemetryTypeOK, SignalInv

\* The signal goes on, or ends, and keeps its key.
Moved(t, new) ==
    /\ sender' = [sender EXCEPT ![t] = new] /\ new \in SignalState
    /\ new.pc # "quiet" => new.key = Key(t)

LEMMA MovedSender ==
    ASSUME SignalsInv, NEW t \in Ticks, NEW new, Moved(t, new), sender[t].pc # "quiet"
    PROVE  /\ sender' \in [Ticks -> SignalState] /\ sender'[t] = new
           /\ \A u \in Ticks \ {t} : sender'[u] = sender[u]
           /\ sender[t].pc # "quiet" /\ sender[t].key = Key(t)
           /\ sender'[t].pc # "quiet" => sender'[t].key = Key(t)
           /\ Unwritten(t)' <=> new.pc = "event" \/ (new.pc = "finish" /\ new.outcome = "emitted")
           /\ Unsent(t)' <=> new.pc = "submit" \/ (new.pc = "finish" /\ new.outcome # "emitted")
<1>1. sender \in [Ticks -> SignalState]
  BY SignalTypes
<1>2. sender'[t] = new /\ \A u \in Ticks \ {t} : sender'[u] = sender[u]
  BY <1>1 DEF Moved
<1>3. sender' \in [Ticks -> SignalState]
  BY <1>1 DEF Moved
<1> QED BY <1>2, <1>3 DEF Moved, Key, Unwritten, Unsent, At

\* A step of a signal that leaves the row, the count and the doubts alone.
LEMMA QuietMove ==
    ASSUME SignalsInv, NEW t \in Ticks, NEW new, Moved(t, new), sender[t].pc # "quiet",
           ~Unwritten(t), new.pc \notin {"event", "finish"},
           new.pc = "submit" => ~emission[Key(t)].emitted,
           UNCHANGED <<emission, counted, unsure>>
    PROVE  Signals(t, Key(t))
<1>1. ~Unwritten(t)' /\ (Unsent(t)' <=> new.pc = "submit")
  BY MovedSender
<1>2. Key(t) \notin unsure =>
         /\ counted[Key(t)] <= 1
         /\ counted[Key(t)] = 0 \/ emission[Key(t)].emitted
  BY NoDoubt
<1>3. \/ Key(t) \in unsure
      \/ /\ counted[Key(t)] = 0 \/ emission[Key(t)].emitted
         /\ Unsent(t)' => counted[Key(t)] = 0
         /\ counted[Key(t)] <= 1
  BY <1>1, <1>2
<1>4. /\ sender' \in [Ticks -> SignalState] /\ \A u \in Ticks \ {t} : sender'[u] = sender[u]
      /\ sender[t].pc # "quiet" /\ sender[t].key = Key(t)
      /\ sender'[t].pc # "quiet" => sender'[t].key = Key(t)
  BY MovedSender
<1>5. /\ unsure \subseteq Keys
      /\ emission \in [Keys -> EmissionRow] /\ counted \in [Keys -> Nat]
      /\ counted[Key(t)] >= counted[Key(t)]
      /\ emission[Key(t)].emitted => emission[Key(t)].state = "succeeded" /\ counted[Key(t)] > 0
  BY SignalTypes
<1> DEFINE k == Key(t)
<1>6. UNCHANGED <<emission, counted, unsure>>
  OBVIOUS
<1> QED BY <1>1, <1>3, <1>4, <1>5, <1>6 DEF Signals

LEMMA GoTypes ==
    ASSUME SignalsInv, NEW t \in Ticks,
           NEW pc \in {"submit", "refind", "reflect", "degrade", "event"}, Go(t, pc)
    PROVE  \E new : Moved(t, new) /\ new.pc = pc
<1> DEFINE new == [sender[t] EXCEPT !.pc = pc]
<1>1. sender[t] \in SignalState /\ sender \in [Ticks -> SignalState]
  BY SignalTypes
<1>2. new \in SignalState /\ new.pc = pc /\ new.key = Key(t)
  BY <1>1 DEF SignalState, Key
<1>3. sender' = [sender EXCEPT ![t] = new]
  BY <1>1 DEF Go
<1> HIDE DEF new
<1> QED BY <1>2, <1>3 DEF Moved

LEMMA DoneTypes ==
    ASSUME SignalsInv, NEW t \in Ticks, Done(t)
    PROVE  Moved(t, Quiet)
BY KeyTypes DEF Moved, Done

\* What a step of a signal keeps besides.
Sent(t) ==
    /\ Signals(t, Key(t))
    /\ health' \in [Providers -> {"connected", "degraded", "rate_limited"}]
    /\ faults' \in 0 .. MaxFaults /\ faults' >= faults
    /\ sender[t].pc # "quiet"

LEMMA FaultsGrow ==
    ASSUME SignalsInv, UNCHANGED faults \/ (faults < MaxFaults /\ faults' = faults + 1)
    PROVE  faults' \in 0 .. MaxFaults /\ faults' >= faults
BY KeyTypes DEF SignalsInv, TelemetryTypeOK

LEMMA ReserveSent ==
    ASSUME SignalsInv, NEW t \in Ticks, Reserve(t)
    PROVE  Sent(t)
<1>1. sender[t].pc # "quiet" /\ ~Unwritten(t)
  BY DEF Reserve, Unwritten, At
<1>2. UNCHANGED <<counted, unsure, health, faults>>
  BY DEF Reserve
<1>3. CASE emission[Key(t)].state = "absent"
  <2>1. emission' = [emission EXCEPT ![Key(t)].state = "running"] /\ Go(t, "submit")
    BY <1>3 DEF Reserve
  <2>2. PICK new : Moved(t, new) /\ new.pc = "submit"
    BY <2>1, GoTypes
  <2>3. /\ sender' \in [Ticks -> SignalState] /\ \A u \in Ticks \ {t} : sender'[u] = sender[u]
        /\ sender[t].key = Key(t) /\ (sender'[t].pc # "quiet" => sender'[t].key = Key(t))
        /\ ~Unwritten(t)' /\ Unsent(t)'
    BY <1>1, <2>2, MovedSender
  <2>4. /\ emission \in [Keys -> EmissionRow] /\ Key(t) \in Keys /\ counted \in [Keys -> Nat]
        /\ unsure \subseteq Keys /\ counted[Key(t)] \in Nat
        /\ emission[Key(t)].emitted => emission[Key(t)].state = "succeeded"
    BY SignalTypes
  <2>5. /\ emission' \in [Keys -> EmissionRow]
        /\ \A l \in Keys \ {Key(t)} : emission'[l] = emission[l]
        /\ ~emission'[Key(t)].emitted
    BY <1>3, <2>1, <2>4 DEF EmissionRow
  <2>6. Key(t) \notin unsure => counted[Key(t)] = 0
    BY <1>1, <1>3, <2>4, NoDoubt
  <2>7. Signals(t, Key(t))
    BY <1>1, <1>2, <2>3, <2>4, <2>5, <2>6 DEF Signals
  <2> QED BY <1>1, <1>2, <2>7, SignalTypes, FaultsGrow DEF Sent
<1>4. CASE emission[Key(t)].state # "absent"
  <2>1. Go(t, "refind") /\ UNCHANGED emission
    BY <1>4 DEF Reserve
  <2>2. PICK new : Moved(t, new) /\ new.pc = "refind"
    BY <2>1, GoTypes
  <2>3. Signals(t, Key(t))
    BY <1>1, <1>2, <2>1, <2>2, QuietMove
  <2> QED BY <1>1, <1>2, <2>3, SignalTypes, FaultsGrow DEF Sent
<1> QED BY <1>3, <1>4

LEMMA RefindSent ==
    ASSUME SignalsInv, NEW t \in Ticks, Refind(t)
    PROVE  Sent(t)
<1>1. sender[t].pc # "quiet" /\ ~Unwritten(t)
  BY DEF Refind, Unwritten, At
<1>2. UNCHANGED <<emission, counted, unsure, health, faults>>
  BY DEF Refind
<1>3. \E new : /\ Moved(t, new) /\ new.pc \in {"reflect", "submit"}
               /\ new.pc = "submit" => emission[Key(t)].state # "succeeded"
  <2>1. CASE AlreadySucceeded(Key(t))
    <3>1. Go(t, "reflect")
      BY <2>1 DEF Refind
    <3> QED BY <3>1, GoTypes
  <2>2. CASE ~AlreadySucceeded(Key(t))
    <3>1. Go(t, "submit") /\ emission[Key(t)].state # "succeeded"
      BY <2>2 DEF Refind, AlreadySucceeded
    <3> QED BY <3>1, GoTypes
  <2> QED BY <2>1, <2>2
<1>4. PICK new : /\ Moved(t, new) /\ new.pc \in {"reflect", "submit"}
                 /\ new.pc = "submit" => emission[Key(t)].state # "succeeded"
  BY <1>3
<1>5. new.pc = "submit" => ~emission[Key(t)].emitted
  BY <1>4, SignalTypes
<1>6. Signals(t, Key(t))
  BY <1>1, <1>2, <1>4, <1>5, QuietMove
<1> QED BY <1>1, <1>2, <1>6, SignalTypes, FaultsGrow DEF Sent

LEMMA ReserveFailsSent ==
    ASSUME SignalsInv, NEW t \in Ticks, ReserveFails(t)
    PROVE  Sent(t)
<1>1. sender[t].pc # "quiet" /\ ~Unwritten(t)
  BY DEF ReserveFails, Unwritten, At
<1>2. UNCHANGED <<emission, counted, unsure, health>> /\ faults < MaxFaults /\ faults' = faults + 1
  BY DEF ReserveFails
<1>3. Moved(t, Quiet)
  BY DoneTypes DEF ReserveFails
<1>4. Signals(t, Key(t))
  BY <1>1, <1>2, <1>3, KeyTypes, QuietMove
<1> QED BY <1>1, <1>2, <1>4, SignalTypes, FaultsGrow DEF Sent

LEMMA HealthWritten ==
    ASSUME SignalsInv, NEW provider \in Providers, NEW class, WriteHealth(provider, Assessed(class))
    PROVE  /\ health' \in [Providers -> {"connected", "degraded", "rate_limited"}]
           /\ faults' \in 0 .. MaxFaults /\ faults' >= faults
<1>1. Assessed(class) \in {"connected", "degraded", "rate_limited"}
  BY DEF Assessed
<1>2. health' \in [Providers -> {"connected", "degraded", "rate_limited"}]
  BY <1>1, SignalTypes DEF WriteHealth, SignalsInv, TelemetryTypeOK
<1>3. UNCHANGED faults \/ (faults < MaxFaults /\ faults' = faults + 1)
  BY DEF WriteHealth
<1> QED BY <1>2, <1>3, FaultsGrow

LEMMA ReflectTelemetrySent ==
    ASSUME SignalsInv, NEW t \in Ticks, ReflectTelemetryFailure(t)
    PROVE  Sent(t)
<1>1. sender[t].pc # "quiet" /\ ~Unwritten(t)
  BY DEF ReflectTelemetryFailure, Unwritten, At
<1>2. UNCHANGED <<emission, counted, unsure>> /\ Go(t, "reflect")
      /\ WriteHealth("datadog", Assessed("other"))
  BY DEF ReflectTelemetryFailure
<1>3. PICK new : Moved(t, new) /\ new.pc = "reflect"
  BY <1>2, GoTypes
<1>4. Signals(t, Key(t))
  BY <1>1, <1>2, <1>3, QuietMove
<1>5. "datadog" \in Providers
  BY DEF Providers
<1> QED BY <1>1, <1>2, <1>4, <1>5, HealthWritten DEF Sent

LEMMA ReflectProviderSent ==
    ASSUME SignalsInv, NEW t \in Ticks, ReflectProviderFailure(t)
    PROVE  Sent(t)
<1>1. sender[t].pc # "quiet" /\ ~Unwritten(t)
  BY DEF ReflectProviderFailure, Unwritten, At
<1>2. UNCHANGED <<emission, counted, unsure>> /\ Done(t)
  BY DEF ReflectProviderFailure
<1>3. Moved(t, Quiet)
  BY <1>2, DoneTypes
<1>4. Signals(t, Key(t))
  BY <1>1, <1>2, <1>3, KeyTypes, QuietMove
<1>5. CASE sender[t].source \in Providers
  <2>1. WriteHealth(sender[t].source, Assessed(sender[t].class))
    BY <1>5 DEF ReflectProviderFailure
  <2> QED BY <1>1, <1>4, <1>5, <2>1, HealthWritten DEF Sent
<1>6. CASE sender[t].source \notin Providers
  <2>1. UNCHANGED <<health, faults>>
    BY <1>6 DEF ReflectProviderFailure
  <2> QED BY <1>1, <1>4, <2>1, SignalTypes, FaultsGrow DEF Sent
<1> QED BY <1>5, <1>6

LEMMA FinishTypes ==
    ASSUME SignalsInv, NEW t \in Ticks, NEW outcome \in {"mocked", "emitted", "failed"},
           sender' = [sender EXCEPT ![t].pc = "finish", ![t].outcome = outcome]
    PROVE  \E new : Moved(t, new) /\ new.pc = "finish" /\ new.outcome = outcome
<1> DEFINE new == [sender[t] EXCEPT !.pc = "finish", !.outcome = outcome]
<1>1. sender[t] \in SignalState /\ sender \in [Ticks -> SignalState]
  BY SignalTypes
<1>2. new \in SignalState /\ new.pc = "finish" /\ new.outcome = outcome /\ new.key = Key(t)
  BY <1>1 DEF SignalState, Key
<1>3. sender' = [sender EXCEPT ![t] = new]
  BY <1>1
<1> HIDE DEF new
<1> QED BY <1>2, <1>3 DEF Moved

LEMMA SubmitMetricSent ==
    ASSUME SignalsInv, NEW t \in Ticks, SubmitMetric(t)
    PROVE  Sent(t)
<1>1. sender[t].pc # "quiet" /\ ~Unwritten(t) /\ Unsent(t)
  BY DEF SubmitMetric, Unwritten, Unsent, At
<1>2. UNCHANGED <<emission, health>>
  BY DEF SubmitMetric
<1>3. Key(t) \notin unsure => counted[Key(t)] = 0
  BY <1>1, NoDoubt
<1>4. /\ emission \in [Keys -> EmissionRow] /\ Key(t) \in Keys /\ counted \in [Keys -> Nat]
      /\ unsure \subseteq Keys /\ counted[Key(t)] \in Nat
      /\ emission[Key(t)].emitted => emission[Key(t)].state = "succeeded" /\ counted[Key(t)] > 0
  BY SignalTypes
\* Whatever was submitted, the signal goes on with what it knows.
<1>5. ASSUME NEW new, Moved(t, new),
             \/ UNCHANGED counted
             \/ counted' = [counted EXCEPT ![Key(t)] = @ + 1],
             unsure' = unsure \/ unsure' = unsure \cup {Key(t)},
             \/ new.pc = "finish" /\ new.outcome # "emitted" /\ UNCHANGED counted
             \/ new.pc = "finish" /\ new.outcome # "emitted" /\ Key(t) \in unsure'
             \/ new.pc = "event" /\ counted' = [counted EXCEPT ![Key(t)] = @ + 1]
      PROVE  Signals(t, Key(t))
  <2>1. /\ sender' \in [Ticks -> SignalState] /\ \A u \in Ticks \ {t} : sender'[u] = sender[u]
        /\ sender[t].key = Key(t) /\ (sender'[t].pc # "quiet" => sender'[t].key = Key(t))
        /\ Unwritten(t)' <=> new.pc = "event" \/ (new.pc = "finish" /\ new.outcome = "emitted")
        /\ Unsent(t)' <=> new.pc = "submit" \/ (new.pc = "finish" /\ new.outcome # "emitted")
    BY <1>1, <1>5, MovedSender
  <2>2. /\ counted' \in [Keys -> Nat] /\ \A l \in Keys \ {Key(t)} : counted'[l] = counted[l]
        /\ counted'[Key(t)] \in {counted[Key(t)], counted[Key(t)] + 1}
    BY <1>4, <1>5
  <2>3. new.pc = "event" => counted'[Key(t)] = counted[Key(t)] + 1
    BY <1>4, <1>5
  <2>4. Unwritten(t)' => counted'[Key(t)] > 0
    BY <1>4, <1>5, <2>1, <2>3
  <2>5. \/ Key(t) \in unsure'
        \/ /\ counted'[Key(t)] = 0 \/ Unwritten(t)'
           /\ Unsent(t)' => counted'[Key(t)] = 0
           /\ counted'[Key(t)] <= 1
    BY <1>3, <1>4, <1>5, <2>1, <2>2, <2>3
  <2>6. unsure \subseteq unsure' /\ unsure' \subseteq Keys
    BY <1>4, <1>5
  <2>7. emission'[Key(t)].emitted => emission'[Key(t)].state = "succeeded" /\ counted'[Key(t)] > 0
    BY <1>2, <1>4, <2>2
  <2> QED BY <1>1, <1>2, <1>4, <2>1, <2>2, <2>4, <2>5, <2>6, <2>7 DEF Signals
<1>6. CASE ~sender[t].enabled
  <2>1. /\ sender' = [sender EXCEPT ![t].pc = "finish", ![t].outcome = "mocked"]
        /\ UNCHANGED <<counted, unsure, faults>>
    BY <1>6 DEF SubmitMetric
  <2>2. PICK new : Moved(t, new) /\ new.pc = "finish" /\ new.outcome = "mocked"
    BY <2>1, FinishTypes
  <2>3. Signals(t, Key(t))
    BY <1>5, <2>1, <2>2
  <2> QED BY <1>1, <1>2, <2>1, <2>3, SignalTypes, FaultsGrow DEF Sent
<1>7. CASE /\ counted' = [counted EXCEPT ![Key(t)] = @ + 1] /\ Go(t, "event")
           /\ UNCHANGED <<unsure, faults>>
  <2>1. PICK new : Moved(t, new) /\ new.pc = "event"
    BY <1>7, GoTypes
  <2>2. Signals(t, Key(t))
    BY <1>5, <1>7, <2>1
  <2> QED BY <1>1, <1>2, <1>7, <2>2, SignalTypes, FaultsGrow DEF Sent
<1>8. CASE /\ faults < MaxFaults /\ faults' = faults + 1
           /\ \/ counted' = [counted EXCEPT ![Key(t)] = @ + 1] /\ unsure' = unsure \cup {Key(t)}
              \/ UNCHANGED <<counted, unsure>>
           /\ sender' = [sender EXCEPT ![t].pc = "finish", ![t].outcome = "failed"]
  <2>1. PICK new : Moved(t, new) /\ new.pc = "finish" /\ new.outcome = "failed"
    BY <1>8, FinishTypes
  <2>2. Signals(t, Key(t))
    BY <1>5, <1>8, <2>1
  <2> QED BY <1>1, <1>2, <1>8, <2>2, SignalTypes, FaultsGrow DEF Sent
<1> QED BY <1>6, <1>7, <1>8 DEF SubmitMetric

LEMMA SubmitEventSent ==
    ASSUME SignalsInv, NEW t \in Ticks, SubmitEvent(t)
    PROVE  Sent(t)
<1>1. sender[t].pc # "quiet" /\ Unwritten(t)
  BY DEF SubmitEvent, Unwritten, At
<1>2. /\ UNCHANGED <<emission, counted, unsure, health>>
      /\ UNCHANGED faults \/ (faults < MaxFaults /\ faults' = faults + 1)
      /\ sender' = [sender EXCEPT ![t].pc = "finish", ![t].outcome = "emitted"]
  BY DEF SubmitEvent, EventOutcome
<1>3. PICK new : Moved(t, new) /\ new.pc = "finish" /\ new.outcome = "emitted"
  BY <1>2, FinishTypes
<1>4. /\ sender' \in [Ticks -> SignalState] /\ \A u \in Ticks \ {t} : sender'[u] = sender[u]
      /\ sender[t].key = Key(t) /\ (sender'[t].pc # "quiet" => sender'[t].key = Key(t))
      /\ Unwritten(t)' /\ ~Unsent(t)'
  BY <1>1, <1>3, MovedSender
<1>5. Key(t) \notin unsure => counted[Key(t)] <= 1
  BY <1>1, NoDoubt
<1>6. Signals(t, Key(t))
  BY <1>1, <1>2, <1>4, <1>5, SignalTypes DEF Signals
<1> QED BY <1>1, <1>2, <1>6, SignalTypes, FaultsGrow DEF Sent

LEMMA FinishSent ==
    ASSUME SignalsInv, NEW t \in Ticks, Finish(t)
    PROVE  Sent(t)
<1> DEFINE outcome == sender[t].outcome
<1>1. sender[t].pc # "quiet" /\ At(t, "finish")
  BY DEF Finish, At
<1>2. UNCHANGED <<counted, health>>
  BY DEF Finish
<1>3. PICK new : Moved(t, new) /\ new.pc \in {"degrade", "reflect"}
  <2>1. Go(t, "degrade") \/ Go(t, "reflect")
    BY DEF Finish
  <2> QED BY <2>1, GoTypes
<1>4. /\ sender' \in [Ticks -> SignalState] /\ \A u \in Ticks \ {t} : sender'[u] = sender[u]
      /\ sender[t].key = Key(t) /\ (sender'[t].pc # "quiet" => sender'[t].key = Key(t))
      /\ ~Unwritten(t)' /\ ~Unsent(t)'
  BY <1>1, <1>3, MovedSender
<1>5. /\ emission \in [Keys -> EmissionRow] /\ Key(t) \in Keys /\ counted \in [Keys -> Nat]
      /\ unsure \subseteq Keys /\ counted[Key(t)] \in Nat
      /\ emission[Key(t)].emitted => emission[Key(t)].state = "succeeded" /\ counted[Key(t)] > 0
  BY SignalTypes
<1>6. CASE emission' = [emission EXCEPT ![Key(t)] = Finished(outcome)] /\ UNCHANGED <<unsure, faults>>
  <2>1. /\ Finished(outcome) \in EmissionRow
        /\ Finished(outcome).emitted <=> outcome = "emitted"
        /\ outcome = "emitted" => Finished(outcome).state = "succeeded"
    BY DEF Finished, EmissionRow
  <2>2. /\ emission' \in [Keys -> EmissionRow] /\ emission'[Key(t)] = Finished(outcome)
        /\ \A l \in Keys \ {Key(t)} : emission'[l] = emission[l]
    BY <1>5, <1>6, <2>1
  <2>3. outcome = "emitted" <=> Unwritten(t)
    BY <1>1 DEF Unwritten, At
  <2>4. outcome # "emitted" <=> Unsent(t)
    BY <1>1 DEF Unsent, At
  <2>5. emission'[Key(t)].emitted => emission'[Key(t)].state = "succeeded" /\ counted'[Key(t)] > 0
    BY <1>2, <2>1, <2>2, <2>3, SignalTypes
  <2>6. \/ Key(t) \in unsure'
        \/ counted'[Key(t)] <= 1 /\ (counted'[Key(t)] = 0 \/ emission'[Key(t)].emitted)
    BY <1>1, <1>2, <1>6, <2>1, <2>2, <2>4, NoDoubt
  <2>7. Signals(t, Key(t))
    BY <1>1, <1>2, <1>4, <1>5, <1>6, <2>2, <2>5, <2>6 DEF Signals
  <2> QED BY <1>1, <1>2, <1>6, <2>7, SignalTypes, FaultsGrow DEF Sent
<1>7. CASE /\ faults < MaxFaults /\ faults' = faults + 1
           /\ unsure' = unsure \cup {Key(t)} /\ UNCHANGED emission
  <2>1. Signals(t, Key(t))
    BY <1>1, <1>2, <1>4, <1>5, <1>7 DEF Signals
  <2> QED BY <1>1, <1>2, <1>7, <2>1, SignalTypes, FaultsGrow DEF Sent
<1> QED BY <1>6, <1>7 DEF Finish

LEMMA SendSent ==
    ASSUME SignalsInv, NEW t \in Ticks, Send(t)
    PROVE  Sent(t)
BY ReserveSent, RefindSent, SubmitMetricSent, SubmitEventSent, FinishSent, ReserveFailsSent,
   ReflectTelemetrySent, ReflectProviderSent DEF Send

\* What a step of a job keeps of the signals.
SignalsGoOn ==
    /\ SignalInv' /\ SignalCountedOnce'
    /\ emission' \in [Keys -> EmissionRow] /\ counted' \in [Keys -> Nat] /\ unsure' \subseteq Keys
    /\ sender' \in [Ticks -> SignalState]

LEMMA SignalsSend ==
    ASSUME SignalsInv, NEW t \in Ticks, Sent(t)
    PROVE  SignalsGoOn
<1>1. Key(t) \in Keys
  BY SignalTypes
<1> QED BY <1>1, SignalsKeep DEF Sent, Signals, SignalsGoOn

LEMMA SignalsEmit ==
    ASSUME SignalsInv, NEW t \in Ticks, sender[t].pc = "quiet",
           NEW kind, NEW attempt, <<kind, attempt>> \in Keys,
           NEW error, error.source \in {"worker"} \cup Providers,
           error.class \in {"rate_limit", "auth", "other"},
           Emit(t, kind, attempt, error), UNCHANGED <<emission, counted>>
    PROVE  SignalsGoOn /\ \A u \in Ticks \ {t} : sender'[u] = sender[u]
<1> DEFINE k == <<kind, attempt>>
<1>1. PICK enabled \in BOOLEAN :
         sender' = [sender EXCEPT ![t] =
              [pc |-> "reserve", key |-> k, source |-> error.source,
               class |-> error.class, enabled |-> enabled, outcome |-> "none"]]
  BY DEF Emit
<1>2. unsure' = IF Sending(k) = {} THEN unsure ELSE unsure \cup {k}
  BY DEF Emit
<1>3. k \in Keys
  OBVIOUS
<1> DEFINE new == [pc |-> "reserve", key |-> k, source |-> error.source,
                   class |-> error.class, enabled |-> enabled, outcome |-> "none"]
<1>4. new \in SignalState /\ new.pc = "reserve" /\ new.key = k
  BY <1>3 DEF SignalState
<1>5. sender' = [sender EXCEPT ![t] = new]
  BY <1>1
<1> HIDE DEF new, k
<1>6. /\ sender \in [Ticks -> SignalState] /\ unsure \subseteq Keys
      /\ emission \in [Keys -> EmissionRow] /\ counted \in [Keys -> Nat]
  BY SignalTypes
<1>7. /\ sender' \in [Ticks -> SignalState] /\ sender'[t] = new
      /\ \A u \in Ticks \ {t} : sender'[u] = sender[u]
  BY <1>4, <1>5, <1>6
<1>8. ~Unwritten(t)' /\ ~Unsent(t)'
  BY <1>4, <1>7 DEF Unwritten, Unsent, At
<1>9. k \in unsure' \/ (Sending(k) = {} /\ k \notin unsure)
  BY <1>2
<1>10. k \in unsure' \/ (counted[k] <= 1 /\ (counted[k] = 0 \/ emission[k].emitted))
  BY <1>3, <1>9 DEF SignalsInv, SignalInv, SignalCountedOnce, RowOK
<1>11. emission[k].emitted => emission[k].state = "succeeded" /\ counted[k] > 0
  BY <1>3 DEF SignalsInv, SignalInv
<1>12. counted[k] \in Nat /\ unsure \subseteq unsure' /\ unsure' \subseteq Keys
  BY <1>2, <1>3, <1>6
<1>13. Signals(t, k)
  BY <1>4, <1>6, <1>7, <1>8, <1>9, <1>10, <1>11, <1>12 DEF Signals
<1>14. SignalInv' /\ SignalCountedOnce'
  BY <1>3, <1>13, SignalsKeep
<1> QED BY <1>6, <1>7, <1>12, <1>14 DEF SignalsGoOn

LEMMA SignalsInterrupted ==
    ASSUME SignalsInv, NEW t \in Ticks, Interrupted(t)
    PROVE  SignalsGoOn /\ sender'[t].pc = "quiet" /\ \A u \in Ticks \ {t} : sender'[u] = sender[u]
<1>1. UNCHANGED <<emission, counted>> /\ sender' = [sender EXCEPT ![t] = Quiet]
  BY DEF Interrupted, Done
<1>2. /\ sender \in [Ticks -> SignalState] /\ unsure \subseteq Keys /\ Key(t) \in Keys
      /\ emission \in [Keys -> EmissionRow] /\ counted \in [Keys -> Nat]
      /\ counted[Key(t)] \in Nat
      /\ emission[Key(t)].emitted => emission[Key(t)].state = "succeeded" /\ counted[Key(t)] > 0
  BY SignalTypes
<1>3. /\ sender' \in [Ticks -> SignalState] /\ sender'[t] = Quiet
      /\ \A u \in Ticks \ {t} : sender'[u] = sender[u]
  BY <1>1, <1>2, KeyTypes
<1>4. CASE sender[t].pc = "quiet"
  <2>1. UNCHANGED unsure
    BY <1>4 DEF Interrupted
  <2>2. \A u \in Ticks : /\ Unwritten(u)' = Unwritten(u) /\ Unsent(u)' = Unsent(u)
                         /\ Unwritten(u) => sender'[u] = sender[u]
    BY <1>3, <1>4, KeyTypes DEF Unwritten, Unsent, At
  <2>3. \A k \in Keys : Sending(k)' = Sending(k)
    <3> SUFFICES ASSUME NEW k \in Keys, NEW u \in Ticks
                 PROVE  u \in Sending(k)' <=> u \in Sending(k)
      BY DEF Sending
    <3> QED BY <1>3, <1>4, KeyTypes DEF Sending
  <2>4. \A k \in Keys : RowOK(k) => RowOK(k)'
    <3> SUFFICES ASSUME NEW k \in Keys, RowOK(k) PROVE RowOK(k)'
      OBVIOUS
    <3>1. \A u \in Sending(k) : u \in Ticks
      BY DEF Sending
    <3> QED BY <1>1, <2>2, <2>3, <3>1 DEF RowOK
  <2>5. SignalCountedOnce'
    BY <1>1, <2>1 DEF SignalsInv, SignalCountedOnce
  <2>6. SignalInv'
    <3>1. \A u \in Ticks : Unwritten(u)' => (counted[Key(u)] > 0)'
      BY <1>1, <2>2 DEF SignalsInv, SignalInv, Key
    <3> QED BY <1>1, <2>1, <2>4, <3>1 DEF SignalsInv, SignalInv
  <2> QED BY <1>1, <1>2, <1>3, <2>1, <2>5, <2>6, KeyTypes DEF SignalsGoOn
<1>5. CASE sender[t].pc # "quiet"
  <2>1. unsure' = IF sender[t].pc \in {"event", "finish"} THEN unsure \cup {Key(t)} ELSE unsure
    BY DEF Interrupted
  <2>2. ~Unwritten(t)' /\ ~Unsent(t)' /\ sender[t].key = Key(t) /\ sender'[t].pc = "quiet"
    BY <1>3, KeyTypes DEF Unwritten, Unsent, At, Key
  <2>3. sender[t].pc \in {"event", "finish"} \/ ~Unwritten(t)
    BY DEF Unwritten, At
  <2>4. \/ Key(t) \in unsure'
        \/ counted[Key(t)] <= 1 /\ (counted[Key(t)] = 0 \/ emission[Key(t)].emitted)
    BY <1>5, <2>1, <2>3, NoDoubt
  <2>5. Signals(t, Key(t))
    BY <1>1, <1>2, <1>3, <1>5, <2>1, <2>2, <2>4 DEF Signals
  <2>6. SignalInv' /\ SignalCountedOnce'
    BY <1>2, <2>5, SignalsKeep
  <2> QED BY <1>1, <1>2, <1>3, <2>1, <2>2, <2>6 DEF SignalsGoOn
<1> QED BY <1>4, <1>5

LEMMA SignalsStill ==
    ASSUME SignalsInv, UNCHANGED <<emission, counted, unsure, sender>>
    PROVE  SignalsGoOn
<1>1. \A u \in Ticks : Unwritten(u)' = Unwritten(u) /\ Unsent(u)' = Unsent(u) /\ Key(u)' = Key(u)
  BY DEF Unwritten, Unsent, At, Key
<1>2. \A k \in Keys : Sending(k)' = Sending(k) /\ \A u \in Sending(k) : u \in Ticks
  BY DEF Sending
<1>3. \A k \in Keys : RowOK(k) => RowOK(k)'
  BY <1>1, <1>2 DEF RowOK
<1>4. SignalInv' /\ SignalCountedOnce'
  BY <1>1, <1>3 DEF SignalsInv, SignalInv, SignalCountedOnce
<1> QED BY <1>4 DEF SignalsGoOn, SignalsInv, TelemetryTypeOK

-----------------------------------------------------------------------------
(* The job.                                                                *)

JobState == [state : {"queued", "running", "retrying", "failed", "succeeded"},
             attempt : Nat, done : 0 .. Len(Plan)]

LEMMA PlanShape ==
    /\ Len(Plan) = 5 /\ DOMAIN Plan = 1 .. 5
    /\ \A p \in 1 .. 5 : /\ Len(Plan[p]) \in {1, 2} /\ DOMAIN Plan[p] = 1 .. Len(Plan[p])
                         /\ \A i \in DOMAIN Plan[p] : Plan[p][i] \in Artifacts
<1>1. Len(Plan) = 5 /\ DOMAIN Plan = 1 .. 5
  BY DEF Plan
<1>2. \A p \in 1 .. 5 : Len(Plan[p]) \in {1, 2} /\ DOMAIN Plan[p] = 1 .. Len(Plan[p])
  <2>1. /\ Plan[1] = <<"triage">> /\ Plan[2] = <<"github", "datadog">>
        /\ Plan[3] = <<"correlate">> /\ Plan[4] = <<"hypotheses">> /\ Plan[5] = <<"summarize">>
    BY DEF Plan
  <2>2. Len(Plan[1]) = 1 /\ DOMAIN Plan[1] = 1 .. 1
    BY <2>1
  <2>3. Len(Plan[2]) = 2 /\ DOMAIN Plan[2] = 1 .. 2
    BY <2>1
  <2>4. Len(Plan[3]) = 1 /\ DOMAIN Plan[3] = 1 .. 1
    BY <2>1
  <2>5. Len(Plan[4]) = 1 /\ DOMAIN Plan[4] = 1 .. 1
    BY <2>1
  <2>6. Len(Plan[5]) = 1 /\ DOMAIN Plan[5] = 1 .. 1
    BY <2>1
  <2> SUFFICES ASSUME NEW p \in 1 .. 5
               PROVE  Len(Plan[p]) \in {1, 2} /\ DOMAIN Plan[p] = 1 .. Len(Plan[p])
    OBVIOUS
  <2>7. p = 1 \/ p = 2 \/ p = 3 \/ p = 4 \/ p = 5
    OBVIOUS
  <2> QED BY <2>2, <2>3, <2>4, <2>5, <2>6, <2>7
<1>3. \A p \in 1 .. 5 : \A i \in DOMAIN Plan[p] : Plan[p][i] \in Artifacts
  BY <1>1 DEF Artifacts
<1> QED BY <1>1, <1>2, <1>3

JobTypeOK ==
    /\ job \in JobState
    /\ tick \in [Ticks -> TickState]
    /\ records \subseteq Artifacts
    /\ worked \in [Artifacts -> Nat] /\ unrecorded \in [Artifacts -> Nat]

JobInv ==
    /\ JobTypeOK
    /\ AloneAtWork /\ AttemptsOK
    /\ (\A t \in Executing : PlaceOK(t)) /\ NothingForgotten /\ WorkDoneOnce

LEMMA ViabilityParts == ViabilityInv <=> SignalsInv /\ JobInv /\ finalized \in BOOLEAN
BY DEF ViabilityInv, TypeOK, SignalsInv, JobInv, JobTypeOK, JobState

LEMMA ExecutingTypes ==
    \A t : t \in Executing <=> t \in Ticks /\ tick[t].pc \notin {"idle", "claim", "finalize"}
BY DEF Executing

LEMMA JobTypes ==
    ASSUME JobInv
    PROVE  /\ job \in JobState /\ job.attempt \in Nat /\ job.done \in 0 .. 5
           /\ tick \in [Ticks -> TickState] /\ \A t \in Ticks : tick[t] \in TickState
           /\ records \subseteq Artifacts
           /\ worked \in [Artifacts -> Nat] /\ unrecorded \in [Artifacts -> Nat]
           /\ \A t \in Executing : Executing = {t} /\ job.state = "running" /\ job.done + 1 \in 1 .. 6
           /\ \A t \in Executing : sender[t].pc = "quiet"
BY PlanShape DEF JobInv, JobTypeOK, JobState, AloneAtWork, Executing

\* The artifact that a tick works on.
LEMMA StepTypes ==
    ASSUME JobInv, NEW t \in Executing, tick[t].pc \in {"has", "work", "record", "checkpoint"}
    PROVE  /\ job.done \in 0 .. 4 /\ job.done + 1 \in 1 .. 5
           /\ tick[t].pc # "checkpoint" =>
                 /\ Step(t) \in Artifacts /\ tick[t].at \in 1 .. Len(Plan[job.done + 1])
                 /\ Step(t) = Plan[job.done + 1][tick[t].at]
<1>1. PlaceOK(t)
  BY DEF JobInv
<1>2. job.done # 5
  BY <1>1, PlanShape DEF PlaceOK, AtStep
<1>3. job.done \in 0 .. 4 /\ job.done + 1 \in 1 .. 5
  BY <1>2, JobTypes
<1>4. tick[t].pc # "checkpoint" => tick[t].at \in DOMAIN Plan[job.done + 1]
  BY <1>1 DEF PlaceOK
<1> QED BY <1>3, <1>4, PlanShape DEF Step

LEMMA BudgetGrows ==
    ASSUME faults \in Nat, faults' \in Nat, faults' >= faults
    PROVE  Budget \in Nat /\ Budget' \in Nat /\ Budget <= Budget'
<1>1. \A n, f, g \in Nat : g >= f => n + f \in Nat /\ n + g \in Nat /\ n + f <= n + g
  OBVIOUS
<1>2. Budget = MaxAttempts + faults /\ Budget' = MaxAttempts + faults'
  BY DEF Budget
<1>3. MaxAttempts \in Nat
  BY KeyTypes
<1> QED BY <1>1, <1>2, <1>3, Zenon

\* A tick that does not have the job, before and after.
Bystands(t) ==
    /\ t \notin Executing
    /\ UNCHANGED <<job, records, worked, unrecorded>>
    /\ tick' \in [Ticks -> TickState] /\ \A u \in Ticks \ {t} : tick'[u] = tick[u]
    /\ tick'[t].pc \in {"idle", "claim"}
    /\ tick'[t].pc # "idle" => sender'[t].pc = "quiet"
    /\ tick'[t].pc = "claim" => tick'[t].attempt \in 1 .. Budget /\ tick'[t].at = 1
    /\ \A u \in Ticks \ {t} : sender'[u] = sender[u]
    /\ faults \in Nat /\ faults' \in Nat /\ faults' >= faults

LEMMA BystandsKeep ==
    ASSUME JobInv, NEW t \in Ticks, Bystands(t)
    PROVE  JobInv'
<1>1. JobTypeOK'
  BY DEF JobInv, JobTypeOK, Bystands
<1>2. Executing' = Executing
  BY DEF Executing, Bystands
<1>3. \A u \in Executing : tick'[u] = tick[u] /\ u \in Ticks
  BY DEF Executing, Bystands
<1>4. AloneAtWork'
  <2>1. \A u \in Ticks : tick'[u].pc # "idle" => sender'[u].pc = "quiet"
    BY DEF JobInv, AloneAtWork, Bystands
  <2> QED BY <1>2, <2>1 DEF JobInv, AloneAtWork, Bystands
<1>5. AttemptsOK'
  <2>1. MaxAttempts \in Nat /\ faults \in Nat /\ faults' \in Nat /\ faults' >= faults
    BY KeyTypes DEF Bystands
  <2>2. Budget \in Nat /\ Budget' \in Nat /\ Budget <= Budget'
    BY <2>1, BudgetGrows
  <2>3. job.attempt \in Nat /\ UNCHANGED job /\ (Takeable' <=> Takeable)
    BY <1>2, JobTypes DEF Bystands, Takeable
  <2>4. job'.attempt <= Budget' /\ (Takeable' => job'.attempt < Budget')
    BY <2>2, <2>3 DEF JobInv, AttemptsOK
  <2>5. \A u \in Ticks : AtStep(u, "claim")' => tick'[u].attempt \in 1 .. Budget /\ tick'[u].at = 1
    BY DEF Bystands, AtStep, JobInv, AttemptsOK
  <2>6. \A u \in Ticks : tick'[u].attempt \in 1 .. Budget => tick'[u].attempt \in 1 .. Budget'
    BY <2>2
  <2>7. \A u \in Executing' : tick'[u].attempt = job'.attempt /\ job'.attempt > 0
    BY <1>2, <1>3, <2>3 DEF JobInv, AttemptsOK
  <2> QED BY <2>4, <2>5, <2>6, <2>7 DEF AttemptsOK
<1>6. \A u \in Executing' : PlaceOK(u)'
  BY <1>2, <1>3 DEF JobInv, PlaceOK, AtStep, Step, Bystands
<1>7. NothingForgotten'
  BY <1>2, <1>3 DEF JobInv, NothingForgotten, AtStep, Step, Bystands
<1>8. WorkDoneOnce'
  BY DEF JobInv, WorkDoneOnce, Bystands
<1> QED BY <1>1, <1>4, <1>5, <1>6, <1>7, <1>8 DEF JobInv

\* A tick that has the job lets it go.
Leaves(t) ==
    /\ t \in Executing
    /\ tick' \in [Ticks -> TickState] /\ \A u \in Ticks \ {t} : tick'[u] = tick[u]
    /\ tick'[t].pc \in {"idle", "finalize"}
    /\ tick'[t].pc # "idle" => sender'[t].pc = "quiet"
    /\ \A u \in Ticks \ {t} : sender'[u] = sender[u]
    /\ faults \in Nat /\ faults' \in Nat /\ faults' >= faults
    /\ job' \in JobState /\ job'.attempt <= MaxAttempts + faults'
    /\ job'.state \in {"queued", "retrying", "running"} => job'.attempt < MaxAttempts + faults'
    /\ job'.done = job.done \/ (AtStep(t, "checkpoint") /\ job'.done = job.done + 1)
    /\ records \subseteq records' /\ records' \subseteq Artifacts
    /\ UNCHANGED worked /\ unrecorded' \in [Artifacts -> Nat]
    /\ \A a \in Artifacts : unrecorded'[a] >= unrecorded[a]
    /\ AtStep(t, "record") => \/ Step(t) \in records'
                              \/ unrecorded'[Step(t)] >= unrecorded[Step(t)] + 1

LEMMA LeavesKeep ==
    ASSUME JobInv, NEW t \in Ticks, Leaves(t)
    PROVE  JobInv'
<1>1. JobTypeOK'
  BY DEF JobInv, JobTypeOK, Leaves
<1>2. Executing = {t} /\ Executing' = {}
  <2>1. Executing = {t}
    BY JobTypes DEF Leaves
  <2>2. \A u \in Ticks : tick'[u].pc \in {"idle", "claim", "finalize"}
    BY <2>1, ExecutingTypes DEF Leaves
  <2> QED BY <2>1, <2>2 DEF Executing
<1>3. AloneAtWork'
  <2>1. \A u \in Ticks : tick'[u].pc # "idle" => sender'[u].pc = "quiet"
    BY DEF JobInv, AloneAtWork, Leaves
  <2> QED BY <1>2, <2>1 DEF AloneAtWork
<1>4. AttemptsOK'
  <2>1. MaxAttempts \in Nat /\ faults \in Nat /\ faults' \in Nat /\ faults' >= faults
    BY KeyTypes DEF Leaves
  <2>2. Budget \in Nat /\ Budget' \in Nat /\ Budget <= Budget'
    BY <2>1, BudgetGrows
  <2>3. job'.attempt <= Budget' /\ (Takeable' => job'.attempt < Budget')
    BY <1>2 DEF Leaves, Budget, Takeable
  <2>4. \A u \in Ticks : AtStep(u, "claim")' => tick'[u].attempt \in 1 .. Budget /\ tick'[u].at = 1
    BY DEF Leaves, AtStep, JobInv, AttemptsOK
  <2>5. \A u \in Ticks : tick'[u].attempt \in 1 .. Budget => tick'[u].attempt \in 1 .. Budget'
    BY <2>2
  <2> QED BY <1>2, <2>3, <2>4, <2>5 DEF AttemptsOK
<1>5. NothingForgotten'
  <2> SUFFICES ASSUME NEW a \in Artifacts, a \notin records'
               PROVE  worked'[a] <= unrecorded'[a]
    BY DEF NothingForgotten
  <2>1. worked[a] \in Nat /\ unrecorded[a] \in Nat /\ unrecorded'[a] \in Nat /\ worked' = worked
    BY JobTypes DEF Leaves
  <2>2. CASE AtStep(t, "record") /\ Step(t) = a
    <3>1. unrecorded'[a] >= unrecorded[a] + 1
      BY <2>2 DEF Leaves
    <3>2. worked[a] <= 1 + unrecorded[a]
      BY DEF JobInv, WorkDoneOnce
    <3> QED BY <2>1, <3>1, <3>2
  <2>3. CASE ~(AtStep(t, "record") /\ Step(t) = a)
    <3>1. worked[a] <= unrecorded[a]
      BY <1>2, <2>3 DEF JobInv, NothingForgotten, Leaves
    <3>2. unrecorded'[a] >= unrecorded[a]
      BY DEF Leaves
    <3> QED BY <2>1, <3>1, <3>2
  <2> QED BY <2>2, <2>3
<1>6. WorkDoneOnce'
  <2>1. \A a \in Artifacts : worked'[a] <= 1 + unrecorded'[a]
    <3> SUFFICES ASSUME NEW a \in Artifacts PROVE worked'[a] <= 1 + unrecorded'[a]
      OBVIOUS
    <3>1. worked[a] \in Nat /\ unrecorded[a] \in Nat /\ unrecorded'[a] \in Nat /\ worked' = worked
      BY JobTypes DEF Leaves
    <3>2. worked[a] <= 1 + unrecorded[a] /\ unrecorded'[a] >= unrecorded[a]
      BY DEF JobInv, WorkDoneOnce, Leaves
    <3> QED BY <3>1, <3>2
  <2>2. \A p \in 1 .. job.done : \A i \in DOMAIN Plan[p] : Plan[p][i] \in records'
    BY DEF JobInv, WorkDoneOnce, Leaves
  <2>3. AtStep(t, "checkpoint") =>
           \A i \in DOMAIN Plan[job.done + 1] : Plan[job.done + 1][i] \in records'
    BY DEF JobInv, PlaceOK, Leaves
  <2>4. \A p \in 1 .. job'.done : p \in 1 .. job.done \/ (p = job.done + 1 /\ AtStep(t, "checkpoint"))
    BY JobTypes DEF Leaves
  <2>5. \A p \in 1 .. job'.done : \A i \in DOMAIN Plan[p] : Plan[p][i] \in records'
    BY <2>2, <2>3, <2>4
  <2> QED BY <2>1, <2>5 DEF WorkDoneOnce
<1> QED BY <1>1, <1>2, <1>3, <1>4, <1>5, <1>6 DEF JobInv

\* A step that changes neither the signals nor the count of failures.
LEMMA Composed ==
    ASSUME SignalsGoOn, JobInv', finalized' \in BOOLEAN, faults' \in 0 .. MaxFaults,
           health' \in [Providers -> {"connected", "degraded", "rate_limited"}]
    PROVE  ViabilityInv'
<1>1. TelemetryTypeOK' /\ SignalInv' /\ SignalCountedOnce'
  BY DEF SignalsGoOn, TelemetryTypeOK
<1>2. /\ JobTypeOK' /\ AloneAtWork' /\ AttemptsOK' /\ NothingForgotten' /\ WorkDoneOnce'
      /\ (\A t \in Executing : PlaceOK(t))'
  BY DEF JobInv
<1>3. TypeOK'
  BY <1>1, <1>2 DEF TypeOK, JobTypeOK, JobState
<1> QED BY <1>1, <1>2, <1>3 DEF ViabilityInv

LEMMA Inherited ==
    ASSUME ViabilityInv
    PROVE  /\ SignalsInv /\ JobInv /\ finalized \in BOOLEAN
           /\ faults \in 0 .. MaxFaults /\ faults \in Nat /\ MaxFaults \in Nat
           /\ health \in [Providers -> {"connected", "degraded", "rate_limited"}]
<1>1. SignalsInv /\ JobInv /\ finalized \in BOOLEAN
  BY ViabilityParts
<1> QED BY <1>1, KeyTypes DEF SignalsInv, TelemetryTypeOK

LEMMA JobOnly ==
    ASSUME ViabilityInv, JobInv', UNCHANGED <<telemetryVars, faults>>, finalized' \in BOOLEAN
    PROVE  ViabilityInv'
<1>1. SignalsGoOn
  BY Inherited, SignalsStill DEF telemetryVars
<1> QED BY <1>1, Inherited, Composed DEF telemetryVars

LEMMA IdleTypes == Idle \in TickState /\ Idle.pc = "idle" /\ Idle.at = 1
BY DEF Idle, TickState

LEMMA SelectKeeps ==
    ASSUME ViabilityInv, NEW t \in Ticks, Select(t)
    PROVE  ViabilityInv'
<1>1. JobInv /\ faults \in Nat
  BY Inherited
<1>2. PICK kind \in {"due", "abandoned"} :
         /\ Claimable(kind)
         /\ tick' = [tick EXCEPT ![t] = [Idle EXCEPT !.pc = "claim", !.kind = kind,
                                         !.attempt = job.attempt + 1]]
  BY DEF Select
<1>3. /\ UNCHANGED <<telemetryVars, faults, job, records, worked, unrecorded, finalized>>
      /\ tick[t].pc = "idle" /\ sender[t].pc = "quiet"
  BY DEF Select, AtStep
<1> DEFINE new == [Idle EXCEPT !.pc = "claim", !.kind = kind, !.attempt = job.attempt + 1]
<1>4. /\ new \in TickState /\ new.pc = "claim" /\ new.attempt = job.attempt + 1 /\ new.at = 1
  <2>1. Idle \in TickState /\ job.attempt + 1 \in Nat
    BY <1>1, IdleTypes, JobTypes
  <2> QED BY <2>1, IdleTypes DEF TickState
<1>5. tick' = [tick EXCEPT ![t] = new]
  BY <1>2
<1> HIDE DEF new
<1>6. /\ tick' \in [Ticks -> TickState] /\ tick'[t] = new
      /\ \A u \in Ticks \ {t} : tick'[u] = tick[u]
  BY <1>1, <1>4, <1>5, JobTypes
<1>7. job.attempt + 1 \in 1 .. Budget
  <2>1. Takeable
    BY <1>2 DEF Claimable, Takeable
  <2>2. job.attempt < Budget
    BY <1>1, <2>1 DEF JobInv, AttemptsOK
  <2>3. Budget \in Nat
    BY <1>1, <1>3, BudgetGrows
  <2> QED BY <1>1, <2>2, <2>3, JobTypes
<1>8. Bystands(t)
  BY <1>1, <1>3, <1>4, <1>6, <1>7 DEF Bystands, Executing, telemetryVars
<1>9. JobInv'
  BY <1>1, <1>8, BystandsKeep
<1> QED BY <1>3, <1>9, Inherited, JobOnly

LEMMA SendKeeps ==
    ASSUME ViabilityInv, NEW t \in Ticks, Send(t), UNCHANGED jobVars
    PROVE  ViabilityInv'
<1>1. SignalsInv /\ JobInv /\ faults \in Nat /\ finalized \in BOOLEAN /\ MaxFaults \in Nat
  BY Inherited
<1>2. Sent(t)
  BY <1>1, SendSent
<1>3. SignalsGoOn
  BY <1>1, <1>2, SignalsSend
<1>4. /\ faults' \in 0 .. MaxFaults /\ faults' >= faults /\ sender[t].pc # "quiet"
      /\ \A u \in Ticks \ {t} : sender'[u] = sender[u]
      /\ health' \in [Providers -> {"connected", "degraded", "rate_limited"}]
  BY <1>2 DEF Sent, Signals
<1>5. tick[t].pc = "idle"
  BY <1>1, <1>4 DEF JobInv, AloneAtWork
<1>6. UNCHANGED <<job, tick, records, worked, unrecorded, finalized>>
  BY DEF jobVars
<1>7. tick \in [Ticks -> TickState] /\ faults' \in Nat
  BY <1>1, <1>4, JobTypes
<1>8. Bystands(t)
  BY <1>1, <1>4, <1>5, <1>6, <1>7 DEF Bystands, Executing
<1>9. JobInv'
  BY <1>1, <1>8, BystandsKeep
<1> QED BY <1>1, <1>3, <1>4, <1>6, <1>9, Composed

LEMMA FinalizeIncidentKeeps ==
    ASSUME ViabilityInv, NEW t \in Ticks, FinalizeIncident(t)
    PROVE  ViabilityInv'
<1>1. SignalsInv /\ JobInv /\ faults \in Nat /\ finalized \in BOOLEAN /\ MaxFaults \in Nat
  BY Inherited
<1>2. /\ tick[t].pc = "finalize" /\ tick' = [tick EXCEPT ![t] = Idle]
      /\ UNCHANGED <<emission, counted, unsure, sender, health, job, records, worked, unrecorded>>
      /\ UNCHANGED faults \/ (faults < MaxFaults /\ faults' = faults + 1)
      /\ finalized' = TRUE \/ UNCHANGED finalized
  BY DEF FinalizeIncident, AtStep, Rest, telemetryVars
<1>3. faults' \in 0 .. MaxFaults /\ faults' >= faults /\ faults' \in Nat
  BY <1>1, <1>2, FaultsGrow
<1>4. SignalsGoOn
  BY <1>1, <1>2, SignalsStill
<1>5. /\ tick' \in [Ticks -> TickState] /\ tick'[t].pc = "idle"
      /\ \A u \in Ticks \ {t} : tick'[u] = tick[u]
  BY <1>1, <1>2, IdleTypes, JobTypes
<1>6. Bystands(t)
  BY <1>1, <1>2, <1>3, <1>5 DEF Bystands, Executing
<1>7. JobInv'
  BY <1>1, <1>6, BystandsKeep
<1>8. finalized' \in BOOLEAN
  BY <1>1, <1>2
<1> QED BY <1>2, <1>3, <1>4, <1>7, <1>8, Inherited, Composed

-----------------------------------------------------------------------------
(* The tick that has the job.                                              *)

LEMMA ClaimKeeps ==
    ASSUME ViabilityInv, NEW t \in Ticks, Claim(t)
    PROVE  ViabilityInv'
<1>1. JobInv /\ faults \in Nat
  BY Inherited
<1>2. /\ UNCHANGED <<telemetryVars, faults, records, worked, unrecorded, finalized>>
      /\ UNCHANGED sender /\ tick[t].pc = "claim"
  BY DEF Claim, AtStep, telemetryVars
<1>3. CASE Claimable(tick[t].kind)
  <2>1. /\ job' = [job EXCEPT !.state = "running", !.attempt = tick[t].attempt]
        /\ tick' = [tick EXCEPT ![t].pc = IF job.done = Len(Plan) THEN "finish" ELSE "has"]
    BY <1>3 DEF Claim
  <2>2. /\ tick[t] \in TickState /\ tick \in [Ticks -> TickState] /\ job \in JobState
        /\ job.done \in 0 .. 5 /\ tick[t].attempt \in Nat
    BY <1>1, JobTypes DEF TickState
  <2>3. /\ tick' \in [Ticks -> TickState] /\ \A u \in Ticks \ {t} : tick'[u] = tick[u]
        /\ tick'[t].attempt = tick[t].attempt /\ tick'[t].at = tick[t].at
        /\ tick'[t].pc = IF job.done = Len(Plan) THEN "finish" ELSE "has"
    BY <2>1, <2>2 DEF TickState
  <2>4. /\ job' \in JobState /\ job'.state = "running" /\ job'.attempt = tick[t].attempt
        /\ job'.done = job.done
    BY <2>1, <2>2 DEF JobState
  <2>5. Executing = {}
    BY <1>1, <1>3 DEF Claimable, JobInv, AloneAtWork
  <2>6. Executing' = {t}
    <3>1. \A u \in Ticks \ {t} : tick'[u].pc \in {"idle", "claim", "finalize"}
      BY <2>3, <2>5 DEF Executing
    <3> QED BY <2>3, <3>1 DEF Executing
  <2>7. JobTypeOK'
    BY <1>1, <1>2, <2>3, <2>4 DEF JobInv, JobTypeOK
  <2>8. AloneAtWork'
    <3>1. \A u \in Ticks : tick'[u].pc # "idle" => sender'[u].pc = "quiet"
      BY <1>1, <1>2, <2>3 DEF JobInv, AloneAtWork
    <3> QED BY <2>4, <2>6, <3>1 DEF AloneAtWork
  <2>9. AttemptsOK'
    <3>1. /\ tick[t].attempt \in 1 .. Budget /\ tick[t].at = 1 /\ Budget' = Budget
          /\ Budget \in Nat
      BY <1>1, <1>2, BudgetGrows DEF JobInv, AttemptsOK, AtStep, Budget
    <3>2. \A u \in Ticks : AtStep(u, "claim")' => tick'[u].attempt \in 1 .. Budget /\ tick'[u].at = 1
      BY <1>1, <2>3 DEF JobInv, AttemptsOK, AtStep
    <3>3. job'.attempt <= Budget' /\ job'.attempt > 0 /\ ~Takeable'
      BY <2>4, <2>6, <3>1 DEF Takeable
    <3> QED BY <2>3, <2>4, <2>6, <3>1, <3>2, <3>3 DEF AttemptsOK
  <2>10. PlaceOK(t)'
    <3>1. tick'[t].at = 1 /\ tick'[t].pc \in {"finish", "has"}
      BY <1>1, <1>2, <2>3 DEF JobInv, AttemptsOK, AtStep
    <3>2. tick'[t].pc = "finish" <=> job'.done = Len(Plan)
      BY <2>3, <2>4
    <3>3. tick'[t].pc = "has" => 1 \in DOMAIN Plan[job'.done + 1]
      <4> SUFFICES ASSUME tick'[t].pc = "has" PROVE 1 \in DOMAIN Plan[job'.done + 1]
        OBVIOUS
      <4>1. job'.done + 1 \in 1 .. 5
        BY <2>2, <2>3, <2>4, PlanShape
      <4> QED BY <4>1, PlanShape
    <3> QED BY <3>1, <3>2, <3>3 DEF PlaceOK, AtStep
  <2>11. NothingForgotten' /\ WorkDoneOnce'
    BY <1>1, <1>2, <2>4, <2>5 DEF JobInv, NothingForgotten, WorkDoneOnce
  <2>12. JobInv'
    BY <2>6, <2>7, <2>8, <2>9, <2>10, <2>11 DEF JobInv
  <2> QED BY <1>2, <2>12, Inherited, JobOnly
<1>4. CASE ~Claimable(tick[t].kind)
  <2>1. tick' = [tick EXCEPT ![t] = Idle] /\ UNCHANGED job
    BY <1>4 DEF Claim, Rest
  <2>2. /\ tick' \in [Ticks -> TickState] /\ tick'[t].pc = "idle"
        /\ \A u \in Ticks \ {t} : tick'[u] = tick[u]
    BY <1>1, <2>1, IdleTypes, JobTypes
  <2>3. Bystands(t)
    BY <1>1, <1>2, <2>1, <2>2 DEF Bystands, Executing
  <2>4. JobInv'
    BY <1>1, <2>3, BystandsKeep
  <2> QED BY <1>2, <2>4, Inherited, JobOnly
<1> QED BY <1>3, <1>4

\* A tick goes on with the job.
Works(t) ==
    /\ t \in Executing
    /\ UNCHANGED <<telemetryVars, faults, finalized>>
    /\ tick' \in [Ticks -> TickState] /\ \A u \in Ticks \ {t} : tick'[u] = tick[u]
    /\ tick'[t].pc \in {"has", "work", "record", "checkpoint", "finish"}
    /\ tick'[t].attempt = tick[t].attempt
    /\ job' \in JobState /\ job'.state = job.state /\ job'.attempt = job.attempt
    /\ records' \subseteq Artifacts /\ worked' \in [Artifacts -> Nat] /\ UNCHANGED unrecorded

LEMMA WorksKeep ==
    ASSUME ViabilityInv, NEW t \in Ticks, Works(t),
           PlaceOK(t)', NothingForgotten', WorkDoneOnce'
    PROVE  ViabilityInv'
<1>1. JobInv /\ faults \in Nat /\ finalized \in BOOLEAN
  BY Inherited
<1>2. JobTypeOK'
  BY <1>1 DEF JobInv, JobTypeOK, Works
<1>3. Executing = {t} /\ job.state = "running" /\ sender[t].pc = "quiet"
  BY <1>1, JobTypes DEF Works
<1>4. Executing' = {t}
  <2>1. \A u \in Ticks \ {t} : tick'[u].pc \in {"idle", "claim", "finalize"}
    BY <1>3 DEF Executing, Works
  <2> QED BY <2>1 DEF Executing, Works
<1>5. AloneAtWork'
  <2>1. UNCHANGED sender
    BY DEF Works, telemetryVars
  <2>2. \A u \in Ticks : tick'[u].pc # "idle" => sender'[u].pc = "quiet"
    BY <1>1, <1>3, <2>1 DEF JobInv, AloneAtWork, Works
  <2> QED BY <1>3, <1>4, <2>2 DEF AloneAtWork, Works
<1>6. AttemptsOK'
  <2>1. Budget' = Budget
    BY DEF Budget, Works
  <2>2. ~Takeable'
    BY <1>3, <1>4 DEF Takeable, Works
  <2>3. \A u \in Ticks : AtStep(u, "claim")' => tick'[u].attempt \in 1 .. Budget /\ tick'[u].at = 1
    BY <1>1 DEF JobInv, AttemptsOK, AtStep, Works
  <2>4. tick'[t].attempt = job'.attempt /\ job'.attempt > 0 /\ job'.attempt <= Budget
    BY <1>1 DEF JobInv, AttemptsOK, Works
  <2> QED BY <1>4, <2>1, <2>2, <2>3, <2>4 DEF AttemptsOK
<1>7. JobInv'
  BY <1>2, <1>4, <1>5, <1>6 DEF JobInv
<1> QED BY <1>1, <1>7, JobOnly DEF Works

\* The next turn or tool of a phase, or its checkpoint.
LEMMA ProceedPlace ==
    ASSUME JobInv, NEW t \in Executing, tick[t].pc \in {"has", "record"}, Proceed(t),
           UNCHANGED job, records \subseteq records', Step(t) \in records'
    PROVE  /\ tick' \in [Ticks -> TickState] /\ \A u \in Ticks \ {t} : tick'[u] = tick[u]
           /\ tick'[t].pc \in {"has", "checkpoint"} /\ tick'[t].attempt = tick[t].attempt
           /\ PlaceOK(t)'
<1> DEFINE phase == Plan[job.done + 1]
           at == tick[t].at
<1>1. /\ job.done \in 0 .. 4 /\ job.done + 1 \in 1 .. 5 /\ at \in 1 .. Len(phase)
      /\ Step(t) = phase[at]
  BY StepTypes
<1>2. tick \in [Ticks -> TickState] /\ tick[t] \in TickState /\ t \in Ticks /\ at \in Nat
  BY JobTypes DEF Executing, TickState
<1>3. Len(phase) \in {1, 2} /\ DOMAIN phase = 1 .. Len(phase)
  BY <1>1, PlanShape
<1>4. \A i \in 1 .. at - 1 : phase[i] \in records
  BY DEF JobInv, PlaceOK
<1>5. \A i \in 1 .. at : phase[i] \in records'
  <2>1. \A i \in 1 .. at : i \in 1 .. at - 1 \/ i = at
    BY <1>2
  <2> QED BY <1>1, <1>4, <2>1
<1>7. CASE at < Len(phase)
  <2> DEFINE new == [tick[t] EXCEPT !.pc = "has", !.at = at + 1]
  <2>0. tick' = [tick EXCEPT ![t] = new]
    BY <1>2, <1>7 DEF Proceed
  <2>1. /\ new \in TickState /\ new.pc = "has" /\ new.at = at + 1
        /\ new.attempt = tick[t].attempt
    <3>1. at + 1 \in Nat
      BY <1>2
    <3> HIDE DEF at
    <3> QED BY <1>2, <3>1 DEF TickState
  <2> HIDE DEF new
  <2>2. /\ tick' \in [Ticks -> TickState] /\ \A u \in Ticks \ {t} : tick'[u] = tick[u]
        /\ tick'[t] = new
    BY <1>2, <2>1, <2>0
  <2>3. tick'[t].at \in DOMAIN phase /\ tick'[t].at - 1 = at
    BY <1>1, <1>2, <1>3, <1>7, <2>1, <2>2
  <2>4. job'.done # Len(Plan)
    BY <1>1, PlanShape
  <2>5. PlaceOK(t)'
    BY <1>5, <2>1, <2>2, <2>3, <2>4 DEF PlaceOK, AtStep
  <2> QED BY <2>1, <2>2, <2>5
<1>8. CASE ~(at < Len(phase))
  <2> DEFINE new == [tick[t] EXCEPT !.pc = "checkpoint"]
  <2>0. tick' = [tick EXCEPT ![t] = new]
    BY <1>2, <1>8 DEF Proceed
  <2>1. /\ new \in TickState /\ new.pc = "checkpoint" /\ new.attempt = tick[t].attempt
    BY <1>2, <1>8 DEF TickState
  <2> HIDE DEF new
  <2>2. /\ tick' \in [Ticks -> TickState] /\ \A u \in Ticks \ {t} : tick'[u] = tick[u]
        /\ tick'[t] = new
    BY <1>2, <2>1, <2>0
  <2>3. \A i \in DOMAIN phase : phase[i] \in records'
    <3>1. DOMAIN phase = 1 .. at
      BY <1>1, <1>3, <1>8
    <3> QED BY <1>5, <3>1
  <2>4. job'.done # Len(Plan)
    BY <1>1, PlanShape
  <2>5. PlaceOK(t)'
    BY <2>1, <2>2, <2>3, <2>4 DEF PlaceOK, AtStep
  <2> QED BY <2>1, <2>2, <2>5
<1> QED BY <1>7, <1>8

\* What holds of the tick that works on an artifact.
LEMMA Working ==
    ASSUME ViabilityInv, NEW t \in Ticks, tick[t].pc \in {"has", "work", "record", "checkpoint"}
    PROVE  /\ JobInv /\ t \in Executing /\ Executing = {t} /\ PlaceOK(t)
           /\ job \in JobState /\ job.state = "running" /\ job.done \in 0 .. 4
           /\ job.done + 1 \in 1 .. 5 /\ DOMAIN Plan[job.done + 1] = 1 .. Len(Plan[job.done + 1])
           /\ tick \in [Ticks -> TickState] /\ tick[t] \in TickState
           /\ tick[t].pc # "checkpoint" => Step(t) \in Artifacts
           /\ records \subseteq Artifacts
           /\ worked \in [Artifacts -> Nat] /\ unrecorded \in [Artifacts -> Nat]
<1>1. JobInv /\ t \in Executing
  BY Inherited, ExecutingTypes
<1>2. job.done \in 0 .. 4 /\ job.done + 1 \in 1 .. 5
  BY <1>1, StepTypes
<1>3. tick[t].pc # "checkpoint" => Step(t) \in Artifacts
  BY <1>1, StepTypes
<1>4. PlaceOK(t)
  BY <1>1 DEF JobInv
<1> QED BY <1>1, <1>2, <1>3, <1>4, JobTypes, PlanShape

LEMMA LookUpKeeps ==
    ASSUME ViabilityInv, NEW t \in Ticks, LookUp(t)
    PROVE  ViabilityInv'
<1>1. /\ UNCHANGED <<telemetryVars, faults, job, records, worked, unrecorded, finalized>>
      /\ tick[t].pc = "has"
  BY DEF LookUp, AtStep
<1>2. /\ JobInv /\ t \in Executing /\ Executing = {t} /\ PlaceOK(t) /\ job \in JobState
      /\ tick \in [Ticks -> TickState] /\ tick[t] \in TickState /\ records \subseteq Artifacts
      /\ worked \in [Artifacts -> Nat] /\ unrecorded \in [Artifacts -> Nat]
  BY <1>1, Working
<1>3. WorkDoneOnce'
  BY <1>1, <1>2 DEF JobInv, WorkDoneOnce
<1>4. NothingForgotten'
  BY <1>1, <1>2 DEF JobInv, NothingForgotten, AtStep
<1>5. CASE Step(t) \in records
  <2>1. Proceed(t)
    BY <1>5 DEF LookUp, Recorded
  <2>2. /\ tick' \in [Ticks -> TickState] /\ \A u \in Ticks \ {t} : tick'[u] = tick[u]
        /\ tick'[t].pc \in {"has", "checkpoint"} /\ tick'[t].attempt = tick[t].attempt
        /\ PlaceOK(t)'
    BY <1>1, <1>2, <1>5, <2>1, ProceedPlace
  <2>3. Works(t)
    BY <1>1, <1>2, <2>2 DEF Works
  <2> QED BY <1>3, <1>4, <2>2, <2>3, WorksKeep
<1>6. CASE Step(t) \notin records
  <2>1. tick' = [tick EXCEPT ![t].pc = "work"]
    BY <1>6 DEF LookUp, Recorded
  <2>2. /\ tick' \in [Ticks -> TickState] /\ \A u \in Ticks \ {t} : tick'[u] = tick[u]
        /\ tick'[t].pc = "work" /\ tick'[t].attempt = tick[t].attempt /\ tick'[t].at = tick[t].at
    BY <1>2, <2>1 DEF TickState
  <2>3. Works(t)
    BY <1>1, <1>2, <2>2 DEF Works
  <2>4. PlaceOK(t)'
    BY <1>1, <1>2, <1>6, <2>2 DEF PlaceOK, AtStep, Step
  <2> QED BY <1>3, <1>4, <2>3, <2>4, WorksKeep
<1> QED BY <1>5, <1>6

LEMMA WorkKeeps ==
    ASSUME ViabilityInv, NEW t \in Ticks, Work(t)
    PROVE  ViabilityInv'
<1>1. /\ UNCHANGED <<telemetryVars, faults, job, records, unrecorded, finalized>>
      /\ tick[t].pc = "work"
      /\ worked' = [worked EXCEPT ![Step(t)] = @ + 1] /\ tick' = [tick EXCEPT ![t].pc = "record"]
  BY DEF Work, AtStep
<1>2. /\ JobInv /\ t \in Executing /\ Executing = {t} /\ PlaceOK(t) /\ job \in JobState
      /\ tick \in [Ticks -> TickState] /\ tick[t] \in TickState /\ records \subseteq Artifacts
      /\ worked \in [Artifacts -> Nat] /\ unrecorded \in [Artifacts -> Nat]
      /\ Step(t) \in Artifacts
  BY <1>1, Working
<1>3. /\ tick' \in [Ticks -> TickState] /\ \A u \in Ticks \ {t} : tick'[u] = tick[u]
      /\ tick'[t].pc = "record" /\ tick'[t].attempt = tick[t].attempt /\ tick'[t].at = tick[t].at
  BY <1>1, <1>2 DEF TickState
<1>4. PlaceOK(t)'
  BY <1>1, <1>2, <1>3 DEF PlaceOK, AtStep, Step
<1>5. Step(t)' = Step(t) /\ t \in Executing' /\ AtStep(t, "record")'
  BY <1>1, <1>2, <1>3 DEF Step, Executing, AtStep
<1>6. /\ worked' \in [Artifacts -> Nat] /\ worked'[Step(t)] = worked[Step(t)] + 1
      /\ \A a \in Artifacts \ {Step(t)} : worked'[a] = worked[a]
  BY <1>1, <1>2
<1>7. NothingForgotten'
  <2> SUFFICES ASSUME NEW a \in Artifacts, a # Step(t), a \notin records
               PROVE  worked'[a] <= unrecorded'[a]
    BY <1>1, <1>5 DEF NothingForgotten
  <2>1. worked[a] <= unrecorded[a]
    BY <1>1, <1>2 DEF JobInv, NothingForgotten, AtStep
  <2> QED BY <1>1, <1>6, <2>1
<1>8. WorkDoneOnce'
  <2>1. Step(t) \notin records
    BY <1>1, <1>2 DEF PlaceOK
  <2>2. worked[Step(t)] <= unrecorded[Step(t)]
    BY <1>1, <1>2, <2>1 DEF JobInv, NothingForgotten, AtStep
  <2>3. worked'[Step(t)] <= 1 + unrecorded'[Step(t)]
    BY <1>1, <1>2, <1>6, <2>2
  <2>4. \A a \in Artifacts \ {Step(t)} : worked'[a] <= 1 + unrecorded'[a]
    BY <1>1, <1>2, <1>6 DEF JobInv, WorkDoneOnce
  <2>5. \A p \in 1 .. job'.done : \A i \in DOMAIN Plan[p] : Plan[p][i] \in records'
    BY <1>1, <1>2 DEF JobInv, WorkDoneOnce
  <2> QED BY <2>3, <2>4, <2>5 DEF WorkDoneOnce
<1>9. Works(t)
  BY <1>1, <1>2, <1>3, <1>6 DEF Works
<1> QED BY <1>4, <1>7, <1>8, <1>9, WorksKeep

LEMMA RecordKeeps ==
    ASSUME ViabilityInv, NEW t \in Ticks, Record(t)
    PROVE  ViabilityInv'
<1>1. /\ UNCHANGED <<telemetryVars, faults, job, worked, unrecorded, finalized>>
      /\ tick[t].pc = "record" /\ records' = records \cup {Step(t)} /\ Proceed(t)
  BY DEF Record, AtStep
<1>2. /\ JobInv /\ t \in Executing /\ Executing = {t} /\ job \in JobState
      /\ records \subseteq Artifacts
      /\ worked \in [Artifacts -> Nat] /\ unrecorded \in [Artifacts -> Nat]
      /\ Step(t) \in Artifacts
  BY <1>1, Working
<1>3. Step(t) \in records' /\ records \subseteq records'
  BY <1>1
<1>4. /\ tick' \in [Ticks -> TickState] /\ \A u \in Ticks \ {t} : tick'[u] = tick[u]
      /\ tick'[t].pc \in {"has", "checkpoint"} /\ tick'[t].attempt = tick[t].attempt
      /\ PlaceOK(t)'
  BY <1>1, <1>2, <1>3, ProceedPlace
<1>5. Works(t)
  BY <1>1, <1>2, <1>4 DEF Works
<1>6. NothingForgotten'
  <2> SUFFICES ASSUME NEW a \in Artifacts, a \notin records'
               PROVE  worked'[a] <= unrecorded'[a]
    BY DEF NothingForgotten
  <2>1. a # Step(t) /\ a \notin records
    BY <1>1
  <2> QED BY <1>1, <1>2, <2>1 DEF JobInv, NothingForgotten
<1>7. WorkDoneOnce'
  BY <1>1, <1>2, <1>3 DEF JobInv, WorkDoneOnce
<1> QED BY <1>4, <1>5, <1>6, <1>7, WorksKeep

LEMMA CheckpointKeeps ==
    ASSUME ViabilityInv, NEW t \in Ticks, Checkpoint(t)
    PROVE  ViabilityInv'
<1>1. /\ UNCHANGED <<telemetryVars, faults, records, worked, unrecorded, finalized>>
      /\ tick[t].pc = "checkpoint"
  BY DEF Checkpoint, AtStep
<1>2. /\ JobInv /\ t \in Executing /\ Executing = {t} /\ PlaceOK(t) /\ job \in JobState
      /\ job.done \in 0 .. 4 /\ job.state = "running" /\ job.attempt \in Nat
      /\ tick \in [Ticks -> TickState] /\ tick[t] \in TickState /\ records \subseteq Artifacts
      /\ worked \in [Artifacts -> Nat] /\ unrecorded \in [Artifacts -> Nat]
  BY <1>1, Working DEF JobState
<1>3. \A p \in 1 .. job.done + 1 : \A i \in DOMAIN Plan[p] : Plan[p][i] \in records
  <2>1. \A p \in 1 .. job.done + 1 : p \in 1 .. job.done \/ p = job.done + 1
    BY <1>2
  <2>2. \A i \in DOMAIN Plan[job.done + 1] : Plan[job.done + 1][i] \in records
    BY <1>1, <1>2 DEF PlaceOK, AtStep
  <2> QED BY <1>2, <2>1, <2>2 DEF JobInv, WorkDoneOnce
<1>4. \A a \in Artifacts : a \in records \/ worked[a] <= unrecorded[a]
  BY <1>1, <1>2 DEF JobInv, NothingForgotten, AtStep
<1>5. CASE /\ job' = [job EXCEPT !.done = @ + 1]
           /\ tick' = [tick EXCEPT ![t].pc = IF job.done + 1 < Len(Plan) THEN "has" ELSE "finish",
                                   ![t].at = 1]
  <2>1. /\ job' \in JobState /\ job'.done = job.done + 1 /\ job'.state = job.state
        /\ job'.attempt = job.attempt
    <3>1. job.done + 1 \in 0 .. Len(Plan)
      BY <1>2, PlanShape
    <3> QED BY <1>2, <1>5, <3>1 DEF JobState
  <2> DEFINE pc == IF job.done + 1 < Len(Plan) THEN "has" ELSE "finish"
             new == [tick[t] EXCEPT !.pc = pc, !.at = 1]
  <2>2. pc \in {"has", "finish"} /\ (pc = "finish" <=> job.done + 1 = Len(Plan))
    BY <1>2, PlanShape
  <2>3. tick' = [tick EXCEPT ![t] = new]
    BY <1>2, <1>5
  <2> HIDE DEF pc
  <2>4. new \in TickState /\ new.pc = pc /\ new.at = 1 /\ new.attempt = tick[t].attempt
    BY <1>2, <2>2 DEF TickState
  <2> HIDE DEF new
  <2>5. /\ tick' \in [Ticks -> TickState] /\ \A u \in Ticks \ {t} : tick'[u] = tick[u]
        /\ tick'[t] = new
    BY <1>2, <2>3, <2>4
  <2>6. PlaceOK(t)'
    <3>1. tick'[t].pc = "has" => 1 \in DOMAIN Plan[job'.done + 1]
      <4> SUFFICES ASSUME tick'[t].pc = "has" PROVE 1 \in DOMAIN Plan[job'.done + 1]
        OBVIOUS
      <4>1. job'.done + 1 \in 1 .. 5
        BY <1>2, <2>1, <2>2, <2>4, <2>5, PlanShape
      <4> QED BY <4>1, PlanShape
    <3>2. tick'[t].pc = "finish" <=> job'.done = Len(Plan)
      BY <2>1, <2>2, <2>4, <2>5
    <3>3. tick'[t].pc \in {"has", "finish"} /\ tick'[t].at = 1
      BY <2>2, <2>4, <2>5
    <3> QED BY <3>1, <3>2, <3>3 DEF PlaceOK, AtStep
  <2>7. Works(t)
    BY <1>1, <1>2, <2>1, <2>2, <2>4, <2>5 DEF Works
  <2>8. NothingForgotten'
    BY <1>1, <1>4 DEF NothingForgotten
  <2>9. WorkDoneOnce'
    BY <1>1, <1>2, <1>3, <2>1 DEF JobInv, WorkDoneOnce
  <2> QED BY <2>6, <2>7, <2>8, <2>9, WorksKeep
<1>6. CASE /\ job.done + 1 < Len(Plan)
           /\ job' = [state |-> "queued", attempt |-> tick[t].attempt - 1, done |-> job.done + 1]
           /\ Rest(t)
  <2>1. /\ tick' \in [Ticks -> TickState] /\ tick'[t].pc = "idle"
        /\ \A u \in Ticks \ {t} : tick'[u] = tick[u]
    BY <1>2, <1>6, IdleTypes DEF Rest
  <2>2. faults \in Nat /\ MaxAttempts + faults \in Nat
    <3>1. faults \in Nat /\ UNCHANGED faults
      BY <1>1, Inherited
    <3>2. Budget \in Nat
      BY <3>1, BudgetGrows
    <3> QED BY <3>1, <3>2 DEF Budget
  <2>3. /\ tick[t].attempt = job.attempt /\ job.attempt > 0 /\ job.attempt <= MaxAttempts + faults
    BY <1>2 DEF JobInv, AttemptsOK, Budget
  <2>4. /\ tick[t].attempt - 1 \in Nat /\ tick[t].attempt - 1 < MaxAttempts + faults
        /\ job.done + 1 \in 0 .. Len(Plan)
    BY <1>2, <2>2, <2>3, PlanShape
  <2>5. job' \in JobState /\ job'.done = job.done + 1 /\ job'.attempt = tick[t].attempt - 1
    BY <1>6, <2>4 DEF JobState
  <2>6. Leaves(t)
    <3>1. job'.attempt < MaxAttempts + faults' /\ job'.attempt <= MaxAttempts + faults'
      BY <1>1, <2>2, <2>4, <2>5
    <3>2. \A a \in Artifacts : unrecorded'[a] >= unrecorded[a]
      BY <1>1, <1>2
    <3>3. faults' \in Nat /\ faults' >= faults
      BY <1>1, <2>2
    <3>4. UNCHANGED sender
      BY <1>1 DEF telemetryVars
    <3> QED BY <1>1, <1>2, <2>1, <2>2, <2>5, <3>1, <3>2, <3>3, <3>4 DEF Leaves, AtStep
  <2>7. JobInv'
    BY <1>2, <2>6, LeavesKeep
  <2> QED BY <1>1, <2>7, Inherited, JobOnly
<1> QED BY <1>5, <1>6 DEF Checkpoint

LEMMA FinishSuccessKeeps ==
    ASSUME ViabilityInv, NEW t \in Ticks, FinishSuccess(t)
    PROVE  ViabilityInv'
<1>1. /\ UNCHANGED <<telemetryVars, faults, records, worked, unrecorded, finalized>>
      /\ tick[t].pc = "finish" /\ job' = [job EXCEPT !.state = "succeeded"]
      /\ tick' = [tick EXCEPT ![t].pc = "finalize"] /\ UNCHANGED sender
  BY DEF FinishSuccess, AtStep, telemetryVars
<1>2. JobInv /\ t \in Executing /\ faults \in Nat
  BY <1>1, Inherited, ExecutingTypes
<1>3. /\ job \in JobState /\ tick \in [Ticks -> TickState] /\ sender[t].pc = "quiet"
      /\ records \subseteq Artifacts /\ unrecorded \in [Artifacts -> Nat]
  BY <1>2, JobTypes
<1>4. /\ tick' \in [Ticks -> TickState] /\ tick'[t].pc = "finalize"
      /\ \A u \in Ticks \ {t} : tick'[u] = tick[u]
  BY <1>1, <1>3 DEF TickState
<1>5. /\ job' \in JobState /\ job'.state = "succeeded" /\ job'.attempt = job.attempt
      /\ job'.done = job.done
  BY <1>1, <1>3 DEF JobState
<1>6. job'.attempt <= MaxAttempts + faults'
  BY <1>1, <1>2, <1>5 DEF JobInv, AttemptsOK, Budget
<1>7. \A a \in Artifacts : unrecorded'[a] >= unrecorded[a]
  BY <1>1, <1>3
<1>8. Leaves(t)
  BY <1>1, <1>2, <1>3, <1>4, <1>5, <1>6, <1>7 DEF Leaves, AtStep
<1>9. JobInv'
  BY <1>2, <1>8, LeavesKeep
<1> QED BY <1>1, <1>9, Inherited, JobOnly

LEMMA ErrorTypes ==
    ASSUME NEW pc \in {"has", "work", "record", "checkpoint"}, NEW a, NEW error \in Errors(pc, a)
    PROVE  /\ error.source \in {"worker"} \cup Providers
           /\ error.class \in {"rate_limit", "auth", "other"}
<1> DEFINE Known == [retryable : BOOLEAN, source : {"worker"} \cup Providers,
                     class : {"rate_limit", "auth", "other"}]
<1>1. StoreError \in Known /\ IntegrationMissing \in Known
  BY DEF StoreError, IntegrationMissing, Providers
<1>2. GatewayErrors \subseteq Known
  BY DEF GatewayErrors, Providers
<1>3. CASE pc = "has" \/ pc = "checkpoint"
  <2>1. error = StoreError
    BY <1>3 DEF Errors
  <2> QED BY <1>1, <2>1
<1>4. CASE pc = "work"
  <2>1. error \in GatewayErrors
    BY <1>4 DEF Errors
  <2> QED BY <1>2, <2>1
<1>5. CASE pc = "record"
  <2>1. error = StoreError \/ error = IntegrationMissing
    BY <1>5 DEF Errors
  <2> QED BY <1>1, <2>1
<1> QED BY <1>3, <1>4, <1>5

\* The attempt of a tick that has the job, and the room that a failure leaves behind it.
LEMMA AttemptTypes ==
    ASSUME ViabilityInv, NEW t \in Executing, faults < MaxFaults, faults' = faults + 1
    PROVE  /\ faults \in Nat /\ faults' \in Nat /\ faults' >= faults /\ faults' \in 0 .. MaxFaults
           /\ tick[t].attempt = job.attempt /\ job.attempt \in Nat
           /\ job.attempt < MaxAttempts + faults' /\ job.attempt <= MaxAttempts + faults'
           /\ job.attempt \in Attempts
<1>1. JobInv /\ faults \in Nat /\ faults \in 0 .. MaxFaults /\ MaxFaults \in Nat
  BY Inherited
<1>2. faults' \in Nat /\ faults' >= faults /\ faults' \in 0 .. MaxFaults
  BY <1>1
<1>3. /\ tick[t].attempt = job.attempt /\ job.attempt \in Nat /\ job.attempt > 0
      /\ job.attempt <= MaxAttempts + faults
  BY <1>1, JobTypes DEF JobInv, AttemptsOK, Budget
<1>4. MaxAttempts \in Nat
  BY KeyTypes
<1>5. \A n, b, f, m \in Nat : n <= b + f /\ f < m /\ n > 0 =>
          n < b + (f + 1) /\ n <= b + (f + 1) /\ n \in 1 .. (b + m)
  OBVIOUS
<1>6. job.attempt < MaxAttempts + (faults + 1) /\ job.attempt <= MaxAttempts + (faults + 1)
      /\ job.attempt \in 1 .. (MaxAttempts + MaxFaults)
  BY <1>1, <1>3, <1>4, <1>5, Zenon
<1> QED BY <1>1, <1>2, <1>3, <1>6 DEF Attempts

LEMMA FailKeeps ==
    ASSUME ViabilityInv, NEW t \in Ticks, Fail(t)
    PROVE  ViabilityInv'
<1> DEFINE a == Step(t)
<1>1. /\ tick[t].pc \in {"has", "work", "record", "checkpoint"}
      /\ faults < MaxFaults /\ faults' = faults + 1 /\ tick' = [tick EXCEPT ![t] = Idle]
      /\ UNCHANGED <<emission, counted, health, worked, finalized>>
  BY DEF Fail, Rest
<1>2. PICK error \in Errors(tick[t].pc, a) :
          LET again == WillRetry(tick[t].attempt, error) IN
          /\ job' = [job EXCEPT !.state = IF again THEN "retrying" ELSE "failed",
                                !.done = IF tick[t].pc = "checkpoint" THEN @ + 1 ELSE @]
          /\ Emit(t, IF again THEN "retry" ELSE "error", tick[t].attempt, error)
          /\ \/ /\ tick[t].pc = "record"
                /\ unrecorded' = [unrecorded EXCEPT ![a] = @ + 1] /\ UNCHANGED records
             \/ /\ tick[t].pc = "record" /\ error # IntegrationMissing
                /\ records' = records \cup {a} /\ UNCHANGED unrecorded
             \/ tick[t].pc # "record" /\ UNCHANGED <<records, unrecorded>>
  BY DEF Fail
<1>3. /\ JobInv /\ t \in Executing /\ job \in JobState /\ job.done \in 0 .. 4
      /\ tick \in [Ticks -> TickState]
      /\ tick[t].pc # "checkpoint" => Step(t) \in Artifacts
      /\ records \subseteq Artifacts /\ unrecorded \in [Artifacts -> Nat]
  BY <1>1, Working
<1>4. SignalsInv /\ finalized \in BOOLEAN
      /\ health \in [Providers -> {"connected", "degraded", "rate_limited"}]
  BY Inherited
<1>5. /\ faults \in Nat /\ faults' \in Nat /\ faults' >= faults /\ faults' \in 0 .. MaxFaults
      /\ tick[t].attempt = job.attempt /\ job.attempt \in Nat
      /\ job.attempt < MaxAttempts + faults' /\ job.attempt <= MaxAttempts + faults'
      /\ job.attempt \in Attempts
  BY <1>1, <1>3, AttemptTypes
<1> DEFINE state == IF WillRetry(tick[t].attempt, error) THEN "retrying" ELSE "failed"
           kind == IF WillRetry(tick[t].attempt, error) THEN "retry" ELSE "error"
           done == IF tick[t].pc = "checkpoint" THEN job.done + 1 ELSE job.done
<1>6. state \in {"retrying", "failed"} /\ kind \in {"retry", "error"}
  OBVIOUS
<1>7. job' = [job EXCEPT !.state = state, !.done = done] /\ Emit(t, kind, tick[t].attempt, error)
  BY <1>2
<1>8. done \in 0 .. Len(Plan) /\ (done = job.done \/ (tick[t].pc = "checkpoint" /\ done = job.done + 1))
  BY <1>3, PlanShape
<1> HIDE DEF state, kind, done
<1>9. job' \in JobState /\ job'.attempt = job.attempt /\ job'.done = done
  BY <1>3, <1>6, <1>7, <1>8 DEF JobState
<1>10. SignalsGoOn /\ \A u \in Ticks \ {t} : sender'[u] = sender[u]
  <2>1. sender[t].pc = "quiet"
    BY <1>3, JobTypes
  <2>2. <<kind, tick[t].attempt>> \in Keys
    BY <1>5, <1>6 DEF Keys
  <2>3. error.source \in {"worker"} \cup Providers /\ error.class \in {"rate_limit", "auth", "other"}
    BY <1>1, ErrorTypes
  <2>4. UNCHANGED <<emission, counted>>
    BY <1>1
  <2> HIDE DEF a
  <2> QED BY <1>4, <1>7, <2>1, <2>2, <2>3, <2>4, SignalsEmit
<1>11. /\ tick' \in [Ticks -> TickState] /\ tick'[t].pc = "idle"
       /\ \A u \in Ticks \ {t} : tick'[u] = tick[u]
  BY <1>1, <1>3, IdleTypes
<1>12. /\ records \subseteq records' /\ records' \subseteq Artifacts
       /\ unrecorded' \in [Artifacts -> Nat]
       /\ \A b \in Artifacts : unrecorded'[b] >= unrecorded[b]
       /\ tick[t].pc = "record" => \/ Step(t) \in records'
                                   \/ unrecorded'[Step(t)] >= unrecorded[Step(t)] + 1
  <2>1. CASE tick[t].pc = "record" /\ unrecorded' = [unrecorded EXCEPT ![a] = @ + 1] /\ UNCHANGED records
    <3>1. a \in Artifacts
      BY <1>3, <2>1
    <3> HIDE DEF a
    <3>2. /\ unrecorded' \in [Artifacts -> Nat] /\ unrecorded'[a] = unrecorded[a] + 1
          /\ \A b \in Artifacts : unrecorded'[b] = unrecorded[b] \/ unrecorded'[b] = unrecorded[b] + 1
      BY <1>3, <2>1, <3>1
    <3>3. unrecorded[a] \in Nat /\ \A b \in Artifacts : unrecorded[b] \in Nat
      BY <1>3, <3>1
    <3> QED BY <1>3, <2>1, <3>2, <3>3 DEF a
  <2>2. CASE tick[t].pc = "record" /\ records' = records \cup {a} /\ UNCHANGED unrecorded
    BY <1>3, <2>2
  <2>3. CASE tick[t].pc # "record" /\ UNCHANGED <<records, unrecorded>>
    BY <1>3, <2>3
  <2> QED BY <1>2, <2>1, <2>2, <2>3
<1>13. Leaves(t)
  BY <1>1, <1>3, <1>5, <1>8, <1>9, <1>10, <1>11, <1>12 DEF Leaves, AtStep
<1>14. JobInv'
  BY <1>3, <1>13, LeavesKeep
<1> QED BY <1>1, <1>4, <1>5, <1>10, <1>14, Composed

LEMMA CrashKeeps ==
    ASSUME ViabilityInv, NEW t \in Ticks, Crash(t)
    PROVE  ViabilityInv'
<1>1. /\ faults < MaxFaults /\ faults' = faults + 1 /\ tick' = [tick EXCEPT ![t] = Idle]
      /\ unrecorded' = IF AtStep(t, "record") THEN [unrecorded EXCEPT ![Step(t)] = @ + 1]
                       ELSE unrecorded
      /\ Interrupted(t) /\ UNCHANGED <<job, records, worked, finalized>>
  BY DEF Crash, Rest
<1>2. /\ SignalsInv /\ JobInv /\ faults \in 0 .. MaxFaults /\ faults \in Nat /\ MaxFaults \in Nat
      /\ finalized \in BOOLEAN
      /\ health \in [Providers -> {"connected", "degraded", "rate_limited"}]
  BY Inherited
<1>3. SignalsGoOn /\ sender'[t].pc = "quiet" /\ \A u \in Ticks \ {t} : sender'[u] = sender[u]
  BY <1>1, <1>2, SignalsInterrupted
<1>4. UNCHANGED health
  BY <1>1 DEF Interrupted
<1>5. faults' \in Nat /\ faults' >= faults /\ faults' \in 0 .. MaxFaults
  BY <1>1, <1>2
<1>6. /\ job \in JobState /\ tick \in [Ticks -> TickState]
      /\ records \subseteq Artifacts /\ unrecorded \in [Artifacts -> Nat]
  BY <1>2, JobTypes
<1>7. /\ tick' \in [Ticks -> TickState] /\ tick'[t].pc = "idle"
      /\ \A u \in Ticks \ {t} : tick'[u] = tick[u]
  BY <1>1, <1>6, IdleTypes
<1>8. JobInv'
  <2>1. CASE t \notin Executing
    <3>1. UNCHANGED unrecorded
      BY <1>1, <2>1 DEF Executing, AtStep
    <3>2. Bystands(t)
      BY <1>1, <1>2, <1>3, <1>5, <1>7, <2>1, <3>1 DEF Bystands
    <3> QED BY <1>2, <3>2, BystandsKeep
  <2>2. CASE t \in Executing
    <3>1. job.attempt < MaxAttempts + faults' /\ job.attempt <= MaxAttempts + faults'
      BY <1>1, <2>2, AttemptTypes
    <3>2. /\ unrecorded' \in [Artifacts -> Nat]
          /\ \A b \in Artifacts : unrecorded'[b] >= unrecorded[b]
          /\ AtStep(t, "record") => unrecorded'[Step(t)] >= unrecorded[Step(t)] + 1
      <4>1. CASE AtStep(t, "record")
        <5> DEFINE a == Step(t)
        <5>1. a \in Artifacts
          BY <4>1, Working DEF AtStep
        <5>2. unrecorded' = [unrecorded EXCEPT ![a] = @ + 1]
          BY <1>1, <4>1
        <5> HIDE DEF a
        <5>3. /\ unrecorded' \in [Artifacts -> Nat] /\ unrecorded'[a] = unrecorded[a] + 1
              /\ \A b \in Artifacts : unrecorded'[b] = unrecorded[b] \/ unrecorded'[b] = unrecorded[b] + 1
          BY <1>6, <5>1, <5>2
        <5>4. unrecorded[a] \in Nat /\ \A b \in Artifacts : unrecorded[b] \in Nat
          BY <1>6, <5>1
        <5> QED BY <5>3, <5>4 DEF a
      <4>2. CASE ~AtStep(t, "record")
        BY <1>1, <1>6, <4>2
      <4> QED BY <4>1, <4>2
    <3>3. Leaves(t)
      BY <1>1, <1>2, <1>3, <1>5, <1>6, <1>7, <2>2, <3>1, <3>2 DEF Leaves
    <3> QED BY <1>2, <3>3, LeavesKeep
  <2> QED BY <2>1, <2>2
<1> QED BY <1>1, <1>2, <1>3, <1>4, <1>5, <1>8, Composed

-----------------------------------------------------------------------------
(* The invariant.                                                          *)

LEMMA ViabilityInitially ==
    ASSUME Init
    PROVE  ViabilityInv
<1>1. /\ emission = [k \in Keys |-> NoEmission] /\ counted = [k \in Keys |-> 0] /\ unsure = {}
      /\ health = [p \in Providers |-> "connected"] /\ sender = [t \in Ticks |-> Quiet]
      /\ faults = 0
  BY DEF Init, TelemetryInit
<1>2. /\ job = [state |-> "queued", attempt |-> 0, done |-> 0] /\ tick = [t \in Ticks |-> Idle]
      /\ records = {} /\ finalized = FALSE
      /\ worked = [a \in Artifacts |-> 0] /\ unrecorded = [a \in Artifacts |-> 0]
  BY DEF Init
<1>3. TelemetryTypeOK
  <2>1. NoEmission \in EmissionRow
    BY DEF NoEmission, EmissionRow
  <2> QED BY <1>1, <2>1, KeyTypes DEF TelemetryTypeOK
<1>4. \A t \in Ticks : sender[t].pc = "quiet" /\ ~Unwritten(t)
  BY <1>1, KeyTypes DEF Unwritten, At
<1>5. \A k \in Keys : Sending(k) = {}
  BY <1>4 DEF Sending
<1>6. SignalInv /\ SignalCountedOnce
  BY <1>1, <1>4, <1>5 DEF SignalInv, SignalCountedOnce, RowOK, NoEmission
<1>7. \A t \in Ticks : tick[t].pc = "idle"
  BY <1>2, IdleTypes
<1>8. Executing = {}
  BY <1>7 DEF Executing
<1>9. JobTypeOK
  <2>1. job \in JobState
    BY <1>2, PlanShape DEF JobState
  <2> QED BY <1>2, <2>1, IdleTypes DEF JobTypeOK
<1>10. AloneAtWork /\ NothingForgotten /\ WorkDoneOnce
  BY <1>2, <1>4, <1>8 DEF AloneAtWork, NothingForgotten, WorkDoneOnce
<1>11. AttemptsOK
  <2>1. \A n \in Nat : n > 0 => 0 <= n + 0 /\ 0 < n + 0
    OBVIOUS
  <2>2. 0 <= Budget /\ 0 < Budget
    BY <1>1, <2>1, KeyTypes DEF Budget
  <2> QED BY <1>2, <1>7, <1>8, <2>2 DEF AttemptsOK, AtStep
<1> QED BY <1>2, <1>3, <1>6, <1>8, <1>9, <1>10, <1>11, ViabilityParts DEF SignalsInv, JobInv

LEMMA ViabilityStays ==
    ASSUME ViabilityInv, UNCHANGED vars
    PROVE  ViabilityInv'
<1>1. /\ JobInv /\ finalized \in BOOLEAN
      /\ UNCHANGED <<job, tick, records, worked, unrecorded, finalized, sender, faults>>
      /\ UNCHANGED <<telemetryVars, faults>>
  BY Inherited DEF vars, jobVars, telemetryVars
<1>2. Executing' = Executing
  BY <1>1 DEF Executing
<1>3. JobTypeOK' /\ AloneAtWork' /\ WorkDoneOnce'
  BY <1>1, <1>2 DEF JobInv, JobTypeOK, AloneAtWork, WorkDoneOnce
<1>4. AttemptsOK'
  BY <1>1, <1>2 DEF JobInv, AttemptsOK, AtStep, Budget, Takeable
<1>5. \A t \in Executing' : PlaceOK(t)'
  BY <1>1, <1>2 DEF JobInv, PlaceOK, AtStep, Step
<1>6. NothingForgotten'
  BY <1>1, <1>2 DEF JobInv, NothingForgotten, AtStep, Step
<1>7. JobInv'
  BY <1>3, <1>4, <1>5, <1>6 DEF JobInv
<1> QED BY <1>1, <1>7, JobOnly

LEMMA ViabilityInvariant == Spec => []ViabilityInv
<1>1. Init => ViabilityInv
  BY ViabilityInitially
<1>2. ViabilityInv /\ [Next]_vars => ViabilityInv'
  <2> SUFFICES ASSUME ViabilityInv, [Next]_vars PROVE ViabilityInv'
    OBVIOUS
  <2>1. CASE UNCHANGED vars
    BY <2>1, ViabilityStays
  <2>2. CASE Next
    <3> SUFFICES ASSUME NEW t \in Ticks, Execute(t) PROVE ViabilityInv'
      BY <2>2 DEF Next
    <3>1. CASE Select(t)
      BY <3>1, SelectKeeps
    <3>2. CASE Claim(t)
      BY <3>2, ClaimKeeps
    <3>3. CASE LookUp(t)
      BY <3>3, LookUpKeeps
    <3>4. CASE Work(t)
      BY <3>4, WorkKeeps
    <3>5. CASE Record(t)
      BY <3>5, RecordKeeps
    <3>6. CASE Checkpoint(t)
      BY <3>6, CheckpointKeeps
    <3>7. CASE FinishSuccess(t)
      BY <3>7, FinishSuccessKeeps
    <3>8. CASE FinalizeIncident(t)
      BY <3>8, FinalizeIncidentKeeps
    <3>9. CASE Fail(t)
      BY <3>9, FailKeeps
    <3>10. CASE Crash(t)
      BY <3>10, CrashKeeps
    <3>11. CASE Send(t) /\ UNCHANGED jobVars
      BY <3>11, SendKeeps
    <3> QED BY <3>1, <3>2, <3>3, <3>4, <3>5, <3>6, <3>7, <3>8, <3>9, <3>10, <3>11 DEF Execute
  <2> QED BY <2>1, <2>2
<1> QED BY <1>1, <1>2, PTL DEF Spec

-----------------------------------------------------------------------------
(* Theorems.                                                               *)

\* With any number of ticks, attempts and failures, the metric of an attempt is counted once,
\* unless its sending was cut off or overlapped another one's (telemetry.ts:132-134).
THEOREM SignalsCountOnce == Spec => []SignalCountedOnce
<1>1. ViabilityInv => SignalCountedOnce
  BY DEF ViabilityInv
<1> QED BY <1>1, ViabilityInvariant, PTL

\* The audit row of a signal and what Datadog counted agree, whatever of the two submissions
\* and of the row's writes failed (telemetry.ts:254-256, 271-273).
THEOREM AuditIsHonest == Spec => []AuditMatchesDatadog
<1>1. ViabilityInv => AuditMatchesDatadog
  <2> SUFFICES ASSUME ViabilityInv, NEW k \in Keys
               PROVE  /\ emission[k].emitted => counted[k] > 0
                      /\ k \notin unsure /\ Sending(k) = {} /\ counted[k] > 0 => emission[k].emitted
    BY DEF AuditMatchesDatadog
  <2>1. emission[k].emitted => counted[k] > 0
    BY DEF ViabilityInv, SignalInv
  <2>2. k \notin unsure => counted[k] = 0 \/ emission[k].emitted \/ \E t \in Sending(k) : Unwritten(t)
    BY DEF ViabilityInv, SignalInv, RowOK
  <2> QED BY <2>1, <2>2
<1> QED BY <1>1, ViabilityInvariant, PTL

\* With any number of ticks that take the job up after each other's failures, a turn or a
\* tool call is done once more only for a result that was lost (agent.ts:85-91).
THEOREM WorkIsDoneOnce == Spec => []WorkDoneOnce
<1>1. ViabilityInv => WorkDoneOnce
  BY DEF ViabilityInv
<1> QED BY <1>1, ViabilityInvariant, PTL
=============================================================================
