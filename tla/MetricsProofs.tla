--------------------------- MODULE MetricsProofs ---------------------------
(***************************************************************************)
(* Proofs about the counters and their reports, for any number of hook     *)
(* threads and any bounds below the counters' modulus.                     *)
(***************************************************************************)
EXTENDS Metrics, FiniteSetTheorems, TLAPS

\* The threads at a hook of kind k, which may yet be counted as a success.
At(k) == {t \in Thread : hook[t] = k}

\* Every success and every hook that may become one has been counted as a hook.
CountedInv ==
    \A k \in Kind :
        /\ IsFiniteSet(At(k))
        /\ count[SuccessOf[k]] + Cardinality(At(k)) <= count[TotalOf[k]]

\* No counter of hooks wraps.
NoWrapInv == count["total_publish_req"] + count["total_play_req"] <= MaxHooks

\* The place of a total in the order of the loads.
Place == [publish |-> 1, play |-> 2]

\* What a pass has loaded as a total is still the total unless a hook came late.
FreshInv ==
    \A k \in Kind :
        pc = "load" /\ Place[k] <= loaded /\ k \notin late =>
            got[TotalOf[k]] = count[TotalOf[k]]

\* A pass, even an unfinished one, is no older than the report.
ReportInv == \A r \in snapshot, c \in Counter : r.count[c] <= got[c]

IInv == TypeOK /\ CountedInv /\ NoWrapInv /\ FreshInv /\ ReportInv /\ FailedInRange
-----------------------------------------------------------------------------
(* Names and arithmetic *)

\* Totals and successes are counters of their own.
LEMMA Names ==
  /\ \A k \in Kind : TotalOf[k] \in Counter /\ SuccessOf[k] \in Counter
  /\ \A k, m \in Kind : TotalOf[k] # SuccessOf[m]
  /\ \A k, m \in Kind : k # m => TotalOf[k] # TotalOf[m] /\ SuccessOf[k] # SuccessOf[m]
  /\ \A k \in Kind : TotalOf[k] \notin {"auth_failures", "tasks_cleaned"}
                     /\ SuccessOf[k] \notin {"auth_failures", "tasks_cleaned"}
BY DEF Kind, TotalOf, SuccessOf, Counter

\* The two totals.
LEMMA Totals ==
  ASSUME NEW k \in Kind
  PROVE  \/ k = "publish" /\ TotalOf[k] = "total_publish_req"
         \/ k = "play" /\ TotalOf[k] = "total_play_req"
BY DEF Kind, TotalOf

\* getMetrics loads six counters, the totals first.
LEMMA Order ==
  /\ Len(LoadOrder) = 6
  /\ \A n \in 1..6 : LoadOrder[n] \in Counter
  /\ \A k \in Kind, n \in 1..6 : LoadOrder[n] = TotalOf[k] <=> n = Place[k]
  /\ \A k \in Kind : Place[k] \in 1..2
<1>1. Len(LoadOrder) = 6
  BY DEF LoadOrder
<1>2. \A n \in 1..6 : LoadOrder[n] \in Counter
  BY DEF LoadOrder, Counter
<1>3. \A k \in Kind, n \in 1..6 : LoadOrder[n] = TotalOf[k] <=> n = Place[k]
  BY DEF LoadOrder, Kind, TotalOf, Place
<1>4. \A k \in Kind : Place[k] \in 1..2
  BY DEF Kind, Place
<1> QED
  BY <1>1, <1>2, <1>3, <1>4

\* Unsigned subtraction: it wraps only below zero.
LEMMA Unsigned ==
  ASSUME NEW x \in Nat, NEW y \in Nat, x < Modulus
  PROVE  (x - y) % Modulus \in 0..Modulus - 1 /\ (y <= x => (x - y) % Modulus = x - y)
<1>1. Modulus \in Nat /\ Modulus > 0
  BY BoundAssumption
<1>2. (x - y) % Modulus \in 0..Modulus - 1
  BY <1>1
<1>3. ASSUME y <= x PROVE (x - y) % Modulus = x - y
  <2>1. x - y \in Nat /\ x - y < Modulus
    BY <1>1, <1>3
  <2> QED
    BY <1>1, <2>1
<1> QED
  BY <1>2, <1>3

\* One counter goes up.
LEMMA Added ==
  ASSUME TypeOK, NEW c \in Counter, Add(c)
  PROVE  /\ count' \in [Counter -> Nat] /\ count'[c] = count[c] + 1
         /\ \A d \in Counter : d # c => count'[d] = count[d]
         /\ \A d \in Counter : count[d] <= count'[d] /\ got[d] <= count'[d]
BY DEF TypeOK, Add
-----------------------------------------------------------------------------
(* The scheduler's steps leave the collector and its report alone. *)

LEMMA CountStep ==
  ASSUME IInv, UNCHANGED <<pc, loaded, got, snapshot, stopReq>>,
         count' \in [Counter -> Nat], \A c \in Counter : got[c] <= count'[c],
         hook' \in [Thread -> Kind \cup {"none"}], late' \in SUBSET Kind,
         CountedInv', NoWrapInv', FreshInv'
  PROVE  IInv'
<1>1. TypeOK'
  BY DEF IInv, TypeOK
<1>2. ReportInv' /\ FailedInRange'
  BY DEF IInv, ReportInv, FailedInRange
<1> QED
  BY <1>1, <1>2 DEF IInv

\* A hook is counted, before it can succeed.
LEMMA HookStep == ASSUME IInv, NEW t \in Thread, NEW k \in Kind, OnHook(t, k) PROVE IInv'
<1>0. TypeOK /\ TotalOf[k] \in Counter /\ Add(TotalOf[k])
      /\ hook' \in [Thread -> Kind \cup {"none"}] /\ late' \in SUBSET Kind
  BY Names DEF IInv, OnHook, TypeOK
<1>1. CountedInv'
  <2> SUFFICES ASSUME NEW m \in Kind
               PROVE  /\ IsFiniteSet(At(m)')
                      /\ count'[SuccessOf[m]] + Cardinality(At(m)') <= count'[TotalOf[m]]
    BY DEF CountedInv
  <2>0. /\ IsFiniteSet(At(m)) /\ Cardinality(At(m)) \in Nat
        /\ count[SuccessOf[m]] + Cardinality(At(m)) <= count[TotalOf[m]]
        /\ count[SuccessOf[m]] \in Nat /\ count[TotalOf[m]] \in Nat
    BY <1>0, Names, FS_CardinalityType DEF IInv, CountedInv, TypeOK
  <2>1. count'[SuccessOf[m]] = count[SuccessOf[m]]
    BY <1>0, Names, Added
  <2>2. CASE At(m)' = At(m)
    <3>1. count[TotalOf[m]] <= count'[TotalOf[m]] /\ count'[TotalOf[m]] \in Nat
      BY <1>0, Names, Added
    <3> QED
      BY <2>0, <2>1, <2>2, <3>1
  <2>3. CASE At(m)' # At(m)
    <3>1. hook' = [hook EXCEPT ![t] = k] /\ hook[t] = "none"
      BY <2>3 DEF OnHook, At
    <3>2. m = k /\ t \notin At(m) /\ At(m)' = At(m) \cup {t}
      BY <1>0, <2>3, <3>1 DEF At, Kind, TypeOK
    <3>3. IsFiniteSet(At(m)') /\ Cardinality(At(m)') = Cardinality(At(m)) + 1
      BY <2>0, <3>2, FS_AddElement
    <3>4. count'[TotalOf[m]] = count[TotalOf[m]] + 1
      BY <1>0, <3>2, Added
    <3> QED
      BY <2>0, <2>1, <3>3, <3>4
  <2> QED
    BY <2>2, <2>3
<1>2. NoWrapInv'
  <2>1. count["total_publish_req"] + count["total_play_req"] < MaxHooks
    BY DEF OnHook
  <2>2. "total_publish_req" \in Counter /\ "total_play_req" \in Counter
    BY DEF Counter
  <2>3. count["total_publish_req"] \in Nat /\ count["total_play_req"] \in Nat
    BY <1>0, <2>2 DEF TypeOK
  <2>4. count'["total_publish_req"] + count'["total_play_req"]
          = count["total_publish_req"] + count["total_play_req"] + 1
    BY <1>0, <2>2, <2>3, Added, Totals
  <2> QED
    BY <2>1, <2>3, <2>4, BoundAssumption DEF NoWrapInv
<1>3. FreshInv'
  <2> SUFFICES ASSUME NEW m \in Kind, m \notin late', pc = "load", Place[m] <= loaded
               PROVE  got[TotalOf[m]] = count'[TotalOf[m]]
    BY DEF FreshInv, OnHook
  <2>1. m # k /\ m \notin late
    BY DEF OnHook
  <2> QED
    BY <1>0, <2>1, Names, Added DEF IInv, FreshInv
<1> QED
  BY <1>0, <1>1, <1>2, <1>3, Added, CountStep DEF OnHook

\* A counted hook ends, perhaps as a success.
LEMMA CallbackStep == ASSUME IInv, NEW t \in Thread, Callback(t) PROVE IInv'
<1> DEFINE k == hook[t]
<1>0. /\ TypeOK /\ k \in Kind /\ hook' = [hook EXCEPT ![t] = "none"]
      /\ hook' \in [Thread -> Kind \cup {"none"}] /\ late' = late /\ late \in SUBSET Kind
  BY DEF IInv, Callback, TypeOK
<1>1. /\ count' \in [Counter -> Nat]
      /\ \A c \in Counter : got[c] <= count'[c]
      /\ \A m \in Kind : count'[TotalOf[m]] = count[TotalOf[m]]
      /\ \A m \in Kind : m # k => count'[SuccessOf[m]] = count[SuccessOf[m]]
      /\ count'[SuccessOf[k]] \in {count[SuccessOf[k]], count[SuccessOf[k]] + 1}
  <2>1. CASE UNCHANGED count
    BY <1>0, <2>1 DEF TypeOK
  <2>2. CASE Add("auth_failures")
    <3>1. "auth_failures" \in Counter
      BY DEF Counter
    <3> QED
      BY <1>0, <2>2, <3>1, Names, Added
  <2>3. CASE Add(SuccessOf[k])
    BY <1>0, <2>3, Names, Added
  <2> QED
    BY <2>1, <2>2, <2>3 DEF Callback
<1>2. CountedInv'
  <2> SUFFICES ASSUME NEW m \in Kind
               PROVE  /\ IsFiniteSet(At(m)')
                      /\ count'[SuccessOf[m]] + Cardinality(At(m)') <= count'[TotalOf[m]]
    BY DEF CountedInv
  <2>0. /\ IsFiniteSet(At(m)) /\ Cardinality(At(m)) \in Nat
        /\ count[SuccessOf[m]] + Cardinality(At(m)) <= count[TotalOf[m]]
        /\ count[SuccessOf[m]] \in Nat /\ count[TotalOf[m]] \in Nat
    BY <1>0, Names, FS_CardinalityType DEF IInv, CountedInv, TypeOK
  <2>1. CASE m = k
    <3>1. t \in At(m) /\ At(m)' = At(m) \ {t}
      BY <1>0, <2>1 DEF At, TypeOK, Kind
    <3>2. IsFiniteSet(At(m)') /\ Cardinality(At(m)') = Cardinality(At(m)) - 1
      BY <2>0, <3>1, FS_RemoveElement
    <3> QED
      BY <1>1, <2>0, <2>1, <3>2
  <2>2. CASE m # k
    <3>1. At(m)' = At(m)
      BY <1>0, <2>2 DEF At, TypeOK, Kind
    <3> QED
      BY <1>1, <2>0, <2>2, <3>1
  <2> QED
    BY <2>1, <2>2
<1>3. NoWrapInv'
  BY <1>0, <1>1 DEF IInv, NoWrapInv, TotalOf, Kind
<1>4. FreshInv'
  BY <1>0, <1>1 DEF IInv, FreshInv, Callback
<1> QED
  BY <1>0, <1>1, <1>2, <1>3, <1>4, CountStep DEF Callback

\* The cleanup thread's counter is no one else's.
LEMMA CleanStep == ASSUME IInv, Clean PROVE IInv'
<1>0. /\ TypeOK /\ "tasks_cleaned" \in Counter /\ Add("tasks_cleaned")
      /\ UNCHANGED <<hook, late>>
  BY DEF IInv, Clean, Counter
<1>1. /\ count' \in [Counter -> Nat]
      /\ \A c \in Counter : got[c] <= count'[c]
      /\ \A m \in Kind : count'[TotalOf[m]] = count[TotalOf[m]]
      /\ \A m \in Kind : count'[SuccessOf[m]] = count[SuccessOf[m]]
  BY <1>0, Names, Added
<1>2. CountedInv'
  BY <1>0, <1>1 DEF IInv, CountedInv, At
<1>3. NoWrapInv'
  BY <1>1 DEF IInv, NoWrapInv, TotalOf, Kind
<1>4. FreshInv'
  BY <1>0, <1>1 DEF IInv, FreshInv, Clean
<1> QED
  BY <1>0, <1>1, <1>2, <1>3, <1>4, CountStep DEF Clean, IInv, TypeOK
-----------------------------------------------------------------------------
(* The collector's steps *)

\* A load brings the pass up to date with one counter.
LEMMA LoadStep == ASSUME IInv, Load PROVE IInv'
<1> DEFINE c == LoadOrder[loaded + 1]
<1>0. /\ TypeOK /\ pc = "load" /\ UNCHANGED <<count, hook, pc, snapshot, stopReq>>
      /\ loaded' = loaded + 1 /\ loaded + 1 \in 1..6 /\ c \in Counter
      /\ late' = late \ {k \in Kind : TotalOf[k] = c}
      /\ got' = [got EXCEPT ![c] = count[c]]
  BY Order DEF IInv, Load, TypeOK
<1>1. /\ got' \in [Counter -> Nat] /\ got'[c] = count[c]
      /\ \A d \in Counter : d # c => got'[d] = got[d]
      /\ \A d \in Counter : got[d] <= got'[d] /\ got'[d] <= count[d]
  BY <1>0 DEF TypeOK
<1>2. TypeOK'
  BY <1>0, <1>1, Order DEF TypeOK
<1>3. CountedInv' /\ NoWrapInv' /\ FailedInRange'
  BY <1>0 DEF IInv, CountedInv, NoWrapInv, FailedInRange, At
<1>4. FreshInv'
  <2> SUFFICES ASSUME NEW m \in Kind, m \notin late', Place[m] <= loaded + 1
               PROVE  got'[TotalOf[m]] = count[TotalOf[m]]
    BY <1>0 DEF FreshInv
  <2>1. CASE TotalOf[m] = c
    BY <1>1, <2>1
  <2>2. CASE TotalOf[m] # c
    <3>1. Place[m] # loaded + 1 /\ Place[m] \in Nat /\ m \notin late
      BY <1>0, <2>2, Order
    <3>2. Place[m] <= loaded
      BY <1>0, <3>1 DEF TypeOK
    <3> QED
      BY <1>0, <1>1, <2>2, <3>1, <3>2, Names DEF IInv, FreshInv
  <2> QED
    BY <2>1, <2>2
<1>5. ReportInv'
  <2> SUFFICES ASSUME NEW r \in snapshot, NEW d \in Counter PROVE r.count[d] <= got'[d]
    BY <1>0 DEF ReportInv
  <2>1. r.count[d] \in Nat /\ got[d] \in Nat /\ got'[d] \in Nat
    BY <1>0, <1>1 DEF TypeOK, Report
  <2> QED
    BY <1>1, <2>1 DEF IInv, ReportInv
<1> QED
  BY <1>2, <1>3, <1>4, <1>5 DEF IInv

\* What a finished pass shows: a total loaded with no late hook covers the successes.
LEMMA PassCovers ==
  ASSUME IInv, pc = "load", loaded = Len(LoadOrder), NEW k \in Kind, k \notin late
  PROVE  got[SuccessOf[k]] <= got[TotalOf[k]]
<1>1. got[TotalOf[k]] = count[TotalOf[k]]
  BY Order DEF IInv, FreshInv
<1>2. /\ got[SuccessOf[k]] <= count[SuccessOf[k]] /\ count[SuccessOf[k]] \in Nat
      /\ got[SuccessOf[k]] \in Nat /\ count[TotalOf[k]] \in Nat
  BY Names DEF IInv, TypeOK
<1>3. IsFiniteSet(At(k)) /\ Cardinality(At(k)) \in Nat
      /\ count[SuccessOf[k]] + Cardinality(At(k)) <= count[TotalOf[k]]
  BY FS_CardinalityType DEF IInv, CountedInv
<1> QED
  BY <1>1, <1>2, <1>3

\* The report is what the pass has loaded.
LEMMA UpdateStep == ASSUME IInv, UpdateSnapshot PROVE IInv'
<1> DEFINE s == [count |-> got, failed |-> [k \in Kind |-> Failed(k)], late |-> late]
<1>0. /\ TypeOK /\ pc = "load" /\ loaded = Len(LoadOrder) /\ pc' = "wait"
      /\ snapshot' = {s} /\ UNCHANGED <<count, hook, loaded, got, stopReq, late>>
  BY DEF IInv, UpdateSnapshot
<1>1. ASSUME NEW k \in Kind
      PROVE  /\ got[TotalOf[k]] \in Nat /\ got[SuccessOf[k]] \in Nat
             /\ got[TotalOf[k]] < Modulus
             /\ Failed(k) \in 0..Modulus - 1
             /\ got[SuccessOf[k]] <= got[TotalOf[k]] => Failed(k) <= got[TotalOf[k]]
  <2>1. /\ got[TotalOf[k]] \in Nat /\ got[SuccessOf[k]] \in Nat
        /\ count[TotalOf[k]] \in Nat /\ got[TotalOf[k]] <= count[TotalOf[k]]
    BY <1>0, Names DEF TypeOK
  <2>2. count[TotalOf[k]] <= MaxHooks
    <3>1. "total_publish_req" \in Counter /\ "total_play_req" \in Counter
      BY DEF Counter
    <3>2. count["total_publish_req"] \in Nat /\ count["total_play_req"] \in Nat
      BY <1>0, <3>1 DEF TypeOK
    <3> QED
      BY <3>2, Totals, BoundAssumption DEF IInv, NoWrapInv
  <2>3. got[TotalOf[k]] < Modulus
    BY <2>1, <2>2, BoundAssumption
  <2>4. /\ Failed(k) \in 0..Modulus - 1
        /\ got[SuccessOf[k]] <= got[TotalOf[k]] =>
             Failed(k) = got[TotalOf[k]] - got[SuccessOf[k]]
    BY <2>1, <2>3, Unsigned DEF Failed
  <2> QED
    BY <2>1, <2>3, <2>4
<1>2. s \in Report
  <2>1. [k \in Kind |-> Failed(k)] \in [Kind -> 0..Modulus - 1]
    BY <1>1
  <2> QED
    BY <1>0, <2>1 DEF Report, TypeOK
<1>3. s.count = got /\ s.late = late /\ \A k \in Kind : s.failed[k] = Failed(k)
  OBVIOUS
<1> HIDE DEF s
<1>4. TypeOK'
  BY <1>0, <1>2 DEF TypeOK
<1>5. CountedInv' /\ NoWrapInv'
  BY <1>0 DEF IInv, CountedInv, NoWrapInv, At
<1>6. FreshInv'
  BY <1>0 DEF FreshInv
<1>7. ReportInv'
  BY <1>0, <1>3 DEF ReportInv, TypeOK
<1>8. FailedInRange'
  <2> SUFFICES ASSUME NEW k \in Kind
               PROVE  \/ Failed(k) <= got[TotalOf[k]]
                      \/ k \in late /\ got[TotalOf[k]] < got[SuccessOf[k]]
    BY <1>0, <1>3 DEF FailedInRange
  <2> QED
    BY <1>0, <1>1, PassCovers
<1> QED
  BY <1>4, <1>5, <1>6, <1>7, <1>8 DEF IInv

\* The steps between two passes, and stop().
LEMMA RestStep == ASSUME IInv, Loop \/ Wake \/ Interrupt \/ Stop \/ UNCHANGED vars PROVE IInv'
<1>1. UNCHANGED <<count, hook, got, snapshot>> /\ TypeOK
  BY DEF Loop, Wake, Interrupt, Stop, vars, IInv
<1>2. TypeOK'
  <2>1. /\ pc' \in {"loop", "load", "wait", "returned"} /\ loaded' \in 0..Len(LoadOrder)
        /\ stopReq' \in BOOLEAN /\ late' \in SUBSET Kind
    <3>1. CASE Loop
      BY <1>1, <3>1, Order DEF TypeOK, Loop
    <3>2. CASE Wake \/ Interrupt \/ Stop \/ UNCHANGED vars
      BY <1>1, <3>2 DEF TypeOK, Wake, Interrupt, Stop, vars
    <3> QED
      BY <3>1, <3>2
  <2> QED
    BY <1>1, <2>1 DEF TypeOK
<1>3. CountedInv' /\ NoWrapInv' /\ ReportInv' /\ FailedInRange'
  BY <1>1 DEF IInv, CountedInv, NoWrapInv, ReportInv, FailedInRange, At
<1>4. FreshInv'
  <2>1. CASE Loop
    BY <2>1, Order DEF FreshInv, Loop
  <2>2. CASE Wake \/ Interrupt
    BY <2>2 DEF FreshInv, Wake, Interrupt
  <2>3. CASE Stop \/ UNCHANGED vars
    BY <2>3 DEF IInv, FreshInv, Stop, vars
  <2> QED
    BY <2>1, <2>2, <2>3
<1> QED
  BY <1>2, <1>3, <1>4 DEF IInv
-----------------------------------------------------------------------------
(* The theorems *)

\* The invariant holds before the first hook.
LEMMA InitInv == Init => IInv
<1> SUFFICES ASSUME Init PROVE IInv
  OBVIOUS
<1>1. \A c \in Counter : count[c] = 0 /\ got[c] = 0
  BY DEF Init, Zero
<1>2. TypeOK
  <2>1. count \in [Counter -> Nat] /\ got \in [Counter -> Nat]
    BY DEF Init, Zero
  <2>2. /\ hook \in [Thread -> Kind \cup {"none"}] /\ pc = "loop" /\ loaded \in 0..6
        /\ snapshot = {} /\ stopReq = FALSE /\ late = {}
    BY DEF Init
  <2>3. /\ snapshot \in {{}} \cup {{r} : r \in snapshot} /\ snapshot \subseteq Report
        /\ late \in SUBSET Kind /\ stopReq \in BOOLEAN
    BY <2>2, Zenon
  <2>4. loaded \in 0..Len(LoadOrder) /\ \A c \in Counter : got[c] <= count[c]
    BY <1>1, <2>2, Order
  <2> QED
    BY <2>1, <2>2, <2>3, <2>4 DEF TypeOK
<1>3. CountedInv
  <2>1. \A k \in Kind : At(k) = {}
    BY DEF Init, At, Kind
  <2> QED
    BY <1>1, <2>1, Names, FS_EmptySet DEF CountedInv
<1>4. NoWrapInv
  BY <1>1, BoundAssumption DEF NoWrapInv, Counter
<1> QED
  BY <1>2, <1>3, <1>4 DEF IInv, Init, FreshInv, ReportInv, FailedInRange

\* Every step of the hooks, the cleanup thread, the collector and stop() keeps it.
LEMMA StepInv == IInv /\ [Next]_vars => IInv'
BY HookStep, CallbackStep, CleanStep, LoadStep, UpdateStep, RestStep
   DEF Next, Collector, Stopped

LEMMA Inductive == Spec => []IInv
BY InitInv, StepInv, PTL DEF Spec

\* The variables keep their types, and no pass of the collector loads more than the
\* scheduler has counted.
THEOREM TypeCorrect == Spec => []TypeOK
<1>1. IInv => TypeOK
  BY DEF IInv
<1> QED
  BY <1>1, Inductive, PTL

\* A report shows no more failed hooks than hooks unless a hook came after the pass
\* had loaded the total and was admitted before it loaded the successes.
THEOREM FailedInRangeAlways == Spec => []FailedInRange
<1>1. IInv => FailedInRange
  BY DEF IInv
<1> QED
  BY <1>1, Inductive, PTL

\* GET /metrics never shows a lower counter than before.
THEOREM ReportsAdvanceAlways == Spec => ReportsAdvance
<1> DEFINE Advance == \A r \in snapshot :
                        \E s \in snapshot' : \A c \in Counter : r.count[c] <= s.count[c]
<1>1. IInv /\ [Next]_vars => Advance
  <2> SUFFICES ASSUME IInv, [Next]_vars, NEW r \in snapshot
               PROVE  \E s \in snapshot' : \A c \in Counter : r.count[c] <= s.count[c]
    OBVIOUS
  <2>1. CASE snapshot' = snapshot
    <3>1. \A c \in Counter : r.count[c] <= r.count[c]
      BY DEF IInv, TypeOK, Report
    <3> QED
      BY <2>1, <3>1
  <2>2. CASE UpdateSnapshot
    <3>1. \E s \in snapshot' : s.count = got
      BY <2>2 DEF UpdateSnapshot
    <3> QED
      BY <3>1 DEF IInv, ReportInv
  <2>3. snapshot' = snapshot \/ UpdateSnapshot
    BY DEF Next, Collector, Callback, OnHook, Clean, Loop, Load, Wake, Interrupt,
           Stop, Stopped, vars
  <2> QED
    BY <2>1, <2>2, <2>3
<1> QED
  BY <1>1, Inductive, PTL DEF Spec, ReportsAdvance
=============================================================================
