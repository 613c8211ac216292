------------------------ MODULE TrafficReport_proofs ------------------------
(***************************************************************************)
(* Proofs about TrafficReport, for all bounds, chunks and faults.          *)
(***************************************************************************)
EXTENDS TrafficReport, TLAPS

\* The initial state satisfies the inductive invariant.
LEMMA InitIInv == Init => IInv
<1> SUFFICES ASSUME Init PROVE IInv
  OBVIOUS
<1>1. updated \in BOOLEAN /\ events \in BOOLEAN /\ applied \in BOOLEAN
  BY Zenon DEF Init
<1> QED
  BY <1>1, BoundsAssumption, SMT DEF Init, IInv, TypeOK, NoUnderflow, Balance

\* Handlers of connections, and the life of the service, change neither what observeStats
\* has read nor what the panel has; Add adds to the counter and to the bytes carried.
LEMMA ConnectionsKeepIInv ==
  ASSUME IInv, Accept \/ Finish \/ Flag \/ Close \/ ServeReturns \/ \E n \in Chunks : Add(n)
  PROVE  IInv'
<1> USE BoundsAssumption DEF stats, panel
<1>1. CASE Accept
  BY <1>1, SMT DEF Accept, IInv, TypeOK, NoUnderflow, Balance
<1>2. CASE Finish
  BY <1>2, SMT DEF Finish, IInv, TypeOK, NoUnderflow, Balance
<1>3. CASE Flag
  BY <1>3, SMT DEF Flag, IInv, TypeOK, NoUnderflow, Balance
<1>4. CASE Close
  BY <1>4, SMT DEF Close, IInv, TypeOK, NoUnderflow, Balance
<1>5. CASE ServeReturns
  BY <1>5, SMT DEF ServeReturns, IInv, TypeOK, NoUnderflow, Balance
<1>6. ASSUME NEW n \in Chunks, Add(n)
      PROVE  IInv'
  <2>1. n \in Nat
    OBVIOUS
  <2> QED
    BY <1>6, <2>1, SMT DEF Add, IInv, TypeOK, NoUnderflow, Balance
<1> QED
  BY <1>1, <1>2, <1>3, <1>4, <1>5, <1>6

\* observeStats: the bytes reported leave the counter once they are billed.
LEMMA ReporterKeepsIInv ==
  ASSUME IInv, Reporter \/ Stop
  PROVE  IInv'
<1> USE BoundsAssumption DEF stats, panel
<1>1. CASE Flush
  <2>1. events' \in BOOLEAN
    BY <1>1, Zenon DEF Flush, Observed
  <2> QED
    BY <1>1, <2>1, SMT DEF Flush, IInv, TypeOK, NoUnderflow, Balance
<1>2. CASE Tick
  <2>1. updated' \in BOOLEAN
    BY <1>2, Zenon DEF Tick
  <2> QED
    BY <1>2, <2>1, SMT DEF Tick, IInv, TypeOK, NoUnderflow, Balance
<1>3. CASE Read
  <2>1. CASE counter = 0
    BY <1>3, <2>1, SMT DEF Read, IInv, TypeOK, NoUnderflow, Balance
  <2>2. CASE counter # 0
    <3>1. applied' \in BOOLEAN
      BY <1>3, <2>2, Zenon DEF Read
    <3> QED
      BY <1>3, <2>2, <3>1, SMT DEF Read, IInv, TypeOK, NoUnderflow, Balance
  <2> QED
    BY <2>1, <2>2
<1>4. CASE Rest
  BY <1>4, SMT DEF Rest, IInv, TypeOK, NoUnderflow, Balance
<1>5. CASE Store
  BY <1>5, SMT DEF Store, IInv, TypeOK, NoUnderflow, Balance
<1>6. CASE Observe
  <2>1. events' \in BOOLEAN
    BY <1>6, Zenon DEF Observe, Observed
  <2> QED
    BY <1>6, <2>1, SMT DEF Observe, IInv, TypeOK, NoUnderflow, Balance
<1>7. CASE Stop
  BY <1>7, SMT DEF Stop, IInv, TypeOK, NoUnderflow, Balance
<1> QED
  BY <1>1, <1>2, <1>3, <1>4, <1>5, <1>6, <1>7 DEF Reporter

\* The panel and the network: a report given up moves from the balance to the doubts.
LEMMA PanelKeepsIInv ==
  ASSUME IInv, Apply \/ Answer \/ GiveUp \/ \E k \in 1..MaxReports : LateApply(k)
  PROVE  IInv'
<1> USE BoundsAssumption DEF stats, panel
<1>1. CASE Apply
  BY <1>1, SMT DEF Apply, IInv, TypeOK, NoUnderflow, Balance
<1>2. CASE Answer
  BY <1>2, SMT DEF Answer, IInv, TypeOK, NoUnderflow, Balance
<1>3. CASE GiveUp
  <2>1. late' \in [1..MaxReports -> Nat]
    BY <1>3, SMT DEF GiveUp, IInv, TypeOK
  <2>2. CASE applied
    BY <1>3, <2>1, <2>2, SMT DEF GiveUp, IInv, TypeOK, NoUnderflow, Balance
  <2>3. CASE ~applied
    BY <1>3, <2>1, <2>3, SMT DEF GiveUp, IInv, TypeOK, NoUnderflow, Balance
  <2> QED
    BY <2>2, <2>3
<1>4. ASSUME NEW k \in 1..MaxReports, LateApply(k)
      PROVE  IInv'
  <2>1. late[k] \in Nat /\ late' \in [1..MaxReports -> Nat]
    BY <1>4, SMT DEF LateApply, IInv, TypeOK
  <2> QED
    BY <1>4, <2>1, SMT DEF LateApply, IInv, TypeOK, NoUnderflow, Balance
<1> QED
  BY <1>1, <1>2, <1>3, <1>4

\* IInv is an invariant of the specification.
THEOREM Inductive == Spec => []IInv
<1>1. IInv /\ UNCHANGED vars => IInv'
  BY SMT DEF vars, stats, panel, IInv, TypeOK, NoUnderflow, Balance
<1>2. IInv /\ [Next]_vars => IInv'
  BY <1>1, ConnectionsKeepIInv, ReporterKeepsIInv, PanelKeepsIInv DEF Next
<1> QED
  BY InitIInv, <1>2, PTL DEF Spec

\* Type correctness of the counter, the reports and the bill.
THEOREM TypeCorrect == Spec => []TypeOK
<1>1. IInv => TypeOK
  BY DEF IInv
<1> QED
  BY <1>1, Inductive, PTL

\* ResetTraffic never stores a difference that has wrapped around.
THEOREM UnderflowNever == Spec => []NoUnderflow
<1>1. IInv => NoUnderflow
  BY DEF IInv
<1> QED
  BY <1>1, Inductive, PTL

\* The panel bills no byte twice, unless the answer to a report got lost.
THEOREM OverbilledNever == Spec => []NeverOverbilled
<1>1. IInv => NeverOverbilled
  BY SMT DEF IInv, TypeOK, NoUnderflow, Balance, NeverOverbilled
<1> QED
  BY <1>1, Inductive, PTL
=============================================================================
