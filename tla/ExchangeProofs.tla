--------------------------- MODULE ExchangeProofs ---------------------------
(***************************************************************************)
(* Proofs about Exchange, for every size of the latency recorder.          *)
(***************************************************************************)
EXTENDS Exchange, TLAPS

\* A thread that the main thread has joined stays quiet: threads are only
\* started long before.
JoinedAreQuiet ==
    /\ main \in {"join_inbound", "join_matching", "rings", "statics", "exited"}
           => Quiet("outbound")
    /\ main \in {"join_matching", "rings", "statics", "exited"} => Quiet("inbound")
    /\ main \in {"rings", "statics", "exited"} => Quiet("matching")

\* The shared objects are destroyed by the last two steps of the main thread.
SharedGoLast ==
    destroyed \cap {"rings", "latency"} # {} => main \in {"statics", "exited"}

\* That the shared objects outlive the threads is not inductive: it takes the
\* place of the main thread, and what it has joined on its way there.
ExchangeIInv == ExchangeTypeOK /\ JoinedAreQuiet /\ SharedGoLast

\* The invariant holds in every reachable state, whatever signals and failures
\* come and whenever they do.
THEOREM ExchangeInvariant == Spec => []ExchangeIInv
<1> USE SampleAssumption
<1>1. Init => ExchangeIInv
  <2> SUFFICES ASSUME Init PROVE ExchangeIInv
    OBVIOUS
  <2>1. ExchangeTypeOK
    <3>1. {stop, handler, handled} \subseteq BOOLEAN
      BY Zenon DEF Init
    <3> QED BY <3>1 DEF Init, ExchangeTypeOK, MainLoc
  <2> QED BY <2>1 DEF Init, ExchangeIInv, JoinedAreQuiet, SharedGoLast
<1>2. ExchangeIInv /\ [Next]_vars => ExchangeIInv'
  <2> SUFFICES ASSUME ExchangeIInv, [Next]_vars PROVE ExchangeIInv'
    OBVIOUS
  <2> USE DEF ExchangeIInv, JoinedAreQuiet, SharedGoLast, Quiet
  <2>1. CASE Kill
    BY <2>1 DEF Kill, ExchangeTypeOK, MainLoc
  <2>2. CASE Signal
    BY <2>2 DEF Signal, ExchangeTypeOK
  <2>3. CASE Notify
    BY <2>3 DEF Notify, ExchangeTypeOK, MainLoc
  <2>4. CASE Main
    <3>1. CASE InstallHandlers
      BY <3>1 DEF InstallHandlers, Goto, ExchangeTypeOK, MainLoc
    <3>2. CASE ServerRun
      BY <3>2 DEF ServerRun, Goto, ExchangeTypeOK, MainLoc
    <3>3. CASE EngineRun
      BY <3>3 DEF EngineRun, Goto, ExchangeTypeOK, MainLoc
    <3>4. CASE Wait
      BY <3>4 DEF Wait, ExchangeTypeOK, MainLoc
    <3>5. CASE DestroyServer
      BY <3>5 DEF DestroyServer, Goto, ExchangeTypeOK, MainLoc
    <3>6. CASE JoinOutbound
      BY <3>6 DEF JoinOutbound, Goto, ExchangeTypeOK, MainLoc
    <3>7. CASE JoinInbound
      BY <3>7 DEF JoinInbound, Goto, ExchangeTypeOK, MainLoc
    <3>8. CASE JoinMatching
      BY <3>8 DEF JoinMatching, Goto, ExchangeTypeOK, MainLoc
    <3>9. CASE DestroyRings
      BY <3>9 DEF DestroyRings, Goto, ExchangeTypeOK, MainLoc
    <3>10. CASE DestroyStatics
      BY <3>10 DEF DestroyStatics, Goto, ExchangeTypeOK, MainLoc
    <3> QED BY <2>4, <3>1, <3>2, <3>3, <3>4, <3>5, <3>6, <3>7, <3>8, <3>9, <3>10 DEF Main
  <2>5. CASE SetUp
    BY <2>5 DEF SetUp, ExchangeTypeOK, Threads
  <2>6. CASE InboundFails
    BY <2>6 DEF InboundFails, ExchangeTypeOK, Threads
  <2>7. CASE OutboundFails
    BY <2>7 DEF OutboundFails, ExchangeTypeOK
  <2>8. CASE PushSample
    BY <2>8 DEF PushSample, ExchangeTypeOK
  <2>9. ASSUME NEW t \in Threads, Leave(t) PROVE ExchangeIInv'
    BY <2>9 DEF Leave, ExchangeTypeOK, Threads
  <2>10. ASSUME NEW t \in Threads, Crash(t) PROVE ExchangeIInv'
    BY <2>10 DEF Crash, ExchangeTypeOK, MainLoc, Over, Threads
  <2>11. CASE UNCHANGED vars
    BY <2>11 DEF vars, ExchangeTypeOK
  <2> QED BY <2>1, <2>2, <2>3, <2>4, <2>5, <2>6, <2>7, <2>8, <2>9, <2>10, <2>11 DEF Next
<1> QED BY <1>1, <1>2, PTL DEF Spec

\* Every variable of the process keeps its type, and the latency recorder is
\* never written past its last slot, for every size of it.
THEOREM ExchangeTypeCorrect == Spec => []ExchangeTypeOK
<1>1. ExchangeIInv => ExchangeTypeOK
  BY DEF ExchangeIInv
<1> QED BY <1>1, ExchangeInvariant, PTL

\* The rings and the recorder outlive every thread that uses them, however the
\* process is brought down.
THEOREM SharedOutlives == Spec => []SharedOutlivesThreads
<1>1. ExchangeIInv => SharedOutlivesThreads
  BY DEF ExchangeIInv, JoinedAreQuiet, SharedGoLast, SharedOutlivesThreads, Threads
<1> QED BY <1>1, ExchangeInvariant, PTL
=============================================================================
