------------------------------ MODULE Exchange ------------------------------
(***************************************************************************)
(* The life of the exchange process (exchange/app): main() and             *)
(* Exchange::run, the start of the server's and the engine's threads, the  *)
(* stop flag and the notification the main thread waits for, failures of   *)
(* the set-up, and the destruction of the members, which joins the threads.*)
(*                                                                         *)
(* What the threads do while they run is in modules Engine and Server.     *)
(* Here a thread runs, may fail, leaves its loop once it sees the flag,    *)
(* and must not touch an object that is already destroyed: the behaviour   *)
(* is then undefined, and the process may crash or get away with it.       *)
(***************************************************************************)
EXTENDS Integers

CONSTANTS
    SampleCount,    \* LATENCY_SAMPLE_COUNT, slots of the latency recorder
    SampleDrop      \* LATENCY_SAMPLE_DROP, samples the report leaves out

ASSUME SampleAssumption == SampleCount \in Nat /\ SampleDrop \in 0 .. SampleCount

Threads == {"inbound", "outbound", "matching"}

VARIABLES
    main,       \* where the main thread is
    thread,     \* "none" yet, "setup" (the inbound thread only), "running", "done"
    stop,       \* Exchange::stop_
    handler,    \* a signal handler has stored the flag and not yet notified
    handled,    \* history: Exchange::stop has run
    destroyed,  \* objects whose lifetime is over
    samples,    \* LatencyHandler::count_
    report      \* samples in the report, -1 before it is printed

vars == <<main, thread, stop, handler, handled, destroyed, samples, report>>

\* "blocked" is inside stop_.wait(false), after it has seen the flag down.
MainLoc == {"construct", "server_run", "engine_run", "wait", "blocked", "destroy",
            "join_outbound", "join_inbound", "join_matching", "rings", "statics",
            "exited", "killed", "crashed"}
Over    == {"exited", "killed", "crashed"}

\* The objects each thread uses as long as it runs.
Uses(t) == {"rings"} \cup
    CASE t = "inbound"  -> {"server"}
      [] t = "outbound" -> {"server", "latency"}
      [] t = "matching" -> {"book"}

Quiet(t) == thread[t] \in {"none", "done"}

Init ==
    /\ main = "construct"
    /\ thread = [t \in Threads |-> "none"]
    /\ stop = FALSE
    /\ handler = FALSE /\ handled = FALSE
    /\ destroyed = {}
    /\ samples = 0 /\ report = -1

-----------------------------------------------------------------------------
(* Signals                                                                 *)

\* Before main() has installed Exchange::stop a signal ends the process.
Kill ==
    /\ main = "construct"
    /\ main' = "killed"
    /\ UNCHANGED <<thread, stop, handler, handled, destroyed, samples, report>>

\* Exchange::stop on SIGINT or SIGTERM: stop_.store(true) ...
Signal ==
    /\ main \notin Over \cup {"construct"}
    /\ ~handler
    /\ stop' = TRUE
    /\ handler' = TRUE /\ handled' = TRUE
    /\ UNCHANGED <<main, thread, destroyed, samples, report>>

\* Mutant: nobody is woken.
NotifyNobody ==
    /\ handler
    /\ handler' = FALSE
    /\ UNCHANGED <<main, thread, stop, handled, destroyed, samples, report>>

\* ... and stop_.notify_all().
Notify ==
    /\ handler
    /\ handler' = FALSE
    /\ main' = IF main = "blocked" THEN "wait" ELSE main
    /\ UNCHANGED <<thread, stop, handled, destroyed, samples, report>>

-----------------------------------------------------------------------------
(* The main thread                                                         *)

Goto(from, to) == main = from /\ main' = to

InstallHandlers ==
    /\ Goto("construct", "server_run")
    /\ UNCHANGED <<thread, stop, handler, handled, destroyed, samples, report>>

\* Server::run: when setupEpoll fails it returns, and there are no threads.
ServerRun ==
    /\ Goto("server_run", "engine_run")
    /\ \/ thread' = [thread EXCEPT !["inbound"] = "setup", !["outbound"] = "running"]
       \/ UNCHANGED thread
    /\ UNCHANGED <<stop, handler, handled, destroyed, samples, report>>

EngineRun ==
    /\ Goto("engine_run", "wait")
    /\ thread' = [thread EXCEPT !["matching"] = "running"]
    /\ UNCHANGED <<stop, handler, handled, destroyed, samples, report>>

\* stop_.wait(false) looks at the flag, and sleeps while it is down.
Wait ==
    /\ main = "wait"
    /\ main' = IF stop THEN "destroy" ELSE "blocked"
    /\ UNCHANGED <<thread, stop, handler, handled, destroyed, samples, report>>

\* Mutant: the rings are declared last.
DestroyServerAndRings ==
    /\ Goto("destroy", "join_outbound")
    /\ destroyed' = destroyed \cup {"server", "rings"}
    /\ UNCHANGED <<thread, stop, handler, handled, samples, report>>

\* ~Server closes the epoll descriptors; then the members go, the last one
\* first: everything the threads use is gone before the threads, which are
\* declared first, are joined.
DestroyServer ==
    /\ Goto("destroy", "join_outbound")
    /\ destroyed' = destroyed \cup {"server"}
    /\ UNCHANGED <<thread, stop, handler, handled, samples, report>>

JoinOutbound ==
    /\ Goto("join_outbound", "join_inbound")
    /\ Quiet("outbound")
    /\ UNCHANGED <<thread, stop, handler, handled, destroyed, samples, report>>

\* The server is gone; ~Engine destroys the book before it joins its thread.
JoinInbound ==
    /\ Goto("join_inbound", "join_matching")
    /\ Quiet("inbound")
    /\ destroyed' = destroyed \cup {"book"}
    /\ UNCHANGED <<thread, stop, handler, handled, samples, report>>

JoinMatching ==
    /\ Goto("join_matching", "rings")
    /\ Quiet("matching")
    /\ UNCHANGED <<thread, stop, handler, handled, destroyed, samples, report>>

DestroyRings ==
    /\ Goto("rings", "statics")
    /\ destroyed' = destroyed \cup {"rings"}
    /\ UNCHANGED <<thread, stop, handler, handled, samples, report>>

\* ~LatencyHandler reports all samples but the first ones.
DestroyStatics ==
    /\ Goto("statics", "exited")
    /\ destroyed' = destroyed \cup {"latency"}
    /\ report' = IF samples > SampleDrop THEN samples - SampleDrop ELSE 0
    /\ UNCHANGED <<thread, stop, handler, handled, samples>>

Main ==
    \/ InstallHandlers \/ ServerRun \/ EngineRun \/ Wait
    \/ DestroyServer \/ JoinOutbound \/ JoinInbound \/ JoinMatching
    \/ DestroyRings \/ DestroyStatics

-----------------------------------------------------------------------------
(* The other threads                                                       *)

\* handleRequests first sets up the listening socket.
SetUp ==
    /\ main \notin Over
    /\ thread["inbound"] = "setup"
    /\ thread' = [thread EXCEPT !["inbound"] = "running"]
    /\ UNCHANGED <<main, stop, handler, handled, destroyed, samples, report>>

\* The set-up fails, or epoll_wait does: the flag is stored, nobody is notified.
InboundFails ==
    /\ main \notin Over
    /\ thread["inbound"] \in {"setup", "running"}
    /\ thread' = [thread EXCEPT !["inbound"] = "done"]
    /\ stop' = TRUE
    /\ UNCHANGED <<main, handler, handled, destroyed, samples, report>>

\* epoll_wait fails in serveResponses: the thread returns, the flag stays down.
OutboundFails ==
    /\ main \notin Over
    /\ thread["outbound"] = "running"
    /\ thread' = [thread EXCEPT !["outbound"] = "done"]
    /\ UNCHANGED <<main, stop, handler, handled, destroyed, samples, report>>

\* The condition of the thread's loop.
Leave(t) ==
    /\ main \notin Over
    /\ thread[t] = "running" /\ stop
    /\ thread' = [thread EXCEPT ![t] = "done"]
    /\ UNCHANGED <<main, stop, handler, handled, destroyed, samples, report>>

\* Mutant: one sample too many.
PushSampleUnguarded ==
    /\ main \notin Over
    /\ thread["outbound"] = "running"
    /\ samples <= SampleCount
    /\ samples' = samples + 1
    /\ UNCHANGED <<main, thread, stop, handler, handled, destroyed, report>>

\* finishBatch: push_sample, which ignores what does not fit.
PushSample ==
    /\ main \notin Over
    /\ thread["outbound"] = "running"
    /\ samples < SampleCount
    /\ samples' = samples + 1
    /\ UNCHANGED <<main, thread, stop, handler, handled, destroyed, report>>

\* A thread in the middle of its loop meets a destroyed object.
Crash(t) ==
    /\ main \notin Over
    /\ thread[t] = "running" /\ Uses(t) \cap destroyed # {}
    /\ main' = "crashed"
    /\ UNCHANGED <<thread, stop, handler, handled, destroyed, samples, report>>

Next ==
    \/ Kill \/ Signal \/ Notify
    \/ Main
    \/ SetUp \/ InboundFails \/ OutboundFails \/ PushSample
    \/ \E t \in Threads : Leave(t) \/ Crash(t)

\* Every thread gets the processor, the handler returns and the set-up ends.
\* Nobody is obliged to send a signal, and nothing has to fail.
Spec ==
    /\ Init /\ [][Next]_vars
    /\ WF_vars(Main) /\ WF_vars(Notify)
    /\ WF_vars(SetUp \/ InboundFails)
    /\ \A t \in Threads : WF_vars(Leave(t))

-----------------------------------------------------------------------------
(* Properties                                                              *)

\* Every variable holds a value of its type, and the recorder never counts past
\* its last slot (latency.hpp:108).
ExchangeTypeOK ==
    /\ main \in MainLoc
    /\ thread \in [Threads -> {"none", "setup", "running", "done"}]
    /\ {stop, handler, handled} \subseteq BOOLEAN
    /\ destroyed \subseteq {"server", "book", "rings", "latency"}
    /\ samples \in 0 .. SampleCount
    /\ report \in -1 .. SampleCount

\* The rings and the latency recorder, which several threads share, outlive all
\* of them, however the process is brought down: after a signal at any moment of
\* the start, a failed set-up, or a thread that ended early.
SharedOutlivesThreads ==
    destroyed \cap {"rings", "latency"} # {} => \A t \in Threads : Quiet(t)

\* A signal that is handled ends the process, also when the set-up has failed
\* and left the flag up without a notification, or a thread is gone already; and
\* whoever raised the flag, every thread leaves its loop, so no join waits for ever.
SignalEnds ==
    /\ handled ~> main \in Over
    /\ stop ~> main \in Over \/ \A t \in Threads : Quiet(t)
=============================================================================
