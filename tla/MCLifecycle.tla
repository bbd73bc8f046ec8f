---------------------------- MODULE MCLifecycle -----------------------------
(***************************************************************************)
(* Lifecycle for TLC: a listener main started and one a reload added, with *)
(* the time since the former was told to stop.                             *)
(***************************************************************************)
EXTENDS Lifecycle

CONSTANTS l1, l2

MCListener == {l1, l2}
MCTracked == {l1}

VARIABLE told  \* ticks since a joined listener was told to stop, up to DrainTimeout

mcVars == <<vars, told>>

Told(l) == shutdown \/ l \in stop

NextTold(l) ==
    IF ~Told(l) \/ loop[l] = "gone" THEN 0
    ELSE IF Tick /\ told[l] < DrainTimeout THEN told[l] + 1
    ELSE told[l]

MCInit == Init /\ told = [l \in Tracked |-> 0]

MCNext == Next /\ told' = [l \in Tracked |-> NextTold(l)]

MCSpec == MCInit /\ [][MCNext]_mcVars /\ Fairness

\* What a client with a connection is granted once its listener is told to
\* stop: DRAIN_TIMEOUT, or graceful-drain-timeout in an upgrade that asks for
\* less.
Granted ==
    IF via_upgrade /\ graceful_drain_timeout # 0 /\ graceful_drain_timeout < DrainTimeout
    THEN graceful_drain_timeout ELSE DrainTimeout

\* manual.md:69: "in-flight requests are given up to 30 seconds to complete
\* before the process exits".  No connection of a listener that main joins is
\* cut earlier than that, measured from the signal and not by the timers the
\* code sets, however an upgrade, a SIGTERM and waits for a permit overlap.
\* It is not so for a listener that a reload added: main does not join it, and
\* its connections are cut when the joined ones are done and the process exits.
DrainIsGranted ==
    [][\A c \in Conn :
          /\ conn[c].st = "open" /\ conn[c].at \in Tracked
          /\ conn'[c].st \in {"aborted", "killed"}
          => told[conn[c].at] >= Granted]_mcVars
=============================================================================
