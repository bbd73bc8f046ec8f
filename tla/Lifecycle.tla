----------------------------- MODULE Lifecycle ------------------------------
(***************************************************************************)
(* The life of a server process after startup: the accept loops and their  *)
(* connections (src/src/listener/http.rs, src/src/listener.rs), shutdown   *)
(* on SIGTERM or SIGINT (src/src/main.rs) and the binary upgrade on        *)
(* SIGUSR2, in which a child inherits the listening sockets and takes over *)
(* (src/src/reload/lifecycle.rs, src/src/inherit.rs).                      *)
(*                                                                         *)
(* Times are ticks; each running timer is kept as the time left, and Off   *)
(* when it does not run.  A timer that has reached zero is handled before  *)
(* time goes on.                                                           *)
(***************************************************************************)
EXTENDS Integers, FiniteSets

CONSTANTS
    Listener,        \* accept loops
    Tracked,         \* those main started itself and joins at the end
    Conn,            \* client connections
    MaxConns,        \* max-connections of a listener, or NoLimit
    NoLimit,
    Child,           \* upgrade attempts
    DrainTimeout,    \* DRAIN_TIMEOUT of a listener
    ShutdownDrain,   \* main's drain limit after SIGTERM
    GracefulDrains,  \* values of graceful-drain-timeout, 0 waits for ever
    LameDuck,        \* lame-duck-timeout
    StartupTimeout,  \* upgrade-startup-timeout
    None

ASSUME LifecycleAssumption ==
    /\ Tracked \subseteq Listener
    /\ MaxConns \in Nat \ {0} \/ MaxConns = NoLimit
    /\ NoLimit \notin Nat
    /\ {DrainTimeout, ShutdownDrain, LameDuck, StartupTimeout} \cup GracefulDrains \subseteq Nat
    /\ None \notin Listener \cup Child \cup Conn

Off == -1

VARIABLES
    graceful_drain_timeout,  \* as configured
    main,        \* where async_main is
    via_upgrade,
    DRAINING,    \* the readiness flag
    shutdown,    \* the global watch channel
    main_left,   \* time left of the lame-duck sleep or the final drain
    loop,        \* the accept loops
    next_conn,   \* the accepted connection a loop holds while it waits
    stop,        \* listeners whose stop_accept was sent true
    drain_left,  \* time left of each listener's drain
    conn,        \* connections: [at, st]
    drain_signal,
    upgrade,     \* the child perform_upgrade waits for
    upgrade_left,
    child        \* the children: [st, socks], socks the sockets they hold

mainVars == <<graceful_drain_timeout, main, via_upgrade, DRAINING, shutdown, main_left>>
loopVars == <<loop, next_conn, stop, drain_left, conn>>
upVars == <<drain_signal, upgrade, upgrade_left, child>>
vars == <<mainVars, loopVars, upVars>>

Open(l) == {c \in Conn : conn[c] = [at |-> l, st |-> "open"]}

Alive == main # "exited"

-----------------------------------------------------------------------------
(***************************************************************************)
(* Connections and accept loops.                                           *)
(***************************************************************************)
HasPermit(l) == MaxConns = NoLimit \/ Cardinality(Open(l)) < MaxConns

Free == [at |-> None, st |-> "none"]

\* A connection task that starts: it returns at once after shutdown.
Serve(l) == IF shutdown THEN Free ELSE [at |-> l, st |-> "open"]

\* accept() returns: the task is spawned, or the loop awaits a permit first.
Accept(l, c) ==
    /\ Alive /\ loop[l] = "accepting" /\ conn[c].st = "none"
    /\ \/ /\ HasPermit(l)
          /\ conn' = [conn EXCEPT ![c] = Serve(l)]
          /\ UNCHANGED <<loop, next_conn>>
       \/ /\ ~HasPermit(l)
          /\ loop' = [loop EXCEPT ![l] = "permit"]
          /\ next_conn' = [next_conn EXCEPT ![l] = c]
          /\ conn' = [conn EXCEPT ![c] = [at |-> l, st |-> "held"]]
    /\ UNCHANGED <<mainVars, stop, drain_left, upVars>>

\* Mutant: the loop keeps the connection it has handed over.
Permit_KeepsNext(l) ==
    /\ Alive /\ loop[l] = "permit" /\ HasPermit(l)
    /\ loop' = [loop EXCEPT ![l] = "accepting"]
    /\ conn' = [conn EXCEPT ![next_conn[l]] = Serve(l)]
    /\ UNCHANGED <<mainVars, next_conn, stop, drain_left, upVars>>

Permit(l) ==
    /\ Alive /\ loop[l] = "permit" /\ HasPermit(l)
    /\ loop' = [loop EXCEPT ![l] = "accepting"]
    /\ next_conn' = [next_conn EXCEPT ![l] = None]
    /\ conn' = [conn EXCEPT ![next_conn[l]] = Serve(l)]
    /\ UNCHANGED <<mainVars, stop, drain_left, upVars>>

\* The client is served and leaves, or a timeout or the graceful shutdown of
\* an idle connection ends it.  The slot of the model may be used again.
Finish(c) ==
    /\ Alive /\ conn[c].st = "open"
    /\ conn' = [conn EXCEPT ![c] = Free]
    /\ UNCHANGED <<mainVars, loop, next_conn, stop, drain_left, upVars>>

\* The select sees shutdown or stop_accept and the drain begins.
LeaveLoop(l) ==
    /\ Alive /\ loop[l] = "accepting"
    /\ shutdown \/ l \in stop
    /\ loop' = [loop EXCEPT ![l] = "draining"]
    /\ drain_left' = [drain_left EXCEPT ![l] = DrainTimeout]
    /\ UNCHANGED <<mainVars, next_conn, stop, conn, upVars>>

\* Mutant: a listener that is told to stop does not wait for its connections.
drain_connections_Hasty(l) ==
    /\ Alive /\ loop[l] = "draining"
    /\ loop' = [loop EXCEPT ![l] = "gone"]
    /\ drain_left' = [drain_left EXCEPT ![l] = Off]
    /\ conn' = [c \in Conn |-> IF c \in Open(l) THEN [at |-> l, st |-> "aborted"] ELSE conn[c]]
    /\ UNCHANGED <<mainVars, next_conn, stop, upVars>>

\* All connections ended, or the timeout fires; then the set is dropped,
\* which aborts the tasks still in it, and the socket is closed.
drain_connections(l) ==
    /\ Alive /\ loop[l] = "draining"
    /\ Open(l) = {} \/ drain_left[l] = 0
    /\ loop' = [loop EXCEPT ![l] = "gone"]
    /\ drain_left' = [drain_left EXCEPT ![l] = Off]
    /\ conn' = [c \in Conn |-> IF c \in Open(l) THEN [at |-> l, st |-> "aborted"] ELSE conn[c]]
    /\ UNCHANGED <<mainVars, next_conn, stop, upVars>>

-----------------------------------------------------------------------------
(***************************************************************************)
(* Shutdown.  The signals are awaited once: a SIGTERM that comes after the *)
(* select has returned is swallowed by the handler.                        *)
(***************************************************************************)
SigTerm ==
    /\ main = "serving"
    /\ main' = "lame_duck"
    /\ DRAINING' = TRUE
    /\ main_left' = LameDuck
    /\ UNCHANGED <<graceful_drain_timeout, via_upgrade, shutdown, loopVars, upVars>>

LameDuckOver ==
    /\ main = "lame_duck" /\ main_left = 0
    /\ main' = "draining"
    /\ shutdown' = TRUE
    /\ main_left' = ShutdownDrain
    /\ UNCHANGED <<graceful_drain_timeout, via_upgrade, DRAINING, loopVars, upVars>>

\* upgrade_drain_rx changed: the child took over, there is no lame duck.
DrainForUpgrade ==
    /\ main = "serving" /\ drain_signal
    /\ main' = "draining"
    /\ via_upgrade' = TRUE
    /\ DRAINING' = TRUE
    /\ main_left' = IF graceful_drain_timeout = 0 THEN Off ELSE graceful_drain_timeout
    /\ UNCHANGED <<graceful_drain_timeout, shutdown, loopVars, upVars>>

\* Mutant: the drain timeout is forgotten.
MayExit_OnlyJoined == \A l \in Tracked : loop[l] = "gone"

\* The tracked listeners are joined, or the drain timeout fires.
MayExit == (\A l \in Tracked : loop[l] = "gone") \/ main_left = 0

\* The process ends and its connections with it.
Exit ==
    /\ main = "draining" /\ MayExit
    /\ main' = "exited"
    /\ loop' = [l \in Listener |-> "gone"]
    /\ next_conn' = [l \in Listener |-> None]
    /\ drain_left' = [l \in Listener |-> Off]
    /\ conn' = [c \in Conn |->
                  IF conn[c].st \in {"open", "held"}
                  THEN [conn[c] EXCEPT !.st = "killed"] ELSE conn[c]]
    /\ UNCHANGED <<graceful_drain_timeout, via_upgrade, DRAINING, shutdown, main_left,
                   stop, upVars>>

-----------------------------------------------------------------------------
(***************************************************************************)
(* The binary upgrade.  A child that has not signalled is "starting", then *)
(* "accepting"; "ready" once it wrote its byte; "leaving" when it obeys a  *)
(* SIGTERM with a lame-duck window and a drain of its own, during which it *)
(* goes on serving; "exited" at the end, or when it dies before.           *)
(***************************************************************************)
SetChild(k, s) == child' = [child EXCEPT ![k] = [@ EXCEPT !.st = s]]

Bound == {l \in Listener : loop[l] # "gone"}

\* SIGUSR2: fork and exec.  The child inherits the sockets still open.
Fork(k) ==
    /\ Alive /\ upgrade = None /\ child[k].st = "none"
    /\ upgrade' = k
    /\ upgrade_left' = StartupTimeout
    /\ child' = [child EXCEPT ![k] = [st |-> "starting", socks |-> Bound]]
    /\ UNCHANGED <<mainVars, loopVars, drain_signal>>

Serving == {"accepting", "ready"}

\* An address that was not inherited is bound, which fails if another child
\* has it (inet sockets; a Unix path is unlinked and bound afresh).
CanBind(k) ==
    \A l \in Listener \ child[k].socks :
        /\ l \notin Bound
        /\ \A j \in Child \ {k} : child[j].st \in Serving \cup {"leaving"} => l \notin child[j].socks

ChildStarts(k) ==
    /\ child[k].st = "starting"
    /\ \/ CanBind(k) /\ child' = [child EXCEPT ![k] = [st |-> "accepting", socks |-> Listener]]
       \/ SetChild(k, "exited")
    /\ UNCHANGED <<mainVars, loopVars, drain_signal, upgrade, upgrade_left>>

signal_upgrade_ready(k) ==
    /\ child[k].st = "accepting"
    /\ SetChild(k, "ready")
    /\ UNCHANGED <<mainVars, loopVars, drain_signal, upgrade, upgrade_left>>

\* The ready byte: every listener is told to stop, then main to drain.
ReadReady ==
    /\ Alive /\ upgrade # None /\ child[upgrade].st = "ready"
    /\ stop' = Listener
    /\ drain_signal' = TRUE
    /\ upgrade' = None /\ upgrade_left' = Off
    /\ UNCHANGED <<mainVars, loop, next_conn, drain_left, conn, child>>

\* Mutant: the end of the pipe is taken for the ready byte.
ReadEof_AsReady ==
    /\ Alive /\ upgrade # None /\ child[upgrade].st = "exited"
    /\ stop' = Listener
    /\ drain_signal' = TRUE
    /\ upgrade' = None /\ upgrade_left' = Off
    /\ UNCHANGED <<mainVars, loop, next_conn, drain_left, conn, child>>

\* The pipe is closed without a byte.  The SIGTERM finds no child any more.
ReadEof ==
    /\ Alive /\ upgrade # None /\ child[upgrade].st = "exited"
    /\ upgrade' = None /\ upgrade_left' = Off
    /\ UNCHANGED <<mainVars, loopVars, drain_signal, child>>

\* Mutant: the child is left alone when it is too slow.
ReadTimeout_NoKill ==
    /\ Alive /\ upgrade # None /\ upgrade_left = 0
    /\ upgrade' = None /\ upgrade_left' = Off
    /\ UNCHANGED <<mainVars, loopVars, drain_signal, child>>

\* SIGTERM sent to a child.  Its handler is installed after the byte is
\* written; before that the signal ends it at once.
Terminated(k) ==
    \/ SetChild(k, "exited")
    \/ child[k].st = "ready" /\ SetChild(k, "leaving")

\* No byte seen in time: the child gets SIGTERM, even one whose byte came
\* just after the last look at the pipe.
ReadTimeout ==
    /\ Alive /\ upgrade # None /\ upgrade_left = 0
    /\ Terminated(upgrade)
    /\ upgrade' = None /\ upgrade_left' = Off
    /\ UNCHANGED <<mainVars, loopVars, drain_signal>>

\* A child's own shutdown, which this module's SigTerm begins, is over.
ChildLeaves(k) ==
    /\ child[k].st = "leaving"
    /\ SetChild(k, "exited")
    /\ UNCHANGED <<mainVars, loopVars, drain_signal, upgrade, upgrade_left>>

-----------------------------------------------------------------------------
Timers == {main_left, upgrade_left} \cup {drain_left[l] : l \in Listener}

Elapse(t) == IF t > 0 THEN t - 1 ELSE t

Tick ==
    /\ Alive /\ 0 \notin Timers /\ \E t \in Timers : t > 0
    /\ main_left' = Elapse(main_left)
    /\ upgrade_left' = Elapse(upgrade_left)
    /\ drain_left' = [l \in Listener |-> Elapse(drain_left[l])]
    /\ UNCHANGED <<graceful_drain_timeout, main, via_upgrade, DRAINING, shutdown, loop,
                   next_conn, stop, conn, drain_signal, upgrade, child>>

Init ==
    /\ graceful_drain_timeout \in GracefulDrains
    /\ main = "serving" /\ via_upgrade = FALSE /\ DRAINING = FALSE
    /\ shutdown = FALSE /\ main_left = Off
    /\ loop = [l \in Listener |-> "accepting"]
    /\ next_conn = [l \in Listener |-> None]
    /\ stop = {} /\ drain_left = [l \in Listener |-> Off]
    /\ conn = [c \in Conn |-> Free]
    /\ drain_signal = FALSE /\ upgrade = None /\ upgrade_left = Off
    /\ child = [k \in Child |-> [st |-> "none", socks |-> {}]]

Loop(l) == Permit(l) \/ LeaveLoop(l) \/ drain_connections(l)

Main == LameDuckOver \/ DrainForUpgrade \/ Exit

Upgrade == ReadReady \/ ReadEof \/ ReadTimeout

Next ==
    \/ \E l \in Listener, c \in Conn : Accept(l, c)
    \/ \E c \in Conn : Finish(c)
    \/ \E l \in Listener : Loop(l)
    \/ SigTerm
    \/ Main
    \/ \E k \in Child : Fork(k) \/ ChildStarts(k) \/ signal_upgrade_ready(k) \/ ChildLeaves(k)
    \/ Upgrade
    \/ Tick

Spec == Init /\ [][Next]_vars

\* Tasks that can run are polled, and time passes.  Nothing makes a client
\* finish, and nothing makes a child start.  An accept loop that can leave
\* does so in the end although it may accept a few more connections first:
\* select! polls its branches in random order.  A child that obeys a SIGTERM
\* ends, because DrainingEnds holds of it too.
Fairness ==
    /\ WF_vars(Main) /\ WF_vars(Upgrade) /\ WF_vars(Tick)
    /\ \A k \in Child : WF_vars(ChildLeaves(k))
    /\ \A l \in Listener : SF_vars(LeaveLoop(l)) /\ WF_vars(Permit(l) \/ drain_connections(l))

FairSpec == Spec /\ Fairness

-----------------------------------------------------------------------------
(***************************************************************************)
(* Properties.                                                             *)
(***************************************************************************)
Timer(max) == Off .. max

\* The types of the process state, with every timer inside its configured range.
TypeOK ==
    /\ graceful_drain_timeout \in GracefulDrains
    /\ main \in {"serving", "lame_duck", "draining", "exited"}
    /\ {via_upgrade, DRAINING, shutdown, drain_signal} \subseteq BOOLEAN
    /\ main_left \in Int /\ main_left >= Off
    /\ loop \in [Listener -> {"accepting", "permit", "draining", "gone"}]
    /\ next_conn \in [Listener -> Conn \cup {None}]
    /\ \A l \in Listener : (loop[l] = "permit") = (next_conn[l] # None)
    /\ stop \subseteq Listener
    /\ drain_left \in [Listener -> Timer(DrainTimeout)]
    /\ conn \in [Conn -> [at : Listener \cup {None},
                          st : {"none", "held", "open", "aborted", "killed"}]]
    /\ upgrade \in Child \cup {None} /\ upgrade_left \in Timer(StartupTimeout)
    /\ (upgrade = None) = (upgrade_left = Off)
    /\ child \in [Child -> [st : {"none", "starting", "accepting", "ready", "leaving",
                                  "exited"},
                             socks : SUBSET Listener]]

\* Until main signals a shutdown every address is served: by an accept loop
\* of this process or by a child that took over (upgrades that fail, time out
\* or race a SIGTERM leave no gap).
AlwaysAccepting ==
    ~shutdown =>
        \A l \in Listener :
            \/ loop[l] \in {"accepting", "permit"}
            \/ \E k \in Child : child[k].st \in Serving /\ l \in child[k].socks

\* Every upgrade attempt is settled one way: its child is gone, or it serves
\* and no loop of this process accepts beside it, or this process is gone.  A
\* child whose ready byte comes too late serves on for its lame-duck window
\* and drain, but not for good.
UpgradeSettles ==
    \A k \in Child :
        child[k].st = "starting" ~>
            \/ child[k].st = "exited"
            \/ child[k].st = "ready" /\ \A l \in Listener : loop[l] # "accepting"
            \/ ~Alive

\* An upgraded parent without a drain limit that has a listener waiting for
\* a permit: the listener sees neither signal and main waits for it.
WaitsForPermit ==
    via_upgrade /\ graceful_drain_timeout = 0 /\ \E l \in Tracked : loop[l] = "permit"

\* Once readiness reports 503 the process ends, also when a listener is stuck
\* waiting for a permit that no connection gives back; except that a parent
\* that was upgraded with graceful-drain-timeout 0, the default, waits for
\* such a listener for as long as it is stuck.
DrainingEnds == DRAINING ~> (~Alive \/ []WaitsForPermit)

\* main.rs:751-753: "Default 0 means "wait forever" -- the parent stays alive
\* until every connection completes naturally".
UpgradeWaitsForConnections ==
    via_upgrade /\ graceful_drain_timeout = 0 =>
        \A c \in Conn : conn[c].st \notin {"aborted", "killed"}
=============================================================================
