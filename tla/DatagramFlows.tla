--------------------------- MODULE DatagramFlows ----------------------------
(***************************************************************************)
(* The flow table of a datagram proxy (src/src/listener/datagram.rs): the  *)
(* accept loop, which looks up or creates the flow of a client and sends   *)
(* its datagram upstream; one reply task per flow; and the evictor.  The   *)
(* three share the table behind one mutex, which only the evictor holds    *)
(* across awaits, and a last_seen time behind a mutex of each flow.        *)
(*                                                                         *)
(* last_seen is kept as an age, which stops growing at the idle timeout.   *)
(***************************************************************************)
EXTENDS Naturals

CONSTANTS
    Client,  \* source addresses (ClientKey)
    Flow,    \* bound: flows that can exist at a time
    Idle,    \* flow-idle-timeout, in ticks
    None

ASSUME FlowAssumption ==
    /\ Idle \in Nat \ {0}
    /\ None \notin Client \cup Flow

VARIABLES
    flows,    \* FlowTable::flows
    owner,    \* the client a flow was created for
    age,      \* time since last_seen
    loop,     \* the accept loop: [st, c, f, fresh]
    pump,     \* the reply task of each flow
    evictor,  \* [st, due, todo, to_drop]
    stop      \* stop_accept was sent

vars == <<flows, owner, age, loop, pump, evictor, stop>>

Receiving == [st |-> "recv", c |-> None, f |-> None, fresh |-> FALSE]
Resting == [st |-> "rest", due |-> {}, todo |-> {}, to_drop |-> {}]

Listed(t) == {c \in Client : t[c] # None}

\* A flow lives while the table, the accept loop or its reply task has it.
Live(f) ==
    \/ \E c \in Client : flows[c] = f
    \/ loop.f = f
    \/ pump[f] # "none"

Unlocked == evictor.st # "scan"

-----------------------------------------------------------------------------
(***************************************************************************)
(* The accept loop: forward_udp_in.                                        *)
(***************************************************************************)
\* A datagram arrives and the table is searched.
Recv(c) ==
    /\ loop.st = "recv" /\ Unlocked
    /\ loop' = IF flows[c] = None
               THEN [Receiving EXCEPT !.st = "build", !.c = c]
               ELSE [Receiving EXCEPT !.st = "touch", !.c = c, !.f = flows[c]]
    /\ UNCHANGED <<flows, owner, age, pump, evictor, stop>>

\* The upstream socket is opened, or that fails and the datagram is lost.
build_upstream ==
    /\ loop.st = "build"
    /\ \/ \E f \in Flow :
             /\ ~Live(f)
             /\ loop' = [loop EXCEPT !.st = "insert", !.f = f]
             /\ owner' = [owner EXCEPT ![f] = loop.c]
             /\ age' = [age EXCEPT ![f] = 0]
       \/ loop' = Receiving /\ UNCHANGED <<owner, age>>
    /\ UNCHANGED <<flows, pump, evictor, stop>>

\* A flow created meanwhile is used instead; only this loop creates them.
Insert ==
    /\ loop.st = "insert" /\ Unlocked
    /\ IF flows[loop.c] # None
       THEN /\ loop' = [loop EXCEPT !.st = "touch", !.f = flows[loop.c]]
            /\ UNCHANGED flows
       ELSE /\ loop' = [loop EXCEPT !.st = "touch", !.fresh = TRUE]
            /\ flows' = [flows EXCEPT ![loop.c] = loop.f]
    /\ UNCHANGED <<owner, age, pump, evictor, stop>>

Touch ==
    /\ loop.st = "touch"
    /\ age' = [age EXCEPT ![loop.f] = 0]
    /\ loop' = [loop EXCEPT !.st = "send"]
    /\ UNCHANGED <<flows, owner, pump, evictor, stop>>

\* Mutant: no reply task for a flow that went idle while its first datagram
\* was sent.
Send_IfRecent ==
    /\ loop.st = "send"
    /\ loop' = Receiving
    /\ pump' = IF loop.fresh /\ age[loop.f] < Idle THEN [pump EXCEPT ![loop.f] = "recv"] ELSE pump
    /\ UNCHANGED <<flows, owner, age, evictor, stop>>

\* The datagram is sent upstream; a fresh flow gets its reply task.
Send ==
    /\ loop.st = "send"
    /\ loop' = Receiving
    /\ pump' = IF loop.fresh THEN [pump EXCEPT ![loop.f] = "recv"] ELSE pump
    /\ UNCHANGED <<flows, owner, age, evictor, stop>>

\* A reload removes the listener.  The accept loop sees it between two
\* datagrams, the evictor between two sweeps.
Stop ==
    /\ ~stop /\ stop' = TRUE
    /\ UNCHANGED <<flows, owner, age, loop, pump, evictor>>

StopLoop ==
    /\ stop /\ loop.st = "recv"
    /\ loop' = [Receiving EXCEPT !.st = "stopped"]
    /\ UNCHANGED <<flows, owner, age, pump, evictor, stop>>

StopEvictor ==
    /\ stop /\ evictor.st = "rest"
    /\ evictor' = [Resting EXCEPT !.st = "stopped"]
    /\ UNCHANGED <<flows, owner, age, loop, pump, stop>>

-----------------------------------------------------------------------------
(***************************************************************************)
(* The reply task of a flow, and the evictor.                              *)
(***************************************************************************)
Reply(f) ==
    /\ pump[f] = "recv"
    /\ age' = [age EXCEPT ![f] = 0]
    /\ UNCHANGED <<flows, owner, loop, pump, evictor, stop>>

\* The upstream or the client cannot be reached: the loop is left.
ReplyFails(f) ==
    /\ pump[f] = "recv"
    /\ pump' = [pump EXCEPT ![f] = "ending"]
    /\ UNCHANGED <<flows, owner, age, loop, evictor, stop>>

\* Mutant: the table is changed without its lock.
EndReply_Unlocked(f) ==
    /\ pump[f] = "ending"
    /\ pump' = [pump EXCEPT ![f] = "none"]
    /\ flows' = [flows EXCEPT ![owner[f]] = None]
    /\ UNCHANGED <<owner, age, loop, evictor, stop>>

\* Mutant: the reply task ends and leaves its flow in the table.
EndReply_KeepsEntry(f) ==
    /\ pump[f] = "ending" /\ Unlocked
    /\ pump' = [pump EXCEPT ![f] = "none"]
    /\ UNCHANGED <<flows, owner, age, loop, evictor, stop>>

\* The entry of the client is removed, whichever flow it names by now.
EndReply(f) ==
    /\ pump[f] = "ending" /\ Unlocked
    /\ pump' = [pump EXCEPT ![f] = "none"]
    /\ flows' = [flows EXCEPT ![owner[f]] = None]
    /\ UNCHANGED <<owner, age, loop, evictor, stop>>

\* A tick: now is read, then the lock is awaited.
TickEvictor ==
    /\ evictor.st = "rest"
    /\ evictor' = [Resting EXCEPT !.st = "lock",
                                  !.due = {f \in Flow : Live(f) /\ age[f] >= Idle}]
    /\ UNCHANGED <<flows, owner, age, loop, pump, stop>>

LockTable ==
    /\ evictor.st = "lock"
    /\ evictor' = [evictor EXCEPT !.st = "scan", !.todo = Listed(flows)]
    /\ UNCHANGED <<flows, owner, age, loop, pump, stop>>

\* One flow is looked at.  A flow touched since now was read counts as new.
Scan(c) ==
    /\ evictor.st = "scan" /\ c \in evictor.todo
    /\ evictor' = [evictor EXCEPT
          !.todo = @ \ {c},
          !.to_drop = IF flows[c] \in evictor.due /\ age[flows[c]] >= Idle THEN @ \cup {c} ELSE @]
    /\ UNCHANGED <<flows, owner, age, loop, pump, stop>>

\* Mutant: the drop list is never applied.
Evicted_None == flows

Evicted == [c \in Client |-> IF c \in evictor.to_drop THEN None ELSE flows[c]]

evict_idle ==
    /\ evictor.st = "scan" /\ evictor.todo = {}
    /\ flows' = Evicted
    /\ evictor' = Resting
    /\ UNCHANGED <<owner, age, loop, pump, stop>>

Tick ==
    /\ \E f \in Flow : Live(f) /\ age[f] < Idle
    /\ age' = [f \in Flow |-> IF Live(f) /\ age[f] < Idle THEN age[f] + 1 ELSE age[f]]
    /\ UNCHANGED <<flows, owner, loop, pump, evictor, stop>>

Init ==
    /\ flows = [c \in Client |-> None]
    /\ owner = [f \in Flow |-> None]
    /\ age = [f \in Flow |-> 0]
    /\ loop = Receiving
    /\ pump = [f \in Flow |-> "none"]
    /\ evictor = Resting
    /\ stop = FALSE

Forward == build_upstream \/ Insert \/ Touch \/ Send

Evictor == TickEvictor \/ LockTable \/ evict_idle \/ \E c \in Client : Scan(c)

Next ==
    \/ \E c \in Client : Recv(c)
    \/ Forward
    \/ Stop \/ StopLoop \/ StopEvictor
    \/ \E f \in Flow : Reply(f) \/ ReplyFails(f) \/ EndReply(f)
    \/ Evictor
    \/ Tick

Spec == Init /\ [][Next]_vars

\* Tasks that can run are polled; a tokio mutex is granted in turn, so a task
\* that waits for the table gets it between two sweeps.  Datagrams, replies
\* and failures need never come.
FairSpec ==
    /\ Spec
    /\ WF_vars(Forward) /\ WF_vars(Evictor) /\ WF_vars(Tick)
    /\ SF_vars(Insert)
    /\ \A f \in Flow : SF_vars(EndReply(f))

-----------------------------------------------------------------------------
(***************************************************************************)
(* Properties.                                                             *)
(***************************************************************************)
\* The types; the evictor's drop list names only flows that are in the table,
\* which nobody changes while it scans.
TypeOK ==
    /\ flows \in [Client -> Flow \cup {None}]
    /\ owner \in [Flow -> Client \cup {None}]
    /\ age \in [Flow -> 0 .. Idle]
    /\ loop.st \in {"recv", "build", "insert", "touch", "send", "stopped"}
    /\ loop.st \in {"insert", "touch", "send"} => loop.f \in Flow /\ owner[loop.f] = loop.c
    /\ pump \in [Flow -> {"none", "recv", "ending"}]
    /\ evictor.st \in {"rest", "lock", "scan", "stopped"}
    /\ evictor.todo \cup evictor.to_drop \subseteq Listed(flows)

\* A flow in the table belongs to its client and has a reply task, or the
\* accept loop is about to start it: no client is left with a flow whose
\* replies nobody reads, whatever order evictions, failures and new datagrams
\* come in.
ListedFlowsArePumped ==
    \A c \in Client :
        flows[c] # None =>
            /\ owner[flows[c]] = c
            /\ pump[flows[c]] # "none" \/ (loop.f = flows[c] /\ loop.fresh)

\* A flow whose upstream failed leaves the table, so that the next datagram
\* of the client opens a new one.
FailedFlowsLeave ==
    \A f \in Flow : (pump[f] = "ending") ~> (\A c \in Client : flows[c] # f)

\* As long as the listener is configured, a flow without traffic leaves the
\* table: none stays in it for ever with its age at the timeout.
IdleFlowsLeave ==
    \A c \in Client : ~<>[](~stop /\ flows[c] # None /\ age[flows[c]] = Idle)

\* docs/reference.md:2202-2203: "Hypershunt maintains one upstream socket per
\* `(peer_addr, peer_port)` pair".
OneSocketPerClient ==
    \A f, g \in Flow : Live(f) /\ Live(g) /\ owner[f] = owner[g] => f = g
=============================================================================
