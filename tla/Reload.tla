------------------------------- MODULE Reload -------------------------------
(***************************************************************************)
(* SIGHUP reload (reload() in src/src/reload.rs) together with what it     *)
(* races with: the listener tasks it spawned or stopped earlier, which     *)
(* build, accept and drain on their own (src/src/reload/builders.rs), the  *)
(* certificate renewal loops it starts (src/src/bootstrap.rs).  The file   *)
(* may hold anything when a reload reads it.                               *)
(*                                                                         *)
(* One reload runs at a time, in the task that receives the signals.  Each *)
(* step below ends where the function publishes shared state, can return   *)
(* early, or awaits.  Loops over independent listeners are one step.       *)
(*                                                                         *)
(* A bind is an inet address, which one socket at a time can hold.  Named  *)
(* certificates are modelled; a certificate written inside a listener      *)
(* block is not.                                                           *)
(***************************************************************************)
EXTENDS Integers, FiniteSets

CONSTANTS
    Bind,       \* listener addresses
    Cert,       \* names of top-level certificates
    Source,     \* what a certificate can be made from
    Acme,       \* the sources that need a renewal loop
    None,       \* no source / no certificate / no bind
    Config,     \* valid configurations; auth says if server.auth is the startup's
    BadConfig,  \* file contents that do not parse or validate
    Kinds,      \* assignments of a listener kind to each bind
    CertOf,     \* the named certificate a bind's tls block refers to
    MaxLoops    \* renewal loops of one source are counted up to this

Kind == {"plain", "tls", "quic", "stream", "dgram"}

ASSUME ReloadAssumption ==
    /\ Acme \subseteq Source
    /\ None \notin Source \cup Cert
    /\ Config \subseteq [listeners : SUBSET Bind,
                         certs : [Cert -> Source \cup {None}],
                         auth : {"same", "other"}]
    /\ BadConfig \notin Config
    /\ Kinds \subseteq [Bind -> Kind]
    /\ CertOf \in [Bind -> Cert \cup {None}]
    /\ MaxLoops \in Nat \ {0}
    \* validation: a listener refers to a certificate the config defines
    /\ \A c \in Config : \A b \in c.listeners :
          CertOf[b] # None => c.certs[CertOf[b]] # None

VARIABLES
    kind,               \* the kind of each listener, fixed
    pc,                 \* where reload() is
    new_config,         \* the configuration read last
    todo,               \* certificates not yet built
    new_registry,       \* the certificates built so far
    new_handles,        \* those of them with a new renewal handle
    old_fingerprints,   \* the snapshot the removals are computed from
    outcome,            \* what the last reload returned
    live,               \* the config of the published AppState
    rate_limit_rules,   \* the config whose rules the evictor sees
    alpn,               \* the config of vhost_alpn_overrides
    cert_registry,      \* the published certificates
    cert_source_fingerprints,
    cert_helpers,       \* per name, the source whose loop's handle is held
    loops,              \* renewal loops running, per name and source
    current_listeners,  \* what the next reload diffs against
    task,               \* the listener task of each bind
    held,               \* the certificate source each task serves
    stop_accept_txs,    \* binds whose sender is in the map
    stop,               \* binds whose channel was sent true
    listener_helpers    \* binds with tracked helper tasks

certVars == <<cert_registry, cert_source_fingerprints, cert_helpers>>
buildVars == <<todo, new_registry, new_handles, old_fingerprints>>
pubVars == <<live, rate_limit_rules, alpn>>
taskVars == <<task, held, stop_accept_txs, stop, listener_helpers>>
vars == <<kind, pc, new_config, buildVars, outcome, pubVars,
          certVars, loops, current_listeners, taskVars>>

NoCerts == [n \in Cert |-> None]

\* A listener task whose stop receiver is live.
Running == {"starting", "accepting"}

Goto(p) == pc' = p

\* An early return: the locals are dropped.
Return(o) ==
    /\ Goto("idle")
    /\ outcome' = o
    /\ todo' = {} /\ new_registry' = NoCerts /\ new_handles' = {}
    /\ old_fingerprints' = NoCerts

-----------------------------------------------------------------------------
(***************************************************************************)
(* The diff of the running listeners and the new ones.                     *)
(***************************************************************************)
Added == new_config.listeners \ current_listeners

\* Mutant: listeners that stay are taken for removed ones.
Removed_Unchanged == current_listeners

Removed == current_listeners \ new_config.listeners

-----------------------------------------------------------------------------
(***************************************************************************)
(* Renewal loops.  spawn_supervised runs the loop in a task of its own and *)
(* returns the handle of a second task that waits for it.  abort() ends    *)
(* that second task; the handle of the first is dropped with it, which     *)
(* detaches the loop and leaves it running.                                *)
(***************************************************************************)
\* Mutant: a name that has a renewal handle gets no second loop.
Started_Once(l, n, s) ==
    IF s \in Acme /\ cert_helpers[n] = None /\ l[<<n, s>>] < MaxLoops
    THEN [l EXCEPT ![<<n, s>>] = @ + 1]
    ELSE l

Started(l, n, s) ==
    IF s \in Acme /\ l[<<n, s>>] < MaxLoops
    THEN [l EXCEPT ![<<n, s>>] = @ + 1]
    ELSE l

Aborted(l, names) == l

-----------------------------------------------------------------------------
(***************************************************************************)
(* The steps of reload().                                                  *)
(***************************************************************************)
\* A signal is received, the file read and the auth fingerprints compared.
Load(file) ==
    /\ pc = "idle"
    /\ new_config' = file
    /\ \/ file = BadConfig /\ Return("ParseError")
       \/ /\ file # BadConfig
          /\ file.auth = "other"
          /\ Return("Rejected")
       \/ /\ file # BadConfig
          /\ file.auth = "same"
          /\ Goto("certs")
          /\ todo' = {n \in Cert : file.certs[n] # None}
          /\ new_registry' = NoCerts
          /\ new_handles' = {}
          /\ old_fingerprints' = cert_source_fingerprints
          /\ outcome' = "none"
    /\ UNCHANGED <<kind, pubVars, certVars, loops, current_listeners, taskVars>>

\* Mutant: a name that was built before is carried forward whatever its source.
CarriedForward_ByName(n) == cert_registry[n] # None

CarriedForward(n) ==
    /\ cert_source_fingerprints[n] = new_config.certs[n]
    /\ cert_registry[n] # None

\* One definition of the registry: carried forward, built, or failed.  The
\* renewal handles of a failed registry are dropped; their loops run on.
BuildCert(n) ==
    /\ pc = "certs" /\ n \in todo
    /\ LET s == new_config.certs[n]
       IN  \/ /\ CarriedForward(n)
              /\ todo' = todo \ {n}
              /\ new_registry' = [new_registry EXCEPT ![n] = cert_registry[n]]
              /\ UNCHANGED <<pc, outcome, new_handles, old_fingerprints, loops>>
           \/ /\ ~CarriedForward(n)
              /\ todo' = todo \ {n}
              /\ new_registry' = [new_registry EXCEPT ![n] = s]
              /\ new_handles' = IF s \in Acme THEN new_handles \cup {n} ELSE new_handles
              /\ loops' = Started(loops, n, s)
              /\ UNCHANGED <<pc, outcome, old_fingerprints>>
           \/ ~CarriedForward(n) /\ Return("ParseError") /\ UNCHANGED loops
    /\ UNCHANGED <<kind, new_config, pubVars, certVars,
                   current_listeners, taskVars>>

\* Mutant: the map is replaced by the new handles instead of merged.
MergedHelpers_Replaced ==
    [n \in Cert |-> IF n \in new_handles THEN new_registry[n] ELSE None]

\* Mutant: certificates without a renewal loop get an entry too.
MergedHelpers_All ==
    [n \in Cert |-> IF new_registry[n] # None THEN new_registry[n] ELSE cert_helpers[n]]

MergedHelpers ==
    [n \in Cert |-> IF n \in new_handles THEN new_registry[n] ELSE cert_helpers[n]]

\* The handles are merged, prior ones aborted, and the registry published.
PublishCerts ==
    /\ pc = "certs" /\ todo = {}
    /\ Goto("router")
    /\ cert_helpers' = MergedHelpers
    /\ loops' = Aborted(loops, {n \in new_handles : cert_helpers[n] # None})
    /\ cert_registry' = new_registry
    /\ cert_source_fingerprints' = new_config.certs
    /\ new_registry' = NoCerts /\ new_handles' = {}
    /\ UNCHANGED <<kind, new_config, todo, old_fingerprints, outcome,
                   pubVars, current_listeners, taskVars>>

BuildRouter ==
    /\ pc = "router"
    /\ \/ Goto("ancillary") /\ UNCHANGED <<buildVars, outcome>>
       \/ Return("ParseError")
    /\ UNCHANGED <<kind, new_config, pubVars, certVars, loops,
                   current_listeners, taskVars>>

\* GeoIP database, error pages and access log; the rest is carried forward.
BuildAncillary ==
    /\ pc = "ancillary"
    /\ \/ Goto("rules") /\ UNCHANGED <<buildVars, outcome>>
       \/ Return("ParseError")
    /\ UNCHANGED <<kind, new_config, pubVars, certVars, loops,
                   current_listeners, taskVars>>

PublishRules ==
    /\ pc = "rules"
    /\ Goto("bind")
    /\ rate_limit_rules' = new_config
    /\ UNCHANGED <<kind, new_config, buildVars, outcome, live, alpn,
                   certVars, loops, current_listeners, taskVars>>

\* Every added listener is bound, or one bind fails (the address is in use,
\* by a task of ours or by someone else) and the staged sockets are dropped.
PreBind ==
    /\ pc = "bind"
    /\ \/ /\ \A b \in Added : task[b] = "none"
          /\ Goto("swap")
          /\ UNCHANGED <<buildVars, outcome>>
       \/ Added # {} /\ Return("ParseError")
    /\ UNCHANGED <<kind, new_config, pubVars, certVars, loops,
                   current_listeners, taskVars>>

Swap ==
    /\ pc = "swap"
    /\ Goto("remove")
    /\ live' = new_config
    /\ UNCHANGED <<kind, new_config, buildVars, outcome,
                   rate_limit_rules, alpn, certVars, loops, current_listeners, taskVars>>


\* Removed listeners are told to stop, if their sender is in the map by now.
\* The sender of a task that has ended since is told in vain.
StopRemoved ==
    /\ pc = "remove"
    /\ Goto("unhelp")
    /\ stop' = stop \cup {b \in Removed \cap stop_accept_txs : task[b] \in Running}
    /\ stop_accept_txs' = stop_accept_txs \ Removed
    /\ UNCHANGED <<kind, new_config, buildVars, outcome, pubVars, certVars, loops,
                   current_listeners, task, held, listener_helpers>>

\* Under the next lock, their helper tasks are aborted.
AbortHelpers ==
    /\ pc = "unhelp"
    /\ Goto("uncert")
    /\ listener_helpers' = listener_helpers \ Removed
    /\ UNCHANGED <<kind, new_config, buildVars, outcome, pubVars, certVars, loops,
                   current_listeners, task, held, stop_accept_txs, stop>>

\* Certificates of the registry before this reload that are not in the new
\* config: their renewal handles are aborted.
RemoveCerts ==
    /\ pc = "uncert"
    /\ Goto("spawn")
    /\ LET gone == {n \in Cert : old_fingerprints[n] # None /\ new_config.certs[n] = None}
       IN  /\ cert_helpers' = [n \in Cert |-> IF n \in gone THEN None ELSE cert_helpers[n]]
           /\ loops' = Aborted(loops, {n \in gone : cert_helpers[n] # None})
    /\ UNCHANGED <<kind, new_config, buildVars, outcome, pubVars,
                   cert_registry, cert_source_fingerprints, current_listeners, taskVars>>

\* The ALPN overrides are published, a task is spawned for each staged
\* socket, and the listener set is published.
SpawnAdded ==
    /\ pc = "spawn"
    /\ Return("Applied")
    /\ alpn' = new_config
    /\ task' = [b \in Bind |-> IF b \in Added THEN "building" ELSE task[b]]
    /\ current_listeners' = new_config.listeners
    /\ UNCHANGED <<kind, new_config, live, rate_limit_rules, certVars,
                   loops, held, stop_accept_txs, stop, listener_helpers>>

-----------------------------------------------------------------------------
(***************************************************************************)
(* A listener task: the builder of its kind registers it, or fails, which  *)
(* is only logged: the socket is dropped and nothing undone.               *)
(***************************************************************************)
Register(b, s) ==
    /\ task' = [task EXCEPT ![b] = "starting"]
    /\ held' = [held EXCEPT ![b] = s]
    /\ stop_accept_txs' = stop_accept_txs \cup {b}
    /\ stop' = stop \ {b}

BuildFails(b) ==
    /\ task' = [task EXCEPT ![b] = "none"]
    /\ UNCHANGED <<held, stop_accept_txs, stop, listener_helpers>>

\* build_cert_source of a reference: looked up in the registry of the moment.
Lookup(b) == IF CertOf[b] = None THEN None ELSE cert_registry[CertOf[b]]

build_plain_listener_future(b) ==
    kind[b] = "plain" /\ Register(b, None) /\ UNCHANGED listener_helpers

build_tls_listener_future(b) ==
    /\ kind[b] = "tls"
    /\ \/ /\ Lookup(b) # None
          /\ Register(b, Lookup(b))
          /\ listener_helpers' = listener_helpers \cup {b}
       \/ BuildFails(b)

build_quic_listener_future(b) ==
    /\ kind[b] = "quic"
    /\ \/ Lookup(b) # None /\ Register(b, Lookup(b)) /\ UNCHANGED listener_helpers
       \/ BuildFails(b)

build_stream_listener_future(b) ==
    /\ kind[b] = "stream"
    /\ \/ /\ CertOf[b] # None => Lookup(b) # None
          /\ Register(b, Lookup(b))
          /\ UNCHANGED listener_helpers
       \/ BuildFails(b)

build_dgram_proxy_future(b) ==
    kind[b] = "dgram" /\ Register(b, None) /\ UNCHANGED listener_helpers

Build(b) ==
    /\ task[b] = "building"
    /\ \/ build_plain_listener_future(b)
       \/ build_tls_listener_future(b)
       \/ build_quic_listener_future(b)
       \/ build_stream_listener_future(b)
       \/ build_dgram_proxy_future(b)
    /\ UNCHANGED <<kind, pc, new_config, buildVars, outcome, pubVars,
                   certVars, loops, current_listeners>>

\* The future of the builder runs up to its accept loop.  run_quic and
\* run_dgram_proxy can fail on the way: the task ends with its sender and
\* its bind left on record.
Start(b) ==
    /\ task[b] = "starting"
    /\ \/ /\ task' = [task EXCEPT ![b] = "accepting"]
          /\ UNCHANGED <<held, stop>>
       \/ /\ kind[b] \in {"quic", "dgram"}
          /\ task' = [task EXCEPT ![b] = "none"]
          /\ held' = [held EXCEPT ![b] = None]
          /\ stop' = stop \ {b}
    /\ UNCHANGED <<kind, pc, new_config, buildVars, outcome, pubVars, certVars, loops,
                   current_listeners, stop_accept_txs, listener_helpers>>

\* The accept loop sees stop_accept and drains its connections; the socket
\* stays bound until the drain is over.
LeaveLoop(b) ==
    /\ task[b] = "accepting" /\ b \in stop
    /\ task' = [task EXCEPT ![b] = "draining"]
    /\ UNCHANGED <<kind, pc, new_config, buildVars, outcome, pubVars,
                   certVars, loops, current_listeners, held, stop_accept_txs, stop,
                   listener_helpers>>

Drained(b) ==
    /\ task[b] = "draining"
    /\ task' = [task EXCEPT ![b] = "none"]
    /\ held' = [held EXCEPT ![b] = None]
    /\ stop' = stop \ {b}
    /\ UNCHANGED <<kind, pc, new_config, buildVars, outcome, pubVars,
                   certVars, loops, current_listeners, stop_accept_txs,
                   listener_helpers>>

-----------------------------------------------------------------------------
\* A server that has started: every listener accepts.
Init ==
    \E c \in Config :
        /\ c.auth = "same"
        /\ kind \in Kinds
        /\ pc = "idle" /\ new_config = c
        /\ todo = {} /\ new_registry = NoCerts /\ new_handles = {}
        /\ old_fingerprints = NoCerts
        /\ outcome = "none"
        /\ live = c /\ rate_limit_rules = c /\ alpn = c
        /\ cert_registry = c.certs /\ cert_source_fingerprints = c.certs
        /\ cert_helpers = [n \in Cert |-> IF c.certs[n] \in Acme THEN c.certs[n] ELSE None]
        /\ loops = [k \in Cert \X Acme |-> IF c.certs[k[1]] = k[2] THEN 1 ELSE 0]
        /\ current_listeners = c.listeners
        /\ task = [b \in Bind |-> IF b \in c.listeners THEN "accepting" ELSE "none"]
        /\ held = [b \in Bind |->
                     IF b \in c.listeners /\ kind[b] \notin {"plain", "dgram"} /\ CertOf[b] # None
                     THEN c.certs[CertOf[b]] ELSE None]
        /\ stop_accept_txs = c.listeners /\ stop = {}
        /\ listener_helpers = {b \in c.listeners : kind[b] = "tls"}

ReloadStep ==
    \/ \E c \in Config \cup {BadConfig} : Load(c)
    \/ \E n \in Cert : BuildCert(n)
    \/ PublishCerts
    \/ BuildRouter
    \/ BuildAncillary
    \/ PublishRules
    \/ PreBind
    \/ Swap
    \/ StopRemoved
    \/ AbortHelpers
    \/ RemoveCerts
    \/ SpawnAdded

Listener(b) == Build(b) \/ Start(b) \/ LeaveLoop(b) \/ Drained(b)

Next ==
    \/ ReloadStep
    \/ \E b \in Bind : Listener(b)

Spec == Init /\ [][Next]_vars

-----------------------------------------------------------------------------
(***************************************************************************)
(* Properties.                                                             *)
(***************************************************************************)
\* The type of the shared state and of reload()'s locals.
TypeOK ==
    /\ kind \in [Bind -> Kind]
    /\ new_config \in Config \cup {BadConfig}
    /\ pc \in {"idle", "certs", "router", "ancillary", "rules", "bind", "swap",
               "remove", "unhelp", "uncert", "spawn"}
    /\ pc # "idle" => new_config \in Config
    /\ todo \subseteq Cert /\ new_handles \subseteq Cert
    /\ {live, rate_limit_rules, alpn} \subseteq Config
    /\ \A f \in {new_registry, old_fingerprints, cert_registry,
                 cert_source_fingerprints} : f \in [Cert -> Source \cup {None}]
    /\ cert_helpers \in [Cert -> Acme \cup {None}]
    /\ loops \in [Cert \X Acme -> 0 .. MaxLoops]
    /\ task \in [Bind -> {"none", "building", "starting", "accepting", "draining"}]
    /\ held \in [Bind -> Source \cup {None}]
    /\ \A B \in {current_listeners, stop_accept_txs, stop, listener_helpers} :
          B \subseteq Bind
    /\ outcome \in {"none", "Applied", "Rejected", "ParseError"}

\* Everything that was published comes from the config of the AppState.
Consistent ==
    /\ rate_limit_rules = live
    /\ alpn = live
    /\ cert_registry = live.certs
    /\ cert_source_fingerprints = live.certs
    /\ current_listeners = live.listeners

\* A reload that reports Applied leaves the router, the rate-limit rules, the
\* ALPN overrides, the certificate registry and the listener set all from one
\* config, whatever earlier reloads left behind when they failed half way.
AppliedIsComplete ==
    pc = "idle" /\ outcome \in {"none", "Applied"} => Consistent

\* The handle kept for a name is that of the certificate the registry now
\* serves, so that the next removal or replacement aborts the right loop.
HandlesTrackRegistry ==
    \A n \in Cert : cert_registry[n] \in Acme => cert_helpers[n] = cert_registry[n]

\* An ACME certificate that the registry offers to listeners is renewed: the
\* loop of its source runs, through every sequence of applied and failed
\* reloads that carry it forward, replace it or bring it back.  This does not
\* depend on abort() sparing the loops of replaced certificates.
RegisteredCertIsRenewed ==
    \A n \in Cert : cert_registry[n] \in Acme => loops[<<n, cert_registry[n]>>] > 0

\* No listener of the published config is told to stop or is draining:
\* listeners that did not change keep their sockets across every reload.
ConfiguredKeepServing ==
    \A b \in live.listeners : b \notin stop /\ task[b] # "draining"


-----------------------------------------------------------------------------
(***************************************************************************)
(* What the comments say and the code does not do.                         *)
(***************************************************************************)
\* reload.rs:106-107, of a reload that fails: "on any failure the running
\* config is left exactly as it was".
FailedReloadLeavesConfig ==
    pc = "idle" /\ outcome = "ParseError" => Consistent

\* reload.rs:219-221: "Replaced certs ... get a fresh handle here; we abort
\* the prior entry first so we don't double-renew".
NoDoubleRenewal ==
    pc = "idle" /\ outcome = "Applied" =>
        \A n \in Cert : \A s, t \in Acme :
            loops[<<n, s>>] > 0 /\ loops[<<n, t>>] > 0 => s = t /\ loops[<<n, s>>] = 1
=============================================================================
