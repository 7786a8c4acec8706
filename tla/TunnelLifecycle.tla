-------------------------- MODULE TunnelLifecycle --------------------------
(***************************************************************************)
(* The life of one wanbond daemon: cmd/wanbond/main.go's run loop,         *)
(* device.Up and up (TUN, engine, routes, loops, endpoints, MSS clamp),    *)
(* Tunnel.Reload on SIGHUP, Tunnel.Close on SIGTERM or on a failed         *)
(* bring-up, and the supervisor that starts the daemon again.              *)
(*                                                                         *)
(* The main goroutine runs the stages in order (pc).  Beside it run the    *)
(* polling loops, of which the MTU resizer shares locks with Reload, the   *)
(* engine, which may stop by itself, the operator, who edits the file and  *)
(* sends signals, and the crash.  What the kernel keeps when the process   *)
(* is gone (host) is told apart from what dies with it.                    *)
(***************************************************************************)
EXTENDS ConfigRules

CONSTANTS
  Files,       \* the contents a configuration file may have
  Driven,      \* bound: those whose life is followed past Load
  Good,        \* those of Driven that neither Load nor up refuses
  ToolSets,    \* the sets of packet-filter front-ends a host may have
  Watched,     \* bound: the loops whose iterations are followed
  Resolutions, \* bound: what DNS may answer at boot
  Nics,        \* bound: how the host's interfaces may hold the sources
  MaxFaults,   \* bound: failing system calls, self-stops and crashes
  MaxSignals,  \* bound: signals sent
  MaxEdits     \* bound: edits of the file

ASSUME DrivenAssumption == Driven \subseteq Files

VARIABLES
  pc,      \* what main is about to do
  file,    \* the file's present contents, and what Load makes of them
  cfg,     \* t.cfg: the running configuration
  next,    \* what Reload is applying, cfg when there is none
  warned,  \* what this Reload warned about
  paths,   \* the paths the Bind serves
  host,    \* the kernel: tun, persist, routes, rules, and the tools installed
  ends,    \* the endpoints: metrics, monitor, gauge
  engine,  \* "none", "open" or "closed"
  loops,   \* the loops that run
  busy,    \* the loops with an iteration under way
  sizer,   \* the resizer: its step, and the MTU it applied
  clamped, \* t.mssClampInstalled
  mu,      \* reloadMu: held by main
  sig,     \* the signal channel, of capacity 1
  status,  \* the exit status Close leads to
  excused, \* history: what a crash or a failed removal left in the kernel
  left     \* what is left of the bounds

vars == <<pc, file, cfg, next, warned, paths, host, ends, engine, loops, busy,
          sizer, clamped, mu, sig, status, excused, left>>

Backends == {"iptables", "ip6tables", "nft"}
NoRules == [b \in Backends |-> 0]
NoListen == [port |-> 0, loopback |-> TRUE]
NoMonitor == [listen |-> NoListen, token |-> ""]
NoEnds == [metrics |-> NoListen, monitor |-> NoMonitor, gauge |-> 0, sane |-> TRUE]
BootMTU == 1

(* The loops up starts; the exit loops only beside a second exit. *)
startLoops(c) ==
  {"probes", "reconcile", "session"}
  \cup (IF c.role = "edge" THEN {"failover", "resolution"} ELSE {})
  \cup (IF c.role = "concentrator" /\ Len(c.peers) > 1 THEN {"teardown"} ELSE {})
  \cup (IF Cardinality(ExitIndices(c)) > 1 THEN {"promotion", "rtt"} ELSE {})

(* The loops whose stop function waits for the goroutine. *)
Joined == {"promotion", "rtt"}

(* A call fails by a fault of the system; a stage for which good is false   *)
(* fails by itself.                                                         *)
Fault == left.faults > 0 /\ left' = [left EXCEPT !.faults = @ - 1]
NoFault == UNCHANGED left
Works(good) == good /\ NoFault
Fails(good) == IF good THEN Fault ELSE NoFault

(* Load is a function of the contents: its verdict is kept beside them. *)
Written(f) ==
  [raw |-> f, loads |-> Load(f), parsed |-> IF Load(f) THEN normalize(f) ELSE f]

Init ==
  /\ pc = "down" /\ status = "ok"
  /\ \E f \in Files : file = Written(f)
  /\ cfg = file.raw /\ next = file.raw /\ warned = {} /\ paths = <<>>
  /\ \E tools \in IF file.raw \in Driven THEN ToolSets ELSE {{}} :
       host = [tun |-> FALSE, persist |-> FALSE, routes |-> {}, rules |-> NoRules, tools |-> tools]
  /\ ends = NoEnds /\ engine = "none" /\ loops = {} /\ busy = {}
  /\ sizer = [step |-> "idle", applied |-> BootMTU]
  /\ clamped = FALSE /\ mu = FALSE /\ sig = <<>>
  /\ excused = {}
  /\ left = [faults |-> MaxFaults, signals |-> MaxSignals, edits |-> MaxEdits]

-----------------------------------------------------------------------------
(* The kernel.  Closing the TUN destroys it, and its routes, unless it is   *)
(* persistent.                                                              *)

closeTUN(h) == IF h.persist THEN h ELSE [h EXCEPT !.tun = FALSE, !.routes = {}]

(* What outlives the process: what NothingLeft is about. *)
RouteLeft(routes) == {<<"route", p>> : p \in routes}
RuleLeft(backends) == {<<"rule", b>> : b \in backends}
Leftovers(h) == RouteLeft(h.routes) \cup RuleLeft({b \in Backends : h.rules[b] > 0})

(* MUTANT: CREATE|EXCL refuses a route left by a crash. *)
programRouteExcl(h, p) == p \notin h.routes

(* RTM_NEWROUTE with CREATE|REPLACE succeeds whether or not the route is    *)
(* there.                                                                   *)
programRoute(h, p) == TRUE

ensureRule(h, b) == [h EXCEPT !.rules[b] = IF @ > 0 THEN @ ELSE 1]

(* deleteRule and nftDeleteMSSClamp through the tools that are there;       *)
(* undeleted are the ones whose command failed.                             *)
removeMSSClamp(h, undeleted) ==
  [h EXCEPT !.rules = [b \in Backends |->
     IF b \in h.tools \ undeleted THEN 0 ELSE @[b]]]

(* installMSSClamp when every command succeeds: both iptables families, or  *)
(* nft when one of the two is missing (removing what the other installed).  *)
installMSSClamp(h) ==
  IF {"iptables", "ip6tables"} \subseteq h.tools
    THEN ensureRule(ensureRule(h, "iptables"), "ip6tables")
    ELSE IF "nft" \in h.tools
      THEN [removeMSSClamp(h, {}) EXCEPT !.rules["nft"] = 1]
      ELSE removeMSSClamp(h, {})

ClampInstalls(h) == {"iptables", "ip6tables"} \subseteq h.tools \/ "nft" \in h.tools

-----------------------------------------------------------------------------
(* Bring-up.  A failed stage undoes what came before it and exits.          *)

Exit(code) == pc' = IF code = "ok" THEN "stopped" ELSE "exited"

Begin ==
  /\ pc = "down"
  /\ IF file.loads
       THEN pc' = "tun" /\ cfg' = file.parsed /\ next' = cfg'
       ELSE Exit("error") /\ UNCHANGED <<cfg, next>>
  /\ UNCHANGED <<file, warned, paths, host, ends, engine, loops, busy, sizer,
                 clamped, mu, sig, status, excused, left>>

CreateTUN ==
  /\ pc = "tun" /\ file.raw \in Driven
  /\ \/ NoFault /\ host' = [host EXCEPT !.tun = TRUE] /\ pc' = "persist"
     \/ Fault /\ host' = host /\ Exit("error")
  /\ UNCHANGED <<file, cfg, next, warned, paths, ends, engine, loops, busy, sizer,
                 clamped, mu, sig, status, excused>>

(* ifUp, then the persistence flag, set or cleared. *)
setTUNPersist ==
  /\ pc = "persist"
  /\ \/ NoFault /\ host' = [host EXCEPT !.persist = cfg.persist] /\ pc' = "wire"
     \/ Fault /\ host' = closeTUN(host) /\ Exit("error")
  /\ UNCHANGED <<file, cfg, next, warned, paths, ends, engine, loops, busy, sizer,
                 clamped, mu, sig, status, excused>>

(* The Bind and its peers, the engine, IpcSet and dev.Up.                   *)
upEngine ==
  /\ pc = "wire"
  /\ LET good == wirePeers(cfg) /\ uapiRenders(cfg) /\ engineAccepts(cfg)
     IN  \/ /\ Works(good)
            /\ engine' = "open" /\ paths' = cfg.paths /\ pc' = "routes"
            /\ UNCHANGED host
         \/ /\ Fails(good)
            /\ host' = closeTUN(host) /\ Exit("error")
            /\ UNCHANGED <<engine, paths>>
  /\ UNCHANGED <<file, cfg, next, warned, ends, loops, busy, sizer, clamped, mu, sig,
                 status, excused>>

(* installRoutes; when it fails part-way, removeRoutes, of which some may   *)
(* fail too (kept), and dev.Close.                                          *)
upRoutes ==
  /\ pc = "routes"
  /\ LET wanted == defaultRoutePrefixes(cfg)
         good == \A p \in wanted : programRoute(host, p)
     IN  \/ /\ Works(good)
            /\ host' = [host EXCEPT !.routes = @ \cup wanted]
            /\ pc' = "loops"
            /\ UNCHANGED <<engine, paths, excused>>
         \/ /\ wanted # {} /\ Fails(good)
            /\ \E kept \in SUBSET wanted :
                 /\ host' = closeTUN([host EXCEPT !.routes = (@ \ wanted) \cup kept])
                 /\ excused' = (excused \cup RouteLeft(kept)) \cap Leftovers(host')
            /\ engine' = "none" /\ paths' = <<>> /\ Exit("error")
  /\ UNCHANGED <<file, cfg, next, warned, ends, loops, busy, sizer, clamped, mu, sig,
                 status>>

upLoops ==
  /\ pc = "loops"
  /\ IF exitKnown(cfg)
       THEN loops' = startLoops(cfg) /\ pc' = "metrics" /\ UNCHANGED status
       ELSE loops' = startLoops(cfg) \ {"rtt"} /\ pc' = "close_ends" /\ status' = "error"
  /\ UNCHANGED <<file, cfg, next, warned, paths, host, ends, engine, busy, sizer,
                 clamped, mu, sig, excused, left>>

(* NewServer binds the port, which the other endpoint may hold.             *)
CanBind(listen, other) == listen.loopback /\ listen.port # other

(* MUTANT: the new endpoint's gauge is not seeded. *)
applyMetricsUnseeded(e, listen, mtu, sane) ==
  IF listen = e.metrics THEN e
  ELSE IF listen.port = 0 THEN [e EXCEPT !.metrics = NoListen]
  ELSE [e EXCEPT !.metrics = listen, !.gauge = 0, !.sane = sane]

(* applyMetricsLocked: the new server is bound before the old one stops.    *)
applyMetricsLocked(e, listen, mtu, sane) ==
  IF listen = e.metrics THEN e
  ELSE IF listen.port = 0 THEN [e EXCEPT !.metrics = NoListen]
  ELSE [e EXCEPT !.metrics = listen, !.gauge = mtu, !.sane = sane]

(* MUTANT: the old server is stopped first. *)
metricsRefusedAfterStop(e) == [e EXCEPT !.metrics = NoListen]

(* What a refused NewServer leaves. *)
metricsRefused(e) == e

MetricsBinds(e, listen) ==
  listen = e.metrics \/ listen.port = 0 \/ CanBind(listen, e.monitor.listen.port)

(* applyMonitorLocked: a rebind at one address stops the old server first,  *)
(* so a refusal leaves the endpoint down; at another it is bound first.     *)
monitorRefused(e, m) ==
  IF m.listen = e.monitor.listen THEN [e EXCEPT !.monitor = NoMonitor] ELSE e

applyMonitorLocked(e, m) ==
  [e EXCEPT !.monitor = IF m.listen.port = 0 THEN NoMonitor ELSE m]

MonitorBinds(e, m) ==
  m = e.monitor \/ m.listen.port = 0 \/ m.listen.port # e.metrics.port

(* Load takes the file and up does not refuse what it says. *)
Bootable(f) ==
  LET c == normalize(f)
  IN  /\ Load(f) /\ wirePeers(c) /\ uapiRenders(c)
      /\ MetricsBinds(NoEnds, c.metrics)
      /\ MonitorBinds([NoEnds EXCEPT !.metrics = c.metrics], c.monitor)

ASSUME GoodAssumption == Good = {f \in Driven : Bootable(f)}

upMetrics ==
  /\ pc = "metrics"
  /\ LET good == MetricsBinds(ends, cfg.metrics)
     IN  \/ /\ Works(good) /\ pc' = "monitor" /\ UNCHANGED status
            /\ ends' = applyMetricsLocked(ends, cfg.metrics, BootMTU, cfg.sane)
         \/ /\ cfg.metrics.port # 0 /\ Fails(good)
            /\ pc' = "close_ends" /\ status' = "error" /\ ends' = metricsRefused(ends)
  /\ UNCHANGED <<file, cfg, next, warned, paths, host, engine, loops, busy, sizer,
                 clamped, mu, sig, excused>>

upMonitor ==
  /\ pc = "monitor"
  /\ LET good == MonitorBinds(ends, cfg.monitor)
     IN  \/ /\ Works(good) /\ pc' = "clamp" /\ UNCHANGED status
            /\ ends' = applyMonitorLocked(ends, cfg.monitor)
         \/ /\ cfg.monitor.listen.port # 0 /\ Fails(good)
            /\ pc' = "close_ends" /\ status' = "error" /\ ends' = monitorRefused(ends, cfg.monitor)
  /\ UNCHANGED <<file, cfg, next, warned, paths, host, engine, loops, busy, sizer,
                 clamped, mu, sig, excused>>

(* removeObsoleteTUNShaper; then the edge's clamp, whose failure only warns *)
(* and withdraws what landed, as far as that works.                         *)
installEdgeMSSClamp ==
  /\ pc = "clamp"
  /\ \/ /\ NoFault
        /\ IF cfg.role = "edge"
             THEN host' = installMSSClamp(host) /\ clamped' = ClampInstalls(host)
             ELSE UNCHANGED <<host, clamped>>
        /\ excused' = excused \cap Leftovers(host')
        /\ pc' = "watch" /\ UNCHANGED status
     \/ /\ cfg.role = "edge" /\ ClampInstalls(host) /\ Fault
        /\ \E landed \in {host} \cup {ensureRule(host, b) : b \in {"iptables"} \cap host.tools} :
           \E undeleted \in SUBSET {b \in Backends : landed.rules[b] > 0} :
             /\ host' = removeMSSClamp(landed, undeleted)
             /\ excused' = (excused \cup RuleLeft(undeleted)) \cap Leftovers(host')
        /\ clamped' = FALSE /\ pc' = "watch" /\ UNCHANGED status
     \/ /\ Fault  \* the shaper's removal fails
        /\ pc' = "close_ends" /\ status' = "error"
        /\ UNCHANGED <<host, clamped, excused>>
  /\ UNCHANGED <<file, cfg, next, warned, paths, ends, engine, loops, busy, sizer, mu, sig>>

(* startMTUResize and startPMTUDiscovery; then main subscribes to signals.  *)
startMTUResize ==
  /\ pc = "watch"
  /\ loops' = loops \cup {"resizer", "pmtu"}
  /\ sizer' = [step |-> "idle", applied |-> BootMTU]
  /\ pc' = "run"
  /\ UNCHANGED <<file, cfg, next, warned, paths, host, ends, engine, busy, clamped, mu,
                 sig, status, excused, left>>

-----------------------------------------------------------------------------
(* The loops. *)

LoopBegins(l) ==
  /\ l \in (loops \cap Watched) \ busy
  /\ busy' = busy \cup {l}
  /\ UNCHANGED <<pc, file, cfg, next, warned, paths, host, ends, engine, loops, sizer,
                 clamped, mu, sig, status, excused, left>>

LoopEnds(l) ==
  /\ l \in busy
  /\ busy' = busy \ {l}
  /\ UNCHANGED <<pc, file, cfg, next, warned, paths, host, ends, engine, loops, sizer,
                 clamped, mu, sig, status, excused, left>>

(* decide takes the resizer's lock, and sets the link's MTU under it.       *)
decide ==
  /\ "resizer" \in loops /\ sizer.step = "idle"
  /\ sizer' = [sizer EXCEPT !.step = "locked"]
  /\ UNCHANGED <<pc, file, cfg, next, warned, paths, host, ends, engine, loops, busy,
                 clamped, mu, sig, status, excused, left>>

(* The netlink call fails on an interface that is gone.                     *)
decided ==
  /\ sizer.step = "locked"
  /\ \/ host.tun /\ sizer' = [step |-> "gauge", applied |-> 3 - sizer.applied]
     \/ sizer' = [sizer EXCEPT !.step = "idle"]
  /\ UNCHANGED <<pc, file, cfg, next, warned, paths, host, ends, engine, loops, busy,
                 clamped, mu, sig, status, excused, left>>

(* MUTANT: the gauge runs under the resizer's lock. *)
ResizerHoldsLockThrough == sizer.step \in {"locked", "gauge"}

(* recompute's gauge runs outside the resizer's lock, under reloadMu.       *)
ResizerHoldsLock == sizer.step = "locked"

gauge ==
  /\ sizer.step = "gauge" /\ ~mu
  /\ ends' = IF ends.metrics = NoListen THEN ends ELSE [ends EXCEPT !.gauge = sizer.applied]
  /\ sizer' = [sizer EXCEPT !.step = "idle"]
  /\ UNCHANGED <<pc, file, cfg, next, warned, paths, host, engine, loops, busy, clamped,
                 mu, sig, status, excused, left>>

-----------------------------------------------------------------------------
(* Reload. *)

TakeSignal ==
  /\ pc = "run" /\ sig # <<>>
  /\ sig' = <<>>
  /\ IF sig[1] = "TERM"
       THEN pc' = "close_ends" /\ status' = "ok"
       ELSE pc' = "read" /\ UNCHANGED status
  /\ UNCHANGED <<file, cfg, next, warned, paths, host, ends, engine, loops, busy, sizer,
                 clamped, mu, excused, left>>

(* reloadTunnel: a file that does not load leaves all as it is. *)
reloadTunnel ==
  /\ pc = "read"
  /\ IF file.loads
       THEN pc' = "reload" /\ next' = file.parsed
       ELSE pc' = "run" /\ UNCHANGED next
  /\ UNCHANGED <<file, cfg, warned, paths, host, ends, engine, loops, busy, sizer,
                 clamped, mu, sig, status, excused, left>>

ReloadWarns ==
  /\ pc = "reload"
  /\ mu' = TRUE
  /\ warned' = reloadWarnings(cfg, next)
  /\ pc' = "reload_metrics"
  /\ UNCHANGED <<file, cfg, next, paths, host, ends, engine, loops, busy, sizer, clamped,
                 sig, status, excused, left>>

ReloadReturns == pc' = "run" /\ mu' = FALSE /\ next' = cfg /\ warned' = {}

(* A rebind reads the resizer's MTU, under the resizer's lock. *)
ReloadMetrics ==
  /\ pc = "reload_metrics"
  /\ LET listen == next.metrics
         rebinds == listen # ends.metrics /\ listen.port # 0
         good == MetricsBinds(ends, listen)
     IN  \/ /\ Works(good) /\ (rebinds => ~ResizerHoldsLock)
            /\ ends' = applyMetricsLocked(ends, listen, sizer.applied, cfg.sane)
            /\ pc' = "reload_monitor" /\ UNCHANGED <<mu, next, warned>>
         \/ /\ rebinds /\ Fails(good)
            /\ ends' = metricsRefused(ends)
            /\ ReloadReturns
  /\ UNCHANGED <<file, cfg, paths, host, engine, loops, busy, sizer,
                 clamped, sig, status, excused>>

ReloadMonitor ==
  /\ pc = "reload_monitor"
  /\ LET m == next.monitor
         good == MonitorBinds(ends, m)
     IN  \/ /\ Works(good)
            /\ ends' = applyMonitorLocked(ends, m)
            /\ pc' = "reload_paths" /\ UNCHANGED <<mu, next, warned>>
         \/ /\ m # ends.monitor /\ m.listen.port # 0 /\ Fails(good)
            /\ ends' = monitorRefused(ends, m)
            /\ ReloadReturns
  /\ UNCHANGED <<file, cfg, paths, host, engine, loops, busy, sizer,
                 clamped, sig, status, excused>>

Names(s) == {s[i].name : i \in Indices(s)}
diffAdd(live, desired) == SelectSeq(desired, LAMBDA p : p.name \notin Names(live))

diffRemove(live, desired) == Names(live) \ Names(desired)

Served(live, add, remove) ==
  SelectSeq(live, LAMBDA p : p.name \notin remove) \o add

(* t.cfg after a reload that succeeded. *)
Advanced(desired, add, remove) ==
  [runningConfig(cfg, add, remove) EXCEPT
     !.metrics = ends.metrics,
     !.monitor = ends.monitor,
     !.sane = desired.sane]

(* The additions, then the removals, then the budget's gauge; a failure     *)
(* stops with some of them done and t.cfg as it was.                        *)
ReloadPaths ==
  /\ pc = "reload_paths"
  /\ LET add == diffAdd(paths, next.paths)
         remove == diffRemove(paths, next.paths)
     IN  \/ /\ NoFault
            /\ paths' = Served(paths, add, remove)
            /\ cfg' = Advanced(next, add, remove) /\ next' = cfg'
            /\ ends' = IF ends.metrics = NoListen THEN ends ELSE [ends EXCEPT !.sane = next.sane]
         \/ /\ add # <<>> \/ remove # {}
            /\ Fault
            /\ \/ \E n \in 0..(Len(add) - 1) : paths' = Served(paths, SubSeq(add, 1, n), {})
               \/ \E done \in SUBSET remove :
                    done # remove /\ paths' = Served(paths, add, done)
            /\ cfg' = cfg /\ next' = cfg /\ UNCHANGED ends
  /\ pc' = "run" /\ mu' = FALSE /\ warned' = {}
  /\ UNCHANGED <<file, host, engine, loops, busy, sizer, clamped, sig, status, excused>>

-----------------------------------------------------------------------------
(* Close. *)

DeviceStopped ==
  /\ pc = "run" /\ engine = "closed"
  /\ pc' = "close_ends" /\ status' = "error"
  /\ UNCHANGED <<file, cfg, next, warned, paths, host, ends, engine, loops, busy, sizer,
                 clamped, mu, sig, excused, left>>

(* Both endpoints, under reloadMu; Shutdown is bounded by a timeout. *)
CloseEnds ==
  /\ pc = "close_ends"
  /\ ends' = NoEnds
  /\ pc' = "close_loops"
  /\ UNCHANGED <<file, cfg, next, warned, paths, host, engine, loops, busy, sizer,
                 clamped, mu, sig, status, excused, left>>

(* The loops a stop has to wait for. *)
StopWaits == loops \cap Joined

CloseLoops ==
  /\ pc = "close_loops"
  /\ busy \cap StopWaits = {}
  /\ loops' = {}
  /\ pc' = "close_routes"
  /\ UNCHANGED <<file, cfg, next, warned, paths, host, ends, engine, busy, sizer,
                 clamped, mu, sig, status, excused, left>>

(* MUTANT: the routes are left to the interface. *)
CloseRoutesNot ==
  /\ pc = "close_routes"
  /\ pc' = "close_clamp"
  /\ UNCHANGED <<file, cfg, next, warned, paths, host, ends, engine, loops, busy, sizer,
                 clamped, mu, sig, status, excused, left>>

(* The routes, then the clamp: errors are only warned about. *)
CloseRoutes ==
  /\ pc = "close_routes"
  /\ LET wanted == defaultRoutePrefixes(cfg)
     IN  \/ /\ NoFault
            /\ host' = [host EXCEPT !.routes = @ \ wanted]
            /\ excused' = excused \cap Leftovers(host')
         \/ /\ wanted \cap host.routes # {} /\ Fault
            /\ \E kept \in SUBSET (wanted \cap host.routes) :
                 /\ host' = [host EXCEPT !.routes = (@ \ wanted) \cup kept]
                 /\ excused' = (excused \cup RouteLeft(kept)) \cap Leftovers(host')
  /\ pc' = "close_clamp"
  /\ UNCHANGED <<file, cfg, next, warned, paths, ends, engine, loops, busy, sizer,
                 clamped, mu, sig, status>>

CloseClamp ==
  /\ pc = "close_clamp"
  /\ \/ /\ NoFault
        /\ host' = IF clamped THEN removeMSSClamp(host, {}) ELSE host
        /\ excused' = excused \cap Leftovers(host')
     \/ /\ clamped /\ Fault
        /\ \E undeleted \in SUBSET {b \in Backends : host.rules[b] > 0} :
             /\ host' = removeMSSClamp(host, undeleted)
             /\ excused' = (excused \cup RuleLeft(undeleted)) \cap Leftovers(host')
  /\ pc' = "close_engine"
  /\ UNCHANGED <<file, cfg, next, warned, paths, ends, engine, loops, busy, sizer,
                 clamped, mu, sig, status>>

(* dev.Close, and the process ends with its goroutines.                     *)
CloseEngine ==
  /\ pc = "close_engine"
  /\ host' = closeTUN(host)
  /\ excused' = excused \cap Leftovers(host')
  /\ engine' = "none" /\ busy' = {} /\ paths' = <<>> /\ sig' = <<>> /\ clamped' = FALSE
  /\ sizer' = [step |-> "idle", applied |-> BootMTU]
  /\ ends' = NoEnds
  /\ Exit(status)
  /\ UNCHANGED <<file, cfg, next, warned, loops, mu, status, left>>

-----------------------------------------------------------------------------
(* The environment. *)

Alive == pc \notin {"down", "exited", "stopped"}
Subscribed ==
  pc \in {"run", "read", "reload", "reload_metrics", "reload_monitor", "reload_paths",
          "close_ends", "close_loops", "close_routes", "close_clamp", "close_engine"}

(* signal.Notify drops a signal the channel has no room for. *)
Kill(s) ==
  /\ Subscribed /\ left.signals > 0
  /\ left' = [left EXCEPT !.signals = @ - 1]
  /\ sig' = IF sig = <<>> THEN <<s>> ELSE sig
  /\ UNCHANGED <<pc, file, cfg, next, warned, paths, host, ends, engine, loops, busy,
                 sizer, clamped, mu, status, excused>>

(* A read error on the TUN closes the engine, and with it the interface.    *)
EngineStops ==
  /\ engine = "open" /\ pc = "run" /\ Fault
  /\ engine' = "closed" /\ host' = closeTUN(host)
  /\ excused' = excused \cap Leftovers(host')
  /\ UNCHANGED <<pc, file, cfg, next, warned, paths, ends, loops, busy, sizer, clamped,
                 mu, sig, status>>

(* The process is killed: the kernel closes its files. *)
Crash ==
  /\ Alive /\ (pc = "tun" => file.raw \in Driven) /\ Fault
  /\ host' = closeTUN(host)
  /\ excused' = Leftovers(host')
  /\ engine' = "none" /\ loops' = {} /\ busy' = {} /\ ends' = NoEnds /\ paths' = <<>>
  /\ sizer' = [step |-> "idle", applied |-> BootMTU]
  /\ clamped' = FALSE /\ mu' = FALSE /\ sig' = <<>>
  /\ pc' = "exited" /\ status' = "error" /\ next' = cfg /\ warned' = {}
  /\ UNCHANGED <<file, cfg>>

(* systemd, Restart=on-failure. *)
Restart ==
  /\ pc = "exited" /\ file.raw \in Driven
  /\ pc' = "down"
  /\ UNCHANGED <<file, cfg, next, warned, paths, host, ends, engine, loops, busy, sizer,
                 clamped, mu, sig, status, excused, left>>

(* An edit shows where main next reads the file, and is made there. *)
Edit ==
  /\ pc \in {"down", "read"} /\ left.edits > 0 /\ file.raw \in Driven
  /\ \E f \in Driven \ {file.raw} : file' = Written(f)
  /\ left' = [left EXCEPT !.edits = @ - 1]
  /\ UNCHANGED <<pc, cfg, next, warned, paths, host, ends, engine, loops, busy, sizer,
                 clamped, mu, sig, status, excused>>

-----------------------------------------------------------------------------
BringUp ==
  \/ Begin \/ CreateTUN \/ setTUNPersist \/ upEngine \/ upRoutes \/ upLoops
  \/ upMetrics \/ upMonitor \/ installEdgeMSSClamp \/ startMTUResize

Reload == reloadTunnel \/ ReloadWarns \/ ReloadMetrics \/ ReloadMonitor \/ ReloadPaths

Close == CloseEnds \/ CloseLoops \/ CloseRoutes \/ CloseClamp \/ CloseEngine

Main == BringUp \/ TakeSignal \/ DeviceStopped \/ Reload \/ Close

Resizer == decide \/ decided \/ gauge

Next ==
  \/ Main \/ Resizer \/ Restart
  \/ \E l \in Watched : LoopBegins(l) \/ LoopEnds(l)
  \/ \E s \in {"HUP", "TERM"} : Kill(s)
  \/ EngineStops \/ Crash \/ Edit

(* Main runs on, and systemd restarts it.  It waits in two places only, and *)
(* strong fairness says that it gets past them: for a loop that its stop    *)
(* function joins (the loop's select picks at random between its tick and   *)
(* the closed done channel) and for the resizer's lock (a Go mutex hands    *)
(* itself to a waiter that has waited long enough).  What the resizer or a  *)
(* loop has begun it ends; a tick is not owed.                              *)
Fairness ==
  /\ SF_vars(Main \/ Restart)
  /\ WF_vars(decided \/ gauge)
  /\ \A l \in Watched : WF_vars(LoopEnds(l))

Spec == Init /\ [][Next]_vars /\ Fairness

-----------------------------------------------------------------------------
(* Properties of what Load accepts.  They are judged where main has loaded  *)
(* the file and created nothing yet.                                        *)

Loaded == pc = "tun"

Uniform(plan) == \/ \A i \in DOMAIN plan : plan[i] = ""
                 \/ \A i \in DOMAIN plan : plan[i] # ""

NotForced == \A i \in Indices(cfg.paths) : cfg.paths[i].bind # "device"

(* A configuration config.Load accepts never fails device.up for what it    *)
(* says: its peers wire into the Bind, its UAPI text renders and is taken   *)
(* by the engine, and its exit is known; and its path sockets can be open   *)
(* side by side on one port, when they are all bound to a device or all to  *)
(* their source.  The one exception is an allowed_ips list that is empty,   *)
(* which validate lets through.                                             *)
AcceptedBoots ==
  Loaded =>
    /\ \/ \E i \in Indices(cfg.peers) : cfg.peers[i].allowed = <<>>
       \/ wirePeers(cfg) /\ uapiRenders(cfg) /\ engineAccepts(cfg) /\ exitKnown(cfg)
    /\ NotForced =>
         \A nic \in Nics : Uniform(selectDeviceBinds(cfg, nic)) => ~OpenFails(cfg, nic)

ListsHalf == \E i \in Indices(cfg.peers) :
               ToSet(cfg.peers[i].allowed) \cap {Lo4, Hi4, Lo6, Hi6} # {}

(* After the boot render the engine's trie sends every address an edge's    *)
(* peer lists as its own (a non-default allowed_ip) to that peer, and every *)
(* other address of a default route to the first exit.                      *)
TrieExact ==
  /\ \A i \in Indices(cfg.peers) : \A p \in NonDefault(cfg.peers[i]) : \A a \in p :
       RouteOwner(cfg, a) = i
  /\ Len(cfg.peers) > 1 =>
       \A i \in ExitIndices(cfg) \ standbyExitPeers(cfg) :
          \A a \in UNION defaultRouteMaskOf(cfg.peers[i]) :
             a \notin UNION UNION {NonDefault(cfg.peers[j]) : j \in Indices(cfg.peers)}
               => RouteOwner(cfg, a) = i

(* No peer of an edge gets another's traffic.  The engine's trie is exact,  *)
(* unless a peer lists a /1 half literally, which validate does not look    *)
(* for; and each peer boots with its own virtual endpoint, so its traffic   *)
(* leaves for its own concentrator, unless DNS named one address for two.   *)
PeersKeptApart ==
  Loaded /\ cfg.role = "edge" =>
    /\ ~ListsHalf => TrieExact
    /\ \A resolved \in Resolutions :
         LET remotes == resolveBootEndpoints(cfg, resolved)
         IN  \A i \in Indices(cfg.peers) :
               remotes[i] # "" =>
                 \/ ParseEndpoint(remotes, i) = i
                 \/ \E h \in Hostnames : remotes[i] \in ToSet(resolved[h])

(* What config.Load accepts works: it boots, and keeps its peers apart      *)
(* (validate and the peer-set rules against up, wirePeers, uapiConfig and   *)
(* the engine).                                                             *)
AcceptedFilesWork == AcceptedBoots /\ PeersKeptApart

(* Does NOT hold: a device-bound socket is chosen "ONLY when it is provably *)
(* equivalent to pinning the configured source_addr AND no other path       *)
(* contends" (pathsock.go:173).  Where Open would open every source-pinned  *)
(* socket, a path alone on its interface takes the wildcard there, the      *)
(* kernel refuses the next path's source-pinned socket, and Open fails.     *)
SocketsOpen ==
  Loaded /\ NotForced => \A nic \in Nics : ~OpenFails(cfg, nic)

-----------------------------------------------------------------------------
(* Properties of the life of the daemon. *)

(* A process that is gone left no route and no packet-filter rule, except   *)
(* what a crash or a failed removal left; a later clean life removes those, *)
(* and however often the daemon crashes, a rule is there at most once.  On  *)
(* the way, once main has stopped the loops, none of the exit selector's    *)
(* iterations is still using the engine it goes on to close.                *)
NothingLeft ==
  /\ pc \in {"exited", "stopped", "down"} =>
       Leftovers(host) \subseteq excused /\ engine = "none" /\ loops = {}
  /\ \A b \in Backends : host.rules[b] <= 1
  /\ pc \in {"close_routes", "close_clamp", "close_engine"} => busy \cap Joined = {}

(* A serving metrics endpoint shows the MTU the resizer holds and the       *)
(* budget verdict of t.cfg, whatever reload rebound it, or failed, since.   *)
GaugeExact ==
  pc = "run" /\ ends.metrics # NoListen =>
    /\ sizer.step = "idle" => ends.gauge = sizer.applied
    /\ ends.sane = cfg.sane

(* A reload that could not bind a new address leaves the endpoints that     *)
(* were serving as they were, except a monitor rebound where it was.        *)
EndpointsHold ==
  pc' = "run" /\ pc \in {"reload_metrics", "reload_monitor"} =>
    /\ ends'.metrics = ends.metrics
    /\ next.monitor.listen # ends.monitor.listen => ends'.monitor = ends.monitor

Untuned(p) == [name |-> p.name, src |-> p.src, bind |-> p.bind]

(* A reload that warns of nothing has made the daemon run what the file     *)
(* says, up to the paths' order and their mtu and ride_through, provided    *)
(* t.cfg mirrored the Bind before it.                                       *)
FileIsRun ==
  pc = "reload_paths" /\ pc' = "run" /\ cfg.paths = paths /\ warned = {} /\ left' = left =>
    LET desired == next
    IN  /\ {Untuned(paths'[i]) : i \in DOMAIN paths'}
             = {Untuned(desired.paths[i]) : i \in DOMAIN desired.paths}
        /\ ends.metrics = desired.metrics /\ ends.monitor.listen = desired.monitor.listen
        /\ [cfg' EXCEPT !.paths = <<>>, !.metrics = desired.metrics, !.monitor = desired.monitor]
             = [desired EXCEPT !.paths = <<>>]

(* A reload does what it says: one that fails keeps the serving endpoints,  *)
(* and one that succeeds without a warning runs the file (Reload).          *)
ReloadSpeaks == [][EndpointsHold /\ FileIsRun]_vars

(* Does NOT hold: "the SILENCE is not acceptable invariant (D52) cannot     *)
(* regress by omission" (device.go:1214).  A path's mtu or ride_through, or *)
(* a new path put before an old one, is ignored without a warning.          *)
NeverSilent ==
  [][pc = "reload_paths" /\ pc' = "run" /\ warned = {} /\ left' = left =>
       paths' = next.paths]_vars

(* Once failures stop, a daemon with a good file comes up again, whatever   *)
(* earlier lives left in the kernel, and no reload or loop hangs it.        *)
ComesUp == []<>(pc \in {"run", "stopped"} \/ file.raw \notin Good)

(* A SIGTERM main's channel holds ends the process: neither a reload under  *)
(* way nor the resizer, the exit loops or the endpoints keep Close waiting. *)
TermObeyed == sig = <<"TERM">> ~> ~Alive
=============================================================================
