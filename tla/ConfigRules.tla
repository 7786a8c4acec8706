---------------------------- MODULE ConfigRules ----------------------------
(***************************************************************************)
(* What internal/config accepts, and what internal/device makes of it at   *)
(* boot: the rules config.Load applies to the TOML file, the identities    *)
(* and sockets a configuration asks for, and the peer set device.up wires  *)
(* into the Bind, the engine and the routing table.  TunnelLifecycle uses  *)
(* these operators.                                                        *)
(*                                                                         *)
(* Data is abstracted to what the rules tell apart.  An allowed_ips entry  *)
(* is the set of addresses it covers, so that prefixes overlap when they   *)
(* meet and the longest match is the smallest set; an entry that does not  *)
(* parse is the empty set.  An endpoint is a literal, a hostname, or       *)
(* neither (malformed).  Keys and PSKs are names, "" when they are unset.  *)
(* Durations are counted in probe intervals (200 ms).                      *)
(***************************************************************************)
EXTENDS Integers, Sequences, FiniteSets, SequencesExt

CONSTANTS
  Lo4, Hi4, Lo6, Hi6,  \* the two /1 halves of each address family
  Literals, Hostnames, \* well-formed endpoint entries
  MaxFanout            \* maxProbeFanout: 32 in the code

Omitted == -9  \* a key the file leaves out
Garbled == -8  \* a value that does not parse

V4 == Lo4 \cup Hi4
V6 == Lo6 \cup Hi6

Indices(s) == 1..Len(s)

-----------------------------------------------------------------------------
(* normalize: defaults and parsing. *)

EndpointSpecs(p) == IF p.endpoint # "" THEN <<p.endpoint>> ELSE p.endpoints

resolveEndpoints(p) ==
  LET raw == EndpointSpecs(p)
  IN  /\ p.endpoint = "" \/ p.endpoints = <<>>
      /\ \A i \in Indices(raw) :
            \/ raw[i] \in Literals
            \/ raw[i] \in Hostnames /\ p.dns
      /\ IsInjective(raw)

Configured(a) == a.sizes # <<0, 0, 0, 0, 0>> \/ a.headers # <<0, 0, 0, 0>>

AmneziaDefaults(a) ==
  IF Configured(a) /\ a.headers = <<0, 0, 0, 0>>
    THEN [a EXCEPT !.headers = <<1, 2, 3, 4>>]
    ELSE a

OrDefault(v, default) == IF v = Omitted THEN default ELSE v

DNSDefaults(d) ==
  [d EXCEPT !.resolver = IF @ = "" THEN "system" ELSE @,
            !.poll = OrDefault(@, 150), !.timeout = OrDefault(@, 25)]

normalizes(c) ==
  /\ \A i \in Indices(c.paths) :
        c.paths[i].src.ip # Garbled /\ c.paths[i].ride # Garbled
  /\ \A i \in Indices(c.peers) : resolveEndpoints(c.peers[i])
  /\ c.dns.poll # Garbled /\ c.dns.timeout # Garbled
  /\ c.downAfter # Garbled

PathDefaults(c, p) ==
  [p EXCEPT !.bind = IF @ # "" THEN @ ELSE IF c.bind # "" THEN c.bind ELSE "auto",
            !.ride = OrDefault(@, 0)]

(* down_after + the largest ride_through + two probe intervals within 3 s. *)
livenessBudgetSane(c) ==
  \A i \in Indices(c.paths) : c.downAfter + c.paths[i].ride + 2 <= 15

(* sane is the one field the file does not carry. *)
normalize(c) ==
  LET n == [c EXCEPT
              !.exit = IF @ = "" /\ c.role = "edge" THEN "auto" ELSE @,
              !.bind = IF @ = "" THEN "auto" ELSE @,
              !.paths = [i \in Indices(@) |-> PathDefaults(c, @[i])],
              !.amnezia = AmneziaDefaults(@),
              !.policy = IF @ = "" THEN "adaptive" ELSE @,
              !.dns = DNSDefaults(@),
              !.downAfter = OrDefault(@, 6)]
  IN  [n EXCEPT !.sane = livenessBudgetSane(n)]

-----------------------------------------------------------------------------
(* validate: the rules a normalized file must satisfy. *)

ValidMode(b) == b \in {"source", "device", "auto"}

validPath(p) ==
  /\ p.name # "" /\ p.src.ip # 0 /\ ValidMode(p.bind)
  /\ p.mtu # 0 => p.mtu \in 1280..9000 /\ p.mtu - 161 >= 576
  /\ p.ride >= 0

(* A v4-mapped spelling binds the v4 socket, so sources are compared by ip. *)
Distinct(p, q) == p.name # q.name /\ p.src.ip # q.src.ip

validPaths(c) ==
  /\ c.paths # <<>>
  /\ ValidMode(c.bind)
  /\ \A i \in Indices(c.paths) : validPath(c.paths[i])
  /\ \A i, j \in Indices(c.paths) : i # j => Distinct(c.paths[i], c.paths[j])

isDefaultRoute(p) == p \in {V4, V6}

validPeer(c, p) ==
  /\ p.key # ""
  /\ c.role = "edge" => EndpointSpecs(p) # <<>>
  /\ c.role = "concentrator" => EndpointSpecs(p) = <<>> /\ ~p.dns /\ p.mode = ""
  /\ p.mode \in {"", "default-route"}
  /\ {} \notin ToSet(p.allowed)
  /\ \A i, j \in Indices(p.allowed) :
        i # j /\ isDefaultRoute(p.allowed[i]) => p.allowed[i] # p.allowed[j]

validateConcentratorDefaultRoutes(c) ==
  \A i, j \in Indices(c.peers) : \A p \in {V4, V6} :
     p \in ToSet(c.peers[i].allowed) /\ p \in ToSet(c.peers[j].allowed) => i = j

ExitIndices(c) ==
  {i \in Indices(c.peers) : c.role = "edge" /\ c.peers[i].mode = "default-route"}

defaultRouteMaskOf(p) == ToSet(p.allowed) \cap {V4, V6}
NonDefault(p) == ToSet(p.allowed) \ {V4, V6}

Overlaps(p, q) == p \cap q # {}

EndpointsApart(c) ==
  \A i, j \in Indices(c.peers) :
     i # j => ToSet(EndpointSpecs(c.peers[i])) \cap ToSet(EndpointSpecs(c.peers[j]))
                \cap Literals = {}

(* MUTANT: an exit may carry the default route alone. *)
ExitsBare(c) ==
  \A i, j \in ExitIndices(c) :
     defaultRouteMaskOf(c.peers[i]) = defaultRouteMaskOf(c.peers[j])

(* Rule 8, per exit: the same default routes as the first, and more. *)
ExitsAlternate(c) ==
  \A i, j \in ExitIndices(c) :
     i # j => /\ defaultRouteMaskOf(c.peers[i]) = defaultRouteMaskOf(c.peers[j])
              /\ NonDefault(c.peers[i]) # {}

(* MUTANT: only equal entries clash. *)
validateEdgePeerSetEqual(c) ==
  /\ Len(c.peers) * Len(c.paths) <= MaxFanout
  /\ Len(c.peers) > 1 =>
       /\ \A i \in Indices(c.peers) \ ExitIndices(c) : defaultRouteMaskOf(c.peers[i]) = {}
       /\ ExitsAlternate(c)
       /\ \A i, j \in Indices(c.peers) :
             i # j => NonDefault(c.peers[i]) \cap NonDefault(c.peers[j]) = {}
       /\ EndpointsApart(c)

validateEdgePeerSet(c) ==
  /\ Len(c.peers) * Len(c.paths) <= MaxFanout
  /\ Len(c.peers) > 1 =>
       /\ \A i \in Indices(c.peers) \ ExitIndices(c) : defaultRouteMaskOf(c.peers[i]) = {}
       /\ ExitsAlternate(c)
       /\ \A i, j \in Indices(c.peers) :
             i # j => \A p \in NonDefault(c.peers[i]), q \in NonDefault(c.peers[j]) :
                         ~Overlaps(p, q)
       /\ EndpointsApart(c)

validExit(c) ==
  /\ c.exit # "" => c.role = "edge"
  /\ \A i \in Indices(c.peers) :
        c.peers[i].mode = "default-route" => c.peers[i].name # "auto"
  /\ c.exit \notin {"", "auto"} =>
       \E i \in Indices(c.peers) :
          c.peers[i].name = c.exit /\ c.peers[i].mode = "default-route"

validIdentities(c) ==
  IF Len(c.peers) = 1
    THEN c.peers[1].psk = ""
    ELSE /\ \A i \in Indices(c.peers) : c.peers[i].name # "" /\ c.peers[i].psk # ""
         /\ \A i, j \in Indices(c.peers) :
               i # j => /\ c.peers[i].name # c.peers[j].name
                        /\ c.peers[i].psk # c.peers[j].psk

(* sizes is <<jc, jmin, jmax, s1, s2>>; an initiation is 148 bytes, a       *)
(* response 92.                                                             *)
AmneziaValidate(a) ==
  Configured(a) =>
    /\ \A i \in 1..5 : a.sizes[i] > 0
    /\ a.sizes[2] <= a.sizes[3]
    /\ 148 + a.sizes[4] # 92 + a.sizes[5]
    /\ IsInjective(a.headers)

(* A dot_server ":853" has the empty host: it is no literal, so it passes   *)
(* as a hostname.                                                           *)
requireBootstrapForHost(d, host) ==
  IF host = "ip" THEN d.bootstrap = "" ELSE d.bootstrap = "ip"

DNSValidate(d) ==
  /\ d.resolver \in {"system", "doh", "dot"}
  /\ d.poll > 0 /\ d.timeout > 0
  /\ CASE d.resolver = "system" -> d.doh = "" /\ d.dot = "" /\ d.bootstrap = ""
       [] d.resolver = "doh" -> /\ d.dot = "" /\ d.doh \in {"ip", "name"}
                                /\ requireBootstrapForHost(d, d.doh)
       [] d.resolver = "dot" -> /\ d.doh = "" /\ d.dot \in {"ip", "name", ":853"}
                                /\ requireBootstrapForHost(d, d.dot)

(* A listen address is [port, loopback]; port 0 leaves the endpoint off. *)
MonitorValidate(m) == m.listen.port # 0 /\ ~m.listen.loopback => m.token # ""

validate(c) ==
  /\ c.role \in {"edge", "concentrator"}
  /\ validPaths(c)
  /\ c.private # "" /\ c.peers # <<>>
  /\ \A i \in Indices(c.peers) : validPeer(c, c.peers[i])
  /\ IF c.role = "edge" THEN validateEdgePeerSet(c) ELSE validateConcentratorDefaultRoutes(c)
  /\ validExit(c)
  /\ validIdentities(c)
  /\ c.role = "concentrator" => c.listenPort # 0
  /\ c.psk # ""
  /\ AmneziaValidate(c.amnezia)
  /\ c.policy = "adaptive"
  /\ DNSValidate(c.dns)
  /\ c.downAfter >= 2
  /\ MonitorValidate(c.monitor)

(* The file's mode, its TOML syntax and its unknown keys are one flag. *)
Load(c) == c.readable /\ normalizes(c) /\ validate(normalize(c))

-----------------------------------------------------------------------------
(* Boot: what device.up does with an accepted configuration c. *)

PeerIdentities(c) ==
  [i \in Indices(c.peers) |->
     [psk  |-> IF Len(c.peers) = 1 THEN c.psk ELSE c.peers[i].psk,
      name |-> IF c.peers[i].name = "" THEN c.peers[i].key ELSE c.peers[i].name]]

(* SetPrimaryPeerName, then AddConcentratorPeer for every further peer. *)
wirePeers(c) ==
  LET ids == PeerIdentities(c)
  IN  Len(ids) > 1 =>
        \A k \in Indices(ids) :
           /\ ids[k].name # "" /\ ids[k].psk # ""
           /\ \A j \in 1..(k - 1) : ids[j].name # ids[k].name

NewResolver(d) == d.resolver = "dot" => d.dot # ":853"

(* The first entry with an address, resolved being what DNS answers for a   *)
(* hostname (no address when it does not, or when there is no resolver):    *)
(* "" when the peer boots without.                                          *)
BootEndpoint(c, p, resolved) ==
  LET specs == EndpointSpecs(p)
      addrs == [i \in Indices(specs) |->
                  IF specs[i] \in Literals THEN <<specs[i]>>
                  ELSE IF NewResolver(c.dns) THEN resolved[specs[i]] ELSE <<>>]
      all == FlattenSeq(addrs)
  IN  IF all = <<>> THEN "" ELSE all[1]

resolveBootEndpoints(c, resolved) ==
  [i \in Indices(c.peers) |-> BootEndpoint(c, c.peers[i], resolved)]

(* SeedEdgePeerRemotes, then ParseEndpoint on each endpoint line: the peer  *)
(* whose virtual endpoint the engine stores for peer i.                     *)
ParseEndpoint(remotes, i) ==
  IF Len(remotes) = 1 THEN 1
  ELSE CHOOSE j \in Indices(remotes) :
         /\ remotes[j] = remotes[i]
         /\ \A k \in Indices(remotes) : remotes[k] = remotes[i] => k <= j

splitDefaultRoute(p) ==
  IF p = V4 THEN <<Lo4, Hi4>> ELSE IF p = V6 THEN <<Lo6, Hi6>> ELSE <<p>>

standbyExitPeers(c) ==
  {i \in ExitIndices(c) : \E j \in ExitIndices(c) : j < i}

(* The allowed_ip lines of peer i. *)
Rendered(c, i) ==
  LET kept == IF i \in standbyExitPeers(c)
                THEN SelectSeq(c.peers[i].allowed, LAMBDA p : ~isDefaultRoute(p))
                ELSE c.peers[i].allowed
  IN  FlattenSeq([k \in Indices(kept) |-> splitDefaultRoute(kept[k])])

uapiRenders(c) == \A i \in Indices(c.peers) : Rendered(c, i) # <<>>

(* The engine's trie after IpcSet: an entry belongs to the last peer that   *)
(* listed it, an address to the narrowest entry that covers it.             *)
EntryOwner(c, p) ==
  CHOOSE i \in Indices(c.peers) :
    /\ p \in ToSet(Rendered(c, i))
    /\ \A j \in Indices(c.peers) : p \in ToSet(Rendered(c, j)) => j <= i

Entries(c) == UNION {ToSet(Rendered(c, i)) : i \in Indices(c.peers)}

RouteOwner(c, a) ==
  LET covering == {p \in Entries(c) : a \in p}
  IN  EntryOwner(c, CHOOSE p \in covering :
                      \A q \in covering : Cardinality(p) <= Cardinality(q))

(* What IpcSet refuses: lengths or headers it could not classify by. *)
engineAccepts(c) ==
  Configured(c.amnezia) =>
    /\ 148 + c.amnezia.sizes[4] # 92 + c.amnezia.sizes[5]
    /\ IsInjective(c.amnezia.headers)

exitCapablePeerNames(c) == {PeerIdentities(c)[i].name : i \in ExitIndices(c)}

(* setMode knows the configured exit; there is a selector with two exits.   *)
exitKnown(c) ==
  Cardinality(ExitIndices(c)) > 1 => c.exit = "auto" \/ c.exit \in exitCapablePeerNames(c)

(* The routes installed for mode = "default-route". *)
defaultRoutePrefixes(c) ==
  UNION {ToSet(FlattenSeq([k \in Indices(c.peers[i].allowed) |->
                             splitDefaultRoute(c.peers[i].allowed[k])]))
         : i \in ExitIndices(c)}

-----------------------------------------------------------------------------
(* The sockets of one Open on a fixed port.  nic tells, for a source, the   *)
(* interface that holds it (dev, "" for the loopback), how many addresses   *)
(* of its family that carries (count), and whether any interface holds it   *)
(* at all (held).  All sources are of one family.                           *)

selectDeviceBinds(c, nic) ==
  [i \in Indices(c.paths) |->
     LET info == nic[c.paths[i].src.ip]
         alone == \A j \in Indices(c.paths) : nic[c.paths[j].src.ip].dev = info.dev => j = i
     IN  CASE c.paths[i].bind = "source" -> ""
           [] c.paths[i].bind = "device" -> info.dev
           [] OTHER -> IF info.dev # "" /\ info.count = 1 /\ alone THEN info.dev ELSE ""]

(* The kernel refuses a second socket on the port when neither device nor   *)
(* address tells the two apart; no device and the wildcard (ip 0) match any.*)
InUse(s, t) ==
  /\ s.dev = "" \/ t.dev = "" \/ s.dev = t.dev
  /\ s.ip = 0 \/ t.ip = 0 \/ s.ip = t.ip

(* The sockets listenPath tries, in order. *)
listenPath(p, dev) ==
  (IF dev = "" THEN <<>> ELSE <<[dev |-> dev, ip |-> 0]>>)
    \o <<[dev |-> "", ip |-> p.src.ip]>>

(* Open's loop over the paths: a source no interface holds is deferred, any *)
(* other failure is fatal.                                                  *)
OpenSockets(c, nic) ==
  LET plan == selectDeviceBinds(c, nic)
      Free(p, dev, taken) ==
        SelectSeq(listenPath(p, dev), LAMBDA s : \A t \in taken : ~InUse(s, t))
      opened[i \in 0..Len(c.paths)] ==
        IF i = 0 THEN {}
        ELSE LET free == Free(c.paths[i], plan[i], opened[i - 1])
             IN  IF ~nic[c.paths[i].src.ip].held \/ free = <<>>
                   THEN opened[i - 1] ELSE opened[i - 1] \cup {free[1]}
  IN  opened[Len(c.paths)]

OpenFails(c, nic) ==
  Cardinality(OpenSockets(c, nic))
    < Cardinality({i \in Indices(c.paths) : nic[c.paths[i].src.ip].held})

-----------------------------------------------------------------------------
(* Reload. *)

PathNames(c) == {c.paths[i].name : i \in Indices(c.paths)}

reordered(live, desired) ==
  LET common == PathNames(live) \cap PathNames(desired)
      Common(c) == SelectSeq([i \in Indices(c.paths) |-> c.paths[i].name],
                             LAMBDA n : n \in common)
  IN  Common(live) # Common(desired)

(* The fields reloadWarnings compares one by one; the catch-all compares    *)
(* what is left once these, the paths and the endpoints are blanked.        *)
Compared == {"role", "exit", "psk", "peers", "private", "listenPort", "amnezia",
             "log", "persist", "dns", "downAfter", "bind", "policy"}

reloadWarnings(live, desired) ==
  {f \in Compared : live[f] # desired[f]}
  \cup {<<live.paths[i].name, "binding">> :
          i \in {k \in Indices(live.paths) :
                   \E j \in Indices(desired.paths) :
                      /\ desired.paths[j].name = live.paths[k].name
                      /\ \/ desired.paths[j].src # live.paths[k].src
                         \/ desired.paths[j].bind # live.paths[k].bind}}
  \cup (IF reordered(live, desired) THEN {"order"} ELSE {})

runningConfig(live, add, remove) ==
  [live EXCEPT !.paths = SelectSeq(@, LAMBDA p : p.name \notin remove) \o add]
=============================================================================
