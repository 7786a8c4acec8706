------------------------------ MODULE MCTunnel ------------------------------
(***************************************************************************)
(* An instance of TunnelLifecycle for TLC.  Most files only ask what Load   *)
(* makes of them: each slice below varies one group of keys of a base file  *)
(* and leaves the rest alone.  A few are followed through the life of the   *)
(* daemon.                                                                  *)
(***************************************************************************)
EXTENDS TunnelLifecycle

Half4a == {1, 2, 3}
Half4b == {4, 5}
Half6a == {11}
Half6b == {12}

Off == [port |-> 0, loopback |-> TRUE]
At(n) == [port |-> n, loopback |-> TRUE]

PathA == [name |-> "a", src |-> [ip |-> 1, mapped |-> FALSE], bind |-> "", mtu |-> 0, ride |-> Omitted]
PathB == [PathA EXCEPT !.name = "b", !.src.ip = 2]

PeerOf(name, psk, endpoint, mode, allowed) ==
  [name |-> name, key |-> "K" \o name, psk |-> psk, endpoint |-> endpoint, endpoints |-> <<>>,
   dns |-> FALSE, mode |-> mode, allowed |-> allowed]

Base ==
  [readable |-> TRUE, role |-> "edge", exit |-> "", bind |-> "", paths |-> <<PathA>>,
   private |-> "P", psk |-> "top", listenPort |-> 0,
   peers |-> <<PeerOf("x", "", "e1", "", <<{1}>>)>>,
   amnezia |-> [sizes |-> <<0, 0, 0, 0, 0>>, headers |-> <<0, 0, 0, 0>>],
   policy |-> "", log |-> "info", persist |-> FALSE, downAfter |-> Omitted,
   dns |-> [resolver |-> "", poll |-> Omitted, timeout |-> Omitted, doh |-> "", dot |-> "", bootstrap |-> ""],
   monitor |-> [listen |-> Off, token |-> ""], metrics |-> Off, sane |-> TRUE]

UpTo2(S) == {<<>>} \cup {<<p>> : p \in S} \cup {<<p, q>> : p, q \in S}

(* Who carries which prefixes. *)
Allowed == UpTo2({V4, {1}, {1, 2}, {4}})
Routing ==
  {[Base EXCEPT !.peers = <<PeerOf("x", "s", "e1", m1, al1), PeerOf("y", "t", "e2", m2, al2)>>] :
     m1, m2 \in {"", "default-route"}, al1, al2 \in Allowed}

RoutingHub ==
  {[Base EXCEPT !.role = "concentrator", !.listenPort = 1,
      !.peers = <<PeerOf("x", "s", "", "", al1), PeerOf("y", "t", "", "", al2)>>] :
     al1, al2 \in UpTo2({V4, V6, {}, {4}})}

(* Names, keys and pre-shared keys. *)
Identity ==
  {[Base EXCEPT !.exit = x,
      !.peers = <<[PeerOf(n1, s1, "e1", m1, <<{1}>>) EXCEPT !.key = "K1"],
                  [PeerOf(n2, s2, "e2", "default-route", <<{2}>>) EXCEPT !.key = "K2"]>>] :
     x \in {"", "auto", "x"}, n1, n2 \in {"", "x", "y", "auto"}, s1, s2 \in {"", "s", "t"},
     m1 \in {"", "default-route"}}

Alone ==
  {[Base EXCEPT !.role = r, !.exit = x, !.listenPort = port, !.private = k, !.psk = k,
      !.peers = <<[PeerOf("x", ps, e, m, <<{1}>>) EXCEPT !.dns = d]>>] :
     r \in {"edge", "concentrator", "other"}, x \in {"", "auto", "x"}, port \in {0, 1},
     k \in {"", "P"}, ps \in {"", "s"}, e \in {"", "e1"},
     m \in {"", "default-route", "other"}, d \in BOOLEAN}

(* Endpoints: literals, a hostname, a malformed entry. *)
Specs == UpTo2({"e1", "h1", "?"})
Endpoint ==
  {[Base EXCEPT !.peers =
      <<[PeerOf("x", "s", one, "", <<{1}>>) EXCEPT !.endpoints = list1, !.dns = d1],
        [PeerOf("y", "t", "", "", <<{2}>>) EXCEPT !.endpoints = list2, !.dns = TRUE]>>] :
     one \in {"", "e1"}, list1, list2 \in Specs, d1 \in BOOLEAN}

(* Paths: sources in both spellings, binding modes, sizes. *)
Source == [ip : {0, 1, 2, 3}, mapped : BOOLEAN]
Sources ==
  {[Base EXCEPT !.bind = b, !.paths = <<[PathA EXCEPT !.src = s1, !.bind = b1],
                                        [PathB EXCEPT !.src = s2, !.bind = b2]>>] :
     b \in {"", "source"}, s1, s2 \in Source, b1, b2 \in {"", "device"}}

Sizes ==
  {[Base EXCEPT !.paths = <<[PathA EXCEPT !.mtu = mtu, !.ride = ride, !.src.ip = ip]>>] :
     mtu \in {0, 1279, 1280, 9001}, ride \in {Omitted, Garbled, -1, 5}, ip \in {1, Garbled}}
  \cup
  {[Base EXCEPT !.paths = <<[PathA EXCEPT !.name = n, !.bind = b]>>, !.downAfter = down, !.policy = pol] :
     n \in {"", "a"}, b \in {"", "other"}, down \in {Omitted, Garbled, 1, 2, 20}, pol \in {"", "other"}}

Fanout == {[Base EXCEPT !.paths = [i \in 1..n |-> [PathA EXCEPT !.name = <<"a", "b", "c", "d">>[i], !.src.ip = i]],
                        !.peers = <<PeerOf("x", "s", "e1", "", <<{1}>>),
                                    PeerOf("y", "t", "e2", "", <<{2}>>)>>] : n \in 1..3}

(* The obfuscation profile, the resolver and the endpoints. *)
Amnezias ==
  {[Base EXCEPT !.amnezia = [sizes |-> <<jc, 1, jmax, s1, s2>>, headers |-> h]] :
     jc \in {0, 3}, jmax \in {0, 2}, s1 \in {0, 1}, s2 \in {1, 57},
     h \in {<<0, 0, 0, 0>>, <<5, 6, 7, 8>>, <<5, 0, 0, 0>>}}

Resolvers ==
  {[Base EXCEPT !.dns = [resolver |-> r, poll |-> p, timeout |-> t, doh |-> doh, dot |-> dot, bootstrap |-> bs],
                !.peers = <<PeerOf("x", "s", "e1", "", <<{1}>>),
                            [PeerOf("y", "t", "h1", "", <<{2}>>) EXCEPT !.dns = TRUE]>>] :
     r \in {"", "doh", "dot", "other"}, p \in {Omitted, 0}, t \in {Omitted},
     doh \in {"", "ip", "name", "?"}, dot \in {"", "ip", "name", ":853", "?"},
     bs \in {"", "ip", "?"}}

Listeners ==
  {[Base EXCEPT !.readable = ok, !.monitor = [listen |-> l, token |-> tk], !.peers = ps] :
     ok \in BOOLEAN, l \in {Off, At(1), [port |-> 1, loopback |-> FALSE]}, tk \in {"", "T"},
     ps \in {<<>>, Base.peers, <<[Base.peers[1] EXCEPT !.key = ""]>>}}

(* The files whose life is followed. *)
Full ==
  [Base EXCEPT !.paths = <<PathA, PathB>>, !.persist = TRUE, !.metrics = At(1),
               !.peers = <<PeerOf("x", "", "e1", "default-route", <<{1}>>)>>]
Moved ==
  [Full EXCEPT !.paths = <<PathA, [PathB EXCEPT !.name = "c", !.src.ip = 3]>>,
               !.metrics = At(2), !.monitor = [listen |-> At(1), token |-> "T"]]
Exits ==
  [Base EXCEPT !.paths = <<[PathA EXCEPT !.ride = 10]>>, !.metrics = At(1),
               !.monitor = [listen |-> At(3), token |-> "T"],
               !.peers = <<PeerOf("x", "s", "e1", "default-route", <<V4, {1}>>),
                           PeerOf("y", "t", "e2", "default-route", <<V4, {2}>>)>>]
Broken == [Full EXCEPT !.psk = ""]
Hub ==
  [Base EXCEPT !.role = "concentrator", !.listenPort = 1, !.metrics = [port |-> 1, loopback |-> FALSE],
               !.peers = <<PeerOf("x", "s", "", "", <<{1}>>), PeerOf("y", "t", "", "", <<{2}>>)>>]

GoodLives == {Full, Moved, Exits}
Lives == {Full, Moved, Exits, Broken, Hub}

Slices ==
  UNION {Routing, RoutingHub, Identity, Alone, Endpoint, Sources, Sizes, Fanout, Amnezias,
         Resolvers, Listeners}

AllFiles == Slices \cup Lives

Answers == {[h \in {"h1"} |-> <<>>], [h \in {"h1"} |-> <<"e1">>], [h \in {"h1"} |-> <<"e3">>]}

NicOf(dev, count) == [dev |-> dev, count |-> count, held |-> TRUE]
Interfaces ==
  {n @@ (4 :> NicOf("", 1)) :
     n \in [1..3 -> {NicOf("eth0", 1), NicOf("eth0", 2), NicOf("eth1", 1), NicOf("", 1)}]}

Tools == {{"iptables", "ip6tables"}, {"iptables", "nft"}}
=============================================================================
