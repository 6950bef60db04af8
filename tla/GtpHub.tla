------------------------------- MODULE GtpHub -------------------------------
(***************************************************************************)
(* gtphub, the GTP proxy between SGSNs and GGSNs (gtphub.c), and its       *)
(* asynchronous GGSN lookups (gtphub_ares.c).                              *)
(*                                                                         *)
(* The hub is single threaded.  Its inputs are datagrams, the answers of   *)
(* the resolver and the garbage collection timer; each is one action, and  *)
(* the hub is the struct gtphub that the handler's steps pass along.  A    *)
(* handler that returns early keeps the changes made until then.           *)
(*                                                                         *)
(* A peer port is identified by its bind (side and plane), address and     *)
(* port number, a peer by its bind and address: every peer of the code has *)
(* one address.  A tunnel is identified by the memory it occupies, which a *)
(* later tunnel may reuse.  Times are ticks left to live.  Payload, rate   *)
(* counters, the rewriting of GSN Address and Recovery IEs and log text    *)
(* are left out; so are packets that gtp_decode refuses, and Echo Requests,*)
(* which the hub answers without touching its state.                       *)
(***************************************************************************)
EXTENDS Integers, FiniteSets, Lists

CONSTANTS
  Setups,     \* networks by name: hub->proxy, the datagrams the GSNs may send,
              \* and max_tunnels; bound: no Create Request beyond it
  Addrs,      \* addresses of GSNs
  PortNrs,    \* UDP port numbers
  TunIds,     \* memory for tunnels
  Apns,       \* APNs that Create Requests ask for
  Answers,    \* addresses the resolver may return
  TeiMax,     \* last number of hub->tei_pool (0xffffffff)
  SeqMax,     \* last number of a peer's seq_pool (0xffff)
  SeqInit,    \* seq_pool.last_nr of a new peer (0x6d30)
  Quick,      \* ticks to live on expire_quickly (30 s)
  Slow,       \* ticks to live on expire_slowly (6 h)
  UseSender,  \* hub->sgsn_use_sender
  NoPort, NoPeer, NoTun, NoApn, NoAddr, NoNsapi   \* null pointers, absent IEs

Sides == {"sgsn", "ggsn"}
Planes == {"ctrl", "user"}
other_side_idx(s) == IF s = "sgsn" THEN "ggsn" ELSE "sgsn"
DefaultPort(pl) == IF pl = "ctrl" THEN 2123 ELSE 2152

PortIds == [side : Sides, plane : Planes, addr : Addrs, port : PortNrs]
PeerIds == [side : Sides, plane : Planes, addr : Addrs]
PeerOf(pp) == [side |-> pp.side, plane |-> pp.plane, addr |-> pp.addr]
PortOf(s, pl, a, n) == [side |-> s, plane |-> pl, addr |-> a, port |-> n]

\* A datagram after gtp_decode: where it came from, the header's type, TEI and
\* sequence number, and the IEs the hub looks at.  "update" stands for the
\* Update PDP Context messages and every other type without a handler;
\* apn for the IMSI and APN IEs, nsapi for the NSAPI and Teardown Ind IEs, cause
\* for an accepting Cause IE; an IE's tei is 0 when there is no such IE; fits: the
\* GSN Address IE has the length of the hub's own address.
IeType == [addr : Addrs \cup {NoAddr}, tei : Nat, fits : BOOLEAN]
PacketType ==
  [version : {0, 1}, side : Sides, plane : Planes, addr : Addrs, port : PortNrs,
   type : {"create_req", "create_rsp", "delete_req", "delete_rsp", "update", "user"},
   tei : 0..TeiMax, seq : 0..SeqMax, recovery : {-1} \cup 0..255,
   apn : Apns \cup {NoApn}, ie : [Planes -> IeType],
   nsapi : (0..15) \cup {NoNsapi}, cause : BOOLEAN]

ASSUME HubAssumption ==
  /\ {2123, 2152} \subseteq PortNrs
  /\ PortNrs \subseteq Nat
  /\ IsFiniteSet(TunIds)
  /\ \A c \in {Setups[n] : n \in DOMAIN Setups} :
       /\ c.max_tunnels \in 1..Cardinality(TunIds)
       /\ c.packets \subseteq PacketType
       /\ \A p \in c.packets : p.plane = "user" <=> p.type = "user"
       /\ \A p \in c.packets : p.type = "user" => p.recovery = -1 /\ p.apn = NoApn
       /\ c.proxy \in [Sides -> [Planes -> PortIds \cup {NoPort}]]
       /\ \A s \in Sides, pl \in Planes :
            c.proxy[s][pl] # NoPort => c.proxy[s][pl].side = s /\ c.proxy[s][pl].plane = pl
  /\ Answers \subseteq Addrs
  /\ TeiMax \in Nat \ {0}
  /\ SeqMax \in Nat \ {0}
  /\ SeqInit \in 0..SeqMax
  /\ Quick \in Nat
  /\ Slow \in Nat /\ Quick < Slow
  /\ UseSender \in BOOLEAN
  /\ NoPort \notin PortIds
  /\ NoPeer \notin PeerIds
  /\ NoTun \notin TunIds
  /\ NoApn \notin Apns
  /\ NoAddr \notin Addrs
  /\ NoNsapi \notin 0..15

VARIABLES
  setup,    \* the network the hub is configured for
  hub,      \* struct gtphub and what it owns
  queries,  \* queries c-ares has not answered, and whether their lookup lives
  status    \* "up", or why the process died

vars == <<setup, hub, queries, status>>

EndpointType == [peer : PortIds \cup {NoPort}, tei : Nat]
TunnelType == [tei_repl : 1..TeiMax, ttl : 0..Slow,
               endpoint : [Sides -> [Planes -> EndpointType]]]
MappingType == [peer : PeerIds \cup {NoPeer}, origin : PortIds,
                orig : 0..SeqMax, repl : 0..SeqMax, ttl : 0..Quick]
PendingType == [tun : TunIds, nsapi : 0..15, ttl : 0..Quick]
ResolvedType == [apn : Apns, peer : PortIds, ttl : 0..Slow]
LookupType == [apn : Apns, ttl : 0..Quick]
QueryType == [apn : Apns, have_3dig_mnc : BOOLEAN, live : BOOLEAN]

Statuses == {"up", "assert version", "assert tunnel", "TEI range exhausted",
             "use after free"}

-----------------------------------------------------------------------------
(* Functions with a changing domain, and lists.                            *)

Put(f, k, v) == [x \in DOMAIN f \cup {k} |-> IF x = k THEN v ELSE f[x]]
Without(f, S) == [x \in DOMAIN f \ S |-> f[x]]
\* The first of the indexes I of a list; 0: none.
First(I) == IF I = {} THEN 0 ELSE CHOOSE i \in I : \A j \in I : i <= j

-----------------------------------------------------------------------------
(* Number pools, peers and reference counts.                               *)

nr_pool_next_PastEnd(last, min, max) == IF last > max THEN min ELSE last + 1
nr_pool_next(last, min, max) == IF last >= max THEN min ELSE last + 1

ref_count_inc(h, pp) == [h EXCEPT !.ports[pp].ref_count = @ + 1]
ref_count_dec(h, pp) == [h EXCEPT !.ports[pp].ref_count = @ - 1]

\* Find or create the peer, its address and the port.
port_have(h, pp) ==
  [h EXCEPT
     !.seq_pool = IF PeerOf(pp) \in DOMAIN @ THEN @ ELSE Put(@, PeerOf(pp), SeqInit),
     !.ports = IF pp \in DOMAIN @ THEN @
               ELSE Put(@, pp, [ref_count |-> 0, last_restart_count |-> -1])]

\* gtphub_start: the configured proxies are the first ports.
Proxies == {Setups[setup].proxy[s][pl] : s \in Sides, pl \in Planes} \ {NoPort}

start ==
  [ports |-> [pp \in Proxies |-> [ref_count |-> 1, last_restart_count |-> -1]],
   seq_pool |-> [peer \in {PeerOf(pp) : pp \in Proxies} |-> SeqInit],
   seq_map |-> <<>>, tunnels |-> <<>>, tun |-> [t \in {} |-> 0],
   tei_pool |-> TeiMax, pending_deletes |-> <<>>, resolved |-> <<>>, lookups |-> {}]

endpoint_set_peer_KeepsRef(h, t, s, pl, pp) ==
  LET h1 == [h EXCEPT !.tun[t].endpoint[s][pl].peer = pp]
  IN  IF pp = NoPort THEN h1 ELSE ref_count_inc(h1, pp)

endpoint_set_peer(h, t, s, pl, pp) ==
  LET old == h.tun[t].endpoint[s][pl].peer
      h1 == IF old = NoPort THEN h ELSE ref_count_dec(h, old)
      h2 == [h1 EXCEPT !.tun[t].endpoint[s][pl].peer = pp]
  IN  IF pp = NoPort THEN h2 ELSE ref_count_inc(h2, pp)

-----------------------------------------------------------------------------
(* The deletion callbacks of the expiring items.                           *)

\* Ports when n[pp] references to each pp are dropped.
ref_counts_dec(ports, n) ==
  [pp \in DOMAIN ports |-> [ports[pp] EXCEPT !.ref_count = @ - n[pp]]]

\* Sides S of the tunnels T lose their peers.
clear_sides(h, T, S) ==
  LET n == [pp \in DOMAIN h.ports |->
              Cardinality({e \in T \X S \X Planes :
                             h.tun[e[1]].endpoint[e[2]][e[3]].peer = pp})]
      Cleared(t) ==
        [s \in Sides |-> [pl \in Planes |->
           IF s \in S THEN [peer |-> NoPort, tei |-> h.tun[t].endpoint[s][pl].tei]
           ELSE h.tun[t].endpoint[s][pl]]]
  IN  [h EXCEPT
         !.ports = ref_counts_dec(h.ports, n),
         !.tun = [t \in DOMAIN h.tun |->
                    IF t \in T THEN [h.tun[t] EXCEPT !.endpoint = Cleared(t)] ELSE h.tun[t]]]

\* The tunnels T are freed.  A pending delete of a tunnel is left as it is.
tunnels_del(h, T) ==
  LET h1 == clear_sides(h, T, Sides)
  IN  [h1 EXCEPT !.tunnels = Kept(h1.tunnels, Range(h1.tunnels) \ T),
                 !.tun = Without(h1.tun, T)]

Unexpired(item) == item.ttl > 0
Alive(items) == {item \in Range(items) : Unexpired(item)}

mappings_expire(h) ==
  LET n == [pp \in DOMAIN h.ports |->
              Cardinality({i \in DOMAIN h.seq_map :
                             h.seq_map[i].origin = pp /\ ~Unexpired(h.seq_map[i])})]
  IN  [h EXCEPT !.ports = ref_counts_dec(h.ports, n),
                !.seq_map = Kept(h.seq_map, Alive(h.seq_map))]

resolved_expire(h) ==
  LET n == [pp \in DOMAIN h.ports |->
              Cardinality({i \in DOMAIN h.resolved :
                             h.resolved[i].peer = pp /\ ~Unexpired(h.resolved[i])})]
  IN  [h EXCEPT !.ports = ref_counts_dec(h.ports, n),
                !.resolved = Kept(h.resolved, Alive(h.resolved))]

tunnels_expire(h) == tunnels_del(h, {t \in DOMAIN h.tun : ~Unexpired(h.tun[t])})

\* The callback of every item whose time has come.
expiry_tick(h) ==
  [resolved_expire(tunnels_expire(mappings_expire(h))) EXCEPT
     !.pending_deletes = Kept(h.pending_deletes, Alive(h.pending_deletes)),
     !.lookups = {l \in h.lookups : Unexpired(l)}]

-----------------------------------------------------------------------------
(* Mapping sequence numbers: the map of a peer holds what was sent to it.  *)

seq_mapped(h, peer, origin, orig) ==
  First({i \in DOMAIN h.seq_map :
           LET m == h.seq_map[i] IN m.peer = peer /\ m.origin = origin /\ m.orig = orig})

map_seq(h, from, to, seq) ==
  LET peer == PeerOf(to)
      i == seq_mapped(h, peer, from, seq)
      repl == nr_pool_next(h.seq_pool[peer], 0, SeqMax)
      m == [peer |-> peer, origin |-> from, orig |-> seq, repl |-> repl, ttl |-> Quick]
  IN  IF i # 0
      THEN [h EXCEPT !.seq_map[i].ttl = Quick]
      ELSE ref_count_inc([h EXCEPT !.seq_pool[peer] = repl, !.seq_map = Append(@, m)], from)

\* The port that a response with this number answers, NoPort if none.
unmap_seq(h, from, seq) ==
  LET i == First({j \in DOMAIN h.seq_map :
                    h.seq_map[j].peer = PeerOf(from) /\ h.seq_map[j].repl = seq})
  IN  IF i = 0 THEN NoPort ELSE h.seq_map[i].origin

-----------------------------------------------------------------------------
(* TEIs.                                                                   *)

check_mapped_tei_KeepsTaken(a, its) ==
  [a EXCEPT !.tei_max = IF @ > its THEN @ ELSE its]

\* gtphub_check_mapped_tei: a is the new tunnel's mapped TEI (mine), tei_min and
\* tei_max so far, and whether a mapped TEI could be found; its that of a tunnel.
check_mapped_tei(a, its) ==
  LET lo == IF a.tei_min < its THEN a.tei_min ELSE its
      hi == IF a.tei_max > its THEN a.tei_max ELSE its
      Use(tei, min, max) == [mine |-> tei, tei_min |-> min, tei_max |-> max, found |-> TRUE]
  IN  CASE a.mine # its   -> Use(a.mine, lo, hi)
        [] a.mine = its /\ hi < TeiMax -> Use(hi + 1, lo, hi + 1)
        [] a.mine = its /\ hi >= TeiMax /\ lo > 1 -> Use(lo - 1, lo - 1, hi)
        [] OTHER -> [a EXCEPT !.found = FALSE]

\* The mapped TEI after the check against those on a list of other tunnels.
mapped_tei(h, new, list) ==
  LET a[n \in 0..Len(list)] ==
        IF n = 0
        THEN [mine |-> h.tun[new].tei_repl, tei_min |-> TeiMax, tei_max |-> 0, found |-> TRUE]
        ELSE IF a[n - 1].found THEN check_mapped_tei(a[n - 1], h.tun[list[n]].tei_repl)
        ELSE a[n - 1]
  IN  a[Len(list)]

\* A GSN announced for tunnel new a TEI that tunnel t has from the same GSN.
reused_tei(h, new, t) ==
  \E s \in Sides, pl \in Planes :
    LET te == h.tun[t].endpoint[s][pl]
        te2 == h.tun[new].endpoint[s][pl]
    IN  /\ te.tei # 0 /\ te.tei = te2.tei
        /\ te.peer # NoPort /\ te2.peer # NoPort
        /\ te.peer.addr = te2.peer.addr

\* The tunnels stale are freed, the others' mapped TEIs are not used again.
free_stale(h, new, stale) ==
  LET a == mapped_tei(h, new, Kept(h.tunnels, Range(h.tunnels) \ (stale \cup {new})))
      tun == [h.tun[new] EXCEPT !.tei_repl = a.mine]
  IN  [found |-> a.found,
       h |-> tunnels_del([h EXCEPT !.tun = [h.tun EXCEPT ![new] = tun]], stale)]

check_reused_teis_KeepsStale(h, new) == free_stale(h, new, {})

check_reused_teis(h, new) ==
  free_stale(h, new, {t \in Range(h.tunnels) \ {new} : reused_tei(h, new, t)})

unmap_tei_AnySender(h, p, from) ==
  LET i == First({j \in DOMAIN h.tunnels : h.tun[h.tunnels[j]].tei_repl = p.tei})
  IN  IF i = 0 THEN NoTun ELSE h.tunnels[i]

\* The tunnel whose mapped TEI the header names, for this sender.
unmap_tei(h, p, from) ==
  LET Match(tun) == /\ tun.tei_repl = p.tei
                    /\ tun.endpoint[p.side][p.plane].peer # NoPort
                    /\ tun.endpoint[p.side][p.plane].peer.addr = from.addr
      i == First({j \in DOMAIN h.tunnels : Match(h.tun[h.tunnels[j]])})
  IN  IF i = 0 THEN NoTun ELSE h.tunnels[i]

-----------------------------------------------------------------------------
(* A peer's restart counter.                                               *)

\* Tell the other side's GSNs that the tunnels of pp's peer are void.
restarted(h, pp) ==
  LET s == pp.side
      o == other_side_idx(s)
      hits == {t \in DOMAIN h.tun :
                 /\ h.tun[t].endpoint[s]["ctrl"].peer # NoPort
                 /\ h.tun[t].endpoint[o]["ctrl"].tei # 0
                 /\ PeerOf(h.tun[t].endpoint[s]["ctrl"].peer) = PeerOf(pp)}
      \* gtphub_send_del_pdp_ctx takes a number of the receiver's pool for each
      sent == [peer \in DOMAIN h.seq_pool |->
                 Cardinality({t \in hits :
                                LET to == h.tun[t].endpoint[o]["ctrl"].peer
                                IN  to # NoPort /\ PeerOf(to) = peer})]
      seq_pool == [peer \in DOMAIN h.seq_pool |->
                     (h.seq_pool[peer] + sent[peer]) % (SeqMax + 1)]
  IN  [clear_sides(h, hits, {s}) EXCEPT !.seq_pool = seq_pool]

check_restart_counter(h, p, from) ==
  LET last == h.ports[from].last_restart_count
      h1 == IF last # -1 /\ last # p.recovery THEN restarted(h, from) ELSE h
  IN  IF p.recovery = -1 THEN h
      ELSE [h1 EXCEPT !.ports[from].last_restart_count = p.recovery]

-----------------------------------------------------------------------------
(* gtphub_handle_buf up to the message handlers.                           *)

\* The sender's port, NoPort if the packet is dropped: a proxy admits no other
\* sender; a GGSN must be known, an SGSN may introduce itself on Ctrl.
sender(h, p) ==
  LET pp == PortOf(p.side, p.plane, p.addr, p.port)
      proxy == Setups[setup].proxy[p.side][p.plane]
  IN  IF proxy # NoPort
      THEN IF proxy = pp THEN pp ELSE NoPort
      ELSE IF PeerOf(pp) \in DOMAIN h.seq_pool \/ (p.side = "sgsn" /\ p.plane = "ctrl")
           THEN pp ELSE NoPort

\* What the packet is found to be about: the hub so far (h), the sender (from),
\* the tunnel (tun), who the sequence number answers (from_seq) and where the
\* packet goes (to).  ok is FALSE when the header names an unknown TEI.
unmap(h, p, from) ==
  LET tun == IF p.tei = 0 THEN NoTun ELSE unmap_tei(h, p, from)
      h1 == IF tun = NoTun THEN h ELSE [h EXCEPT !.tun[tun].ttl = Slow]
      from_seq == unmap_seq(h, from, p.seq)
      from_tei == IF tun = NoTun THEN NoPort
                  ELSE h.tun[tun].endpoint[other_side_idx(p.side)][p.plane].peer
      proxy == Setups[setup].proxy[other_side_idx(p.side)][p.plane]
  IN  [h |-> h1, from |-> from, tun |-> tun, from_seq |-> from_seq,
       ok |-> p.tei = 0 \/ tun # NoTun,
       to |-> IF proxy # NoPort THEN proxy
              ELSE IF from_seq # NoPort THEN from_seq ELSE from_tei]

\* gtphub_resolve_ggsn for an SGSN's packet that has no receiver yet: needed
\* when it has an APN IE, and successful when the APN is in the cache.
resolvable(d, p) == d.ok /\ d.to = NoPort /\ p.side = "sgsn" /\ p.apn # NoApn
cached(h, apn) == First({i \in DOMAIN h.resolved : h.resolved[i].apn = apn})
pending(h, apn) == \E l \in h.lookups : l.apn = apn
resolve_ggsn(d, p) ==
  IF resolvable(d, p) /\ ~pending(d.h, p.apn) /\ cached(d.h, p.apn) # 0
  THEN [d EXCEPT !.to = d.h.resolved[cached(d.h, p.apn)].peer]
  ELSE d
must_look_up(d, p) ==
  resolvable(d, p) /\ ~pending(d.h, p.apn) /\ cached(d.h, p.apn) = 0

packet_desc(p) ==
  LET from == sender(hub, p)
  IN  resolve_ggsn(unmap(check_restart_counter(port_have(hub, from), p, from), p, from), p)

Received(p) == status = "up" /\ sender(hub, p) # NoPort

\* The packet is forwarded, or not: what remains of the handler.
Forward(h, d, p) ==
  hub' = IF d.from_seq = NoPort THEN map_seq(h, d.from, d.to, p.seq) ELSE h
\* The process dies, and with it everything it knows.
Die(why) == status' = why /\ hub' = start /\ queries' = {}

-----------------------------------------------------------------------------
(* Messages.                                                               *)

\* unmap_seq asserts GTP version 1, which gtp_decode does not.
RxVersion0(p) == p.version = 0 /\ Received(p) /\ Die("assert version")

\* A Delete Response for a tunnel whose other side is void: restarted peer.
invalidated_delete(d, p) ==
  d.tun # NoTun /\ p.type = "delete_rsp" /\ ~resolvable(d, p)

\* Unknown TEI, no receiver, or an APN that has to be looked up first.
RxDropped(p) ==
  /\ p.version = 1 /\ Received(p)
  /\ \E d \in {packet_desc(p)} :
         /\ ~d.ok \/ (d.to = NoPort /\ ~invalidated_delete(d, p))
         /\ IF must_look_up(d, p)
            THEN /\ hub' = [d.h EXCEPT !.lookups = @ \cup {[apn |-> p.apn, ttl |-> Quick]}]
                 /\ queries' = queries \cup
                      {[apn |-> p.apn, have_3dig_mnc |-> FALSE, live |-> TRUE]}
            ELSE hub' = d.h /\ UNCHANGED queries
         /\ UNCHANGED status

RxDeleteRspInvalidated(p) ==
  /\ p.type = "delete_rsp" /\ p.version = 1 /\ Received(p)
  /\ \E d \in {packet_desc(p)} :
         /\ d.ok /\ d.to = NoPort /\ invalidated_delete(d, p)
         /\ hub' = tunnels_del(d.h, {d.tun})
         /\ UNCHANGED <<queries, status>>

\* A packet of these types that has a receiver.
Routable(p, types) == p.type \in types /\ p.version = 1 /\ Received(p)
Routed(d) == d.ok /\ d.to # NoPort

\* The IEs of one plane in a Create Request or Response.  rc is 0 while the
\* handler goes on, -1 once it returned an error, 1 where it aborts.
Return(rc, h) == [rc |-> rc, h |-> h]

\* Replace the GSN address, given the result c of the search for reused TEIs.
put_addr(c, ie) == Return(IF ~c.found THEN 1 ELSE IF ~ie.fits THEN -1 ELSE 0, c.h)

\* The TEI, after the endpoint's peer is set.  The code writes the mapped TEI into the
\* outgoing IE before the search may replace it in the tunnel; the IE is left out.
create_tei(h, ie, p, t, pl) ==
  IF ie.tei # 0
  THEN put_addr(check_reused_teis([h EXCEPT !.tun[t].endpoint[p.side][pl].tei = ie.tei], t), ie)
  ELSE IF h.tun[t].endpoint[p.side][pl].tei = 0 THEN Return(-1, h)
  ELSE put_addr([h |-> h, found |-> TRUE], ie)

create_plane(r, d, p, t, pl) ==
  LET ie == p.ie[pl]
      pp == IF UseSender /\ p.side = "sgsn"
            THEN PortOf(p.side, pl, d.from.addr, d.from.port)
            ELSE PortOf(p.side, pl, ie.addr, DefaultPort(pl))
  IN  IF r.rc # 0 THEN r
      ELSE IF ie.addr = NoAddr \/ (ie.tei = 0 /\ p.type = "create_req") THEN Return(-1, r.h)
      ELSE create_tei(endpoint_set_peer(port_have(r.h, pp), t, p.side, pl, pp), ie, p, t, pl)

create_planes(h, d, p, t) ==
  create_plane(create_plane([rc |-> 0, h |-> h], d, p, t, "ctrl"), d, p, t, "user")

\* The end of a Create message's handler, given its result.
Created(r, d, p) ==
  IF r.rc = 1
  THEN Die("TEI range exhausted")
  ELSE /\ IF r.rc = 0 THEN Forward(r.h, d, p) ELSE hub' = r.h
       /\ UNCHANGED <<queries, status>>

\* The endpoints of a zeroed struct gtphub_tunnel.
NewEndpoints == [s \in Sides |-> [pl \in Planes |-> [peer |-> NoPort, tei |-> 0]]]

\* The tunnel, head of the list, that a Create Request starts.
new_tunnel(h, t, to) ==
  LET tei == nr_pool_next(h.tei_pool, 1, TeiMax)
      h1 == [h EXCEPT
               !.tei_pool = tei, !.tunnels = <<t>> \o @,
               !.tun = Put(@, t, [tei_repl |-> tei, ttl |-> Slow, endpoint |-> NewEndpoints])]
  IN  endpoint_set_peer(h1, t, "ggsn", "ctrl", to)

RxCreateReq(p, t) ==
  /\ Routable(p, {"create_req"}) /\ p.side = "sgsn"
  /\ t \notin DOMAIN hub.tun
  /\ Cardinality(DOMAIN hub.tun) < Setups[setup].max_tunnels
  /\ \E d \in {packet_desc(p)} :
         /\ Routed(d) /\ d.tun = NoTun
         /\ Created(create_planes(new_tunnel(d.h, t, d.to), d, p, t), d, p)

RxCreateRsp(p) ==
  /\ Routable(p, {"create_rsp"}) /\ p.side = "ggsn"
  /\ \E d \in {packet_desc(p)} :
         /\ Routed(d)
         /\ IF d.tun = NoTun THEN Die("assert tunnel")
            ELSE Created(create_planes(d.h, d, p, d.tun), d, p)

\* A Create message from the wrong side, or a Request for a known tunnel.
RxCreateRefused(p) ==
  /\ Routable(p, {"create_req", "create_rsp"})
  /\ \E d \in {packet_desc(p)} :
         /\ Routed(d)
         /\ \/ p.type = "create_req" /\ (p.side # "sgsn" \/ d.tun # NoTun)
            \/ p.type = "create_rsp" /\ p.side # "ggsn"
         /\ hub' = d.h
         /\ UNCHANGED <<queries, status>>

\* Remember the request until a response arrives; renew it when it is repeated.
RxDeleteReq(p) ==
  /\ Routable(p, {"delete_req"})
  /\ \E d \in {packet_desc(p)} :
     LET pds == d.h.pending_deletes
         i == First({j \in DOMAIN pds : pds[j].tun = d.tun /\ pds[j].nsapi = p.nsapi})
         pd == [tun |-> d.tun, nsapi |-> p.nsapi, ttl |-> Quick]
         pds2 == IF i = 0 THEN <<pd>> \o pds ELSE [pds EXCEPT ![i].ttl = Quick]
     IN  /\ Routed(d)
         /\ IF d.tun = NoTun \/ p.nsapi = NoNsapi THEN hub' = d.h
            ELSE Forward([d.h EXCEPT !.pending_deletes = pds2], d, p)
         /\ UNCHANGED <<queries, status>>

\* Only the response to a remembered request removes the tunnel.
RxDeleteRsp(p) ==
  /\ Routable(p, {"delete_rsp"})
  /\ \E d \in {packet_desc(p)} :
     LET pds == d.h.pending_deletes
         i == First({j \in DOMAIN pds : pds[j].tun = d.tun})
         h1 == [d.h EXCEPT !.pending_deletes = Kept(pds, Range(pds) \ {pds[i]})]
     IN  /\ Routed(d)
         /\ IF i = 0 THEN hub' = d.h
            ELSE IF ~p.cause THEN hub' = h1
            ELSE Forward(tunnels_del(h1, {d.tun}), d, p)
         /\ UNCHANGED <<queries, status>>

\* No handler for the type, or the User plane.
RxOther(p) ==
  /\ Routable(p, {"update", "user"})
  /\ \E d \in {packet_desc(p)} :
         /\ Routed(d)
         /\ IF d.tun = NoTun THEN Die("assert tunnel")
            ELSE Forward(d.h, d, p) /\ UNCHANGED <<queries, status>>

handle_buf(p) ==
  \/ RxVersion0(p)
  \/ RxDropped(p)
  \/ RxDeleteRspInvalidated(p)
  \/ \E t \in TunIds : RxCreateReq(p, t)
  \/ RxCreateRsp(p)
  \/ RxCreateRefused(p)
  \/ RxDeleteReq(p)
  \/ RxDeleteRsp(p)
  \/ RxOther(p)

-----------------------------------------------------------------------------
(* Answers of the resolver.                                                *)

Resolving(q) == status = "up" /\ q \in queries /\ q.live

lookup_del(h, q) == [h EXCEPT !.lookups = {l \in @ : l.apn # q.apn}]

LookupRetry_Forgets(q) ==
  /\ Resolving(q) /\ ~q.have_3dig_mnc
  /\ queries' = queries \ {q}
  /\ UNCHANGED <<hub, status>>

\* The first failure repeats the query for the same lookup.  The name asked for
\* stays the one with a two digit MNC: nobody calls make_addr_str again.
LookupRetry(q) ==
  /\ Resolving(q) /\ ~q.have_3dig_mnc
  /\ queries' = (queries \ {q}) \cup {[q EXCEPT !.have_3dig_mnc = TRUE]}
  /\ UNCHANGED <<hub, status>>

\* The second failure, or an answer without a usable address.
LookupFailed(q) ==
  /\ Resolving(q)
  /\ hub' = lookup_del(hub, q)
  /\ queries' = queries \ {q}
  /\ UNCHANGED status

resolved_ggsn(h, apn, a) ==
  LET pp == PortOf("ggsn", "ctrl", a, 2123)
      r == [apn |-> apn, peer |-> pp, ttl |-> Slow]
  IN  [ref_count_inc(port_have(h, pp), pp) EXCEPT !.resolved = <<r>> \o @]

LookupResolved(q, a) ==
  /\ Resolving(q)
  /\ hub' = lookup_del(resolved_ggsn(hub, q.apn, a), q)
  /\ queries' = queries \ {q}
  /\ UNCHANGED status

\* The answer to a query whose lookup has expired in the meantime.
LookupStale(q) ==
  /\ status = "up" /\ q \in queries /\ ~q.live
  /\ Die("use after free")

ggsn_lookup_cb(q) ==
  \/ LookupRetry(q)
  \/ LookupFailed(q)
  \/ \E a \in Answers : LookupResolved(q, a)
  \/ LookupStale(q)

-----------------------------------------------------------------------------
(* Time, garbage collection, restart.                                      *)

Aged(n) == IF n = 0 THEN 0 ELSE n - 1

Older(item) == [item EXCEPT !.ttl = Aged(@)]
AllOlder(items) == [i \in DOMAIN items |-> Older(items[i])]

Aging(h) ==
  [h EXCEPT !.tun = AllOlder(h.tun),
            !.seq_map = AllOlder(h.seq_map),
            !.pending_deletes = AllOlder(h.pending_deletes),
            !.resolved = AllOlder(h.resolved),
            !.lookups = {Older(l) : l \in h.lookups}]

\* The clock.
Tick ==
  /\ status = "up"
  /\ hub' = Aging(hub)
  /\ hub' # hub
  /\ UNCHANGED <<queries, status>>

\* Free the ports nobody refers to, and with its last port a peer's address;
\* a peer that still has mappings stays, but no address leads to it.
gc_binds(h) ==
  LET ports == {pp \in DOMAIN h.ports : h.ports[pp].ref_count # 0}
      peers == {PeerOf(pp) : pp \in ports}
  IN  [h EXCEPT
         !.ports = Without(h.ports, DOMAIN h.ports \ ports),
         !.seq_pool = Without(h.seq_pool, DOMAIN h.seq_pool \ peers),
         !.seq_map = [i \in DOMAIN h.seq_map |->
                        [h.seq_map[i] EXCEPT !.peer = IF @ \in peers THEN @ ELSE NoPeer]]]

gc ==
  \E h \in {expiry_tick(hub)} :
      /\ status = "up"
      /\ h # hub   \* otherwise nothing expired
      /\ hub' = gc_binds(h)
      /\ queries' = {[q EXCEPT !.live = @ /\ pending(h, q.apn)] : q \in queries}
      /\ UNCHANGED status

\* The service manager starts the process again.
Restart ==
  /\ status # "up"
  /\ status' = "up"
  /\ UNCHANGED <<hub, queries>>

Init == setup \in DOMAIN Setups /\ hub = start /\ queries = {} /\ status = "up"

Next ==
  /\ \/ \E p \in Setups[setup].packets : handle_buf(p)
     \/ \E q \in queries : ggsn_lookup_cb(q)
     \/ Tick
     \/ gc
     \/ Restart
  /\ UNCHANGED setup

Spec == Init /\ [][Next]_vars

-----------------------------------------------------------------------------
(* Properties.                                                             *)

\* The types of the variables.
TypeOK ==
  /\ setup \in DOMAIN Setups
  /\ hub.ports \in [DOMAIN hub.ports ->
                      [ref_count : Nat, last_restart_count : {-1} \cup 0..255]]
  /\ DOMAIN hub.ports \subseteq PortIds
  /\ DOMAIN hub.seq_pool = {PeerOf(pp) : pp \in DOMAIN hub.ports}
  /\ hub.seq_pool \in [DOMAIN hub.seq_pool -> 0..SeqMax]
  /\ hub.seq_map \in Seq(MappingType)
  /\ DOMAIN hub.tun \subseteq TunIds
  /\ hub.tun \in [DOMAIN hub.tun -> TunnelType]
  /\ hub.tunnels \in Seq(DOMAIN hub.tun)
  /\ hub.tei_pool \in 1..TeiMax
  /\ hub.pending_deletes \in Seq(PendingType)
  /\ hub.resolved \in Seq(ResolvedType)
  /\ hub.lookups \subseteq LookupType
  /\ queries \subseteq QueryType
  /\ status \in Statuses

\* References that tunnels, sequence maps, the GGSN cache and the proxy
\* configuration hold to a port.
References(h, pp) ==
  Cardinality({e \in (DOMAIN h.tun) \X Sides \X Planes :
                 h.tun[e[1]].endpoint[e[2]][e[3]].peer = pp})
  + Cardinality({i \in DOMAIN h.seq_map : h.seq_map[i].origin = pp})
  + Cardinality({i \in DOMAIN h.resolved : h.resolved[i].peer = pp})
  + (IF pp \in Proxies THEN 1 ELSE 0)

\* A port's ref_count is the number of references to it, and no reference is
\* to a port that garbage collection has freed.
RefCountsExact ==
  \A pp \in PortIds :
    IF pp \in DOMAIN hub.ports THEN hub.ports[pp].ref_count = References(hub, pp)
    ELSE References(hub, pp) = 0

\* Tunnels for which a GSN has announced a TEI have different mapped TEIs,
\* also after tei_pool has wrapped around.
TeiReplUnique ==
  LET Announced(t) == \E s \in Sides, pl \in Planes : hub.tun[t].endpoint[s][pl].tei # 0
  IN  \A t, u \in DOMAIN hub.tun :
        t # u /\ Announced(t) /\ Announced(u) => hub.tun[t].tei_repl # hub.tun[u].tei_repl

\* Every Create Response that has a GSN address for a plane also has a TEI for it.
AnnouncesTeis ==
  \A p \in Setups[setup].packets, pl \in Planes :
    p.type = "create_rsp" /\ p.ie[pl].addr # NoAddr => p.ie[pl].tei # 0

\* No two tunnels have the same TEI of the same GSN: announcing it again
\* removes the stale tunnel.  A response that moves an endpoint to another
\* address without announcing a TEI for it is not checked against the tunnels
\* there, so this holds among GSNs that announce one with every address.
PeerTeiUnique ==
  AnnouncesTeis => \A t, u \in DOMAIN hub.tun : t # u => ~reused_tei(hub, t, u)

\* What a restart of a GSN has invalidated stays so: no late or repeated
\* message gives that side of the tunnel a peer again.
InvalidatedForGood ==
  [][\A t \in (DOMAIN hub.tun) \cap (DOMAIN hub'.tun), s \in Sides :
       hub.tun[t].endpoint[s]["ctrl"].peer = NoPort
         => hub'.tun[t].endpoint[s] = hub.tun[t].endpoint[s]]_vars

\* An APN has a lookup exactly while one query for it is under way that may
\* still use the lookup, and the cache never holds the APN at the same time:
\* a retry of the query, its answer or the lookup's expiry leaves no APN that
\* is pending without a query, and none that is resolved twice.
LookupsSupervised ==
  \A a \in Apns :
    LET live == {q \in queries : q.apn = a /\ q.live}
        entries == {i \in DOMAIN hub.resolved : hub.resolved[i].apn = a}
    IN  /\ Cardinality(live) = IF pending(hub, a) THEN 1 ELSE 0
        /\ Cardinality(entries) + Cardinality(live) <= 1

\* The assertions on p->tun hold: a packet that has a receiver belongs to a
\* tunnel, whatever a GSN answers to a request it cannot relate to a context.
TunnelKnown == status # "assert tunnel"

=============================================================================
