---------------------------- MODULE GtpHubProofs ----------------------------
(***************************************************************************)
(* Proofs about GtpHub, for every set of networks, pool size and lifetime. *)
(*                                                                         *)
(* A handler passes the hub through several operators.  Each of them maps  *)
(* a hub that is in order (Good) to one that is; the operators' lemmas     *)
(* also say which parts of the hub they leave alone.                       *)
(***************************************************************************)
EXTENDS GtpHub, ListsProofs

-----------------------------------------------------------------------------
(* Hubs.                                                                   *)

PortRec == [ref_count : Int, last_restart_count : {-1} \cup 0..255]
PortsType == UNION {[D -> PortRec] : D \in SUBSET PortIds}
PoolType == UNION {[D -> 0..SeqMax] : D \in SUBSET PeerIds}
TunsType == UNION {[D -> TunnelType] : D \in SUBSET TunIds}
HubType ==
  [ports : PortsType, seq_pool : PoolType, seq_map : Seq(MappingType),
   tunnels : Seq(TunIds), tun : TunsType, tei_pool : 1..TeiMax,
   pending_deletes : Seq(PendingType), resolved : Seq(ResolvedType),
   lookups : SUBSET LookupType]

\* What it means to be one of these functions with a changing domain.
LEMMA PortsDef ==
  ASSUME NEW f PROVE f \in PortsType <=> f \in [DOMAIN f -> PortRec] /\ DOMAIN f \subseteq PortIds
  BY DEF PortsType
LEMMA PoolDef ==
  ASSUME NEW f PROVE f \in PoolType <=> f \in [DOMAIN f -> 0..SeqMax] /\ DOMAIN f \subseteq PeerIds
  BY DEF PoolType
LEMMA TunsDef ==
  ASSUME NEW f PROVE f \in TunsType <=> f \in [DOMAIN f -> TunnelType] /\ DOMAIN f \subseteq TunIds
  BY DEF TunsType

\* A reference more.
LEMMA RefInc ==
  ASSUME NEW h \in HubType, NEW pp \in DOMAIN h.ports
  PROVE  /\ ref_count_inc(h, pp) \in HubType
         /\ ref_count_inc(h, pp).seq_pool = h.seq_pool
         /\ ref_count_inc(h, pp).seq_map = h.seq_map
         /\ ref_count_inc(h, pp).tunnels = h.tunnels
         /\ ref_count_inc(h, pp).tun = h.tun
         /\ ref_count_inc(h, pp).tei_pool = h.tei_pool
         /\ ref_count_inc(h, pp).pending_deletes = h.pending_deletes
         /\ ref_count_inc(h, pp).resolved = h.resolved
         /\ ref_count_inc(h, pp).lookups = h.lookups
         /\ DOMAIN ref_count_inc(h, pp).ports = DOMAIN h.ports
         /\ \A x \in DOMAIN h.ports :
              ref_count_inc(h, pp).ports[x].ref_count = h.ports[x].ref_count + (IF x = pp THEN 1 ELSE 0)
<1>1. h.ports \in [DOMAIN h.ports -> PortRec] /\ DOMAIN h.ports \subseteq PortIds
  BY PortsDef DEF HubType
<1> DEFINE ports == [h.ports EXCEPT ![pp].ref_count = @ + 1]
<1>2. ports \in [DOMAIN h.ports -> PortRec]
  BY <1>1 DEF PortRec
<1>3. ports \in PortsType
  BY <1>1, <1>2, PortsDef
<1>4. \A x \in DOMAIN h.ports :
              ports[x].ref_count = h.ports[x].ref_count + (IF x = pp THEN 1 ELSE 0)
  BY <1>1 DEF PortRec
<1>5. ref_count_inc(h, pp) = [h EXCEPT !.ports = ports]
  BY DEF ref_count_inc
<1> HIDE DEF ports
<1> QED
  BY <1>2, <1>3, <1>4, <1>5 DEF HubType
\* And one less.
LEMMA RefDec ==
  ASSUME NEW h \in HubType, NEW pp \in DOMAIN h.ports
  PROVE  /\ ref_count_dec(h, pp) \in HubType
         /\ ref_count_dec(h, pp).seq_pool = h.seq_pool
         /\ ref_count_dec(h, pp).seq_map = h.seq_map
         /\ ref_count_dec(h, pp).tunnels = h.tunnels
         /\ ref_count_dec(h, pp).tun = h.tun
         /\ ref_count_dec(h, pp).tei_pool = h.tei_pool
         /\ ref_count_dec(h, pp).pending_deletes = h.pending_deletes
         /\ ref_count_dec(h, pp).resolved = h.resolved
         /\ ref_count_dec(h, pp).lookups = h.lookups
         /\ DOMAIN ref_count_dec(h, pp).ports = DOMAIN h.ports
         /\ \A x \in DOMAIN h.ports :
              ref_count_dec(h, pp).ports[x].ref_count = h.ports[x].ref_count - (IF x = pp THEN 1 ELSE 0)
<1>1. h.ports \in [DOMAIN h.ports -> PortRec] /\ DOMAIN h.ports \subseteq PortIds
  BY PortsDef DEF HubType
<1> DEFINE ports == [h.ports EXCEPT ![pp].ref_count = @ - 1]
<1>2. ports \in [DOMAIN h.ports -> PortRec]
  BY <1>1 DEF PortRec
<1>3. ports \in PortsType
  BY <1>1, <1>2, PortsDef
<1>4. \A x \in DOMAIN h.ports :
              ports[x].ref_count = h.ports[x].ref_count - (IF x = pp THEN 1 ELSE 0)
  BY <1>1 DEF PortRec
<1>5. ref_count_dec(h, pp) = [h EXCEPT !.ports = ports]
  BY DEF ref_count_dec
<1> HIDE DEF ports
<1> QED
  BY <1>2, <1>3, <1>4, <1>5 DEF HubType

\* The endpoint [s][pl] of tunnel t gets the peer pp; nothing else changes.
PeerSet(tun, t, s, pl, pp) == [tun EXCEPT ![t].endpoint[s][pl].peer = pp]
LEMMA PeerSetTun ==
  ASSUME NEW tun \in TunsType, NEW t \in DOMAIN tun, NEW s \in Sides, NEW pl \in Planes,
         NEW pp \in PortIds \cup {NoPort}
  PROVE  /\ PeerSet(tun, t, s, pl, pp) \in TunsType
         /\ DOMAIN PeerSet(tun, t, s, pl, pp) = DOMAIN tun
         /\ \A u \in DOMAIN tun : u # t => PeerSet(tun, t, s, pl, pp)[u] = tun[u]
         /\ \A u \in DOMAIN tun : PeerSet(tun, t, s, pl, pp)[u].tei_repl = tun[u].tei_repl
         /\ \A u \in DOMAIN tun, r \in Sides, pn \in Planes :
              /\ PeerSet(tun, t, s, pl, pp)[u].endpoint[r][pn].tei = tun[u].endpoint[r][pn].tei
              /\ PeerSet(tun, t, s, pl, pp)[u].endpoint[r][pn].peer =
                   IF <<u, r, pn>> = <<t, s, pl>> THEN pp ELSE tun[u].endpoint[r][pn].peer
<1>1. tun \in [DOMAIN tun -> TunnelType] /\ DOMAIN tun \subseteq TunIds
  BY TunsDef
<1> DEFINE old == tun[t].endpoint
           ep == [old EXCEPT ![s][pl].peer = pp]
           new == [tun[t] EXCEPT !.endpoint = ep]
<1>2. old \in [Sides -> [Planes -> EndpointType]] /\ tun[t] \in TunnelType
  BY <1>1 DEF TunnelType
<1>3. ep \in [Sides -> [Planes -> EndpointType]]
  BY <1>2 DEF EndpointType
<1>4. \A r \in Sides, pn \in Planes :
         /\ ep[r][pn].tei = old[r][pn].tei
         /\ ep[r][pn].peer = IF <<r, pn>> = <<s, pl>> THEN pp ELSE old[r][pn].peer
  BY <1>2 DEF EndpointType
<1>5. PeerSet(tun, t, s, pl, pp) = [tun EXCEPT ![t] = new]
  BY <1>1 DEF PeerSet
<1> HIDE DEF ep
<1>6. new \in TunnelType /\ new.tei_repl = tun[t].tei_repl /\ new.ttl = tun[t].ttl /\ new.endpoint = ep
  BY <1>2, <1>3 DEF TunnelType
<1> HIDE DEF new
<1>7. PeerSet(tun, t, s, pl, pp) \in [DOMAIN tun -> TunnelType]
  BY <1>1, <1>5, <1>6
<1>8. \A u \in DOMAIN tun : PeerSet(tun, t, s, pl, pp)[u] = IF u = t THEN new ELSE tun[u]
  BY <1>1, <1>5
<1> HIDE DEF PeerSet
<1>9. PeerSet(tun, t, s, pl, pp) \in TunsType
  BY <1>1, <1>7, TunsDef
<1>10. \A u \in DOMAIN tun, r \in Sides, pn \in Planes :
              /\ PeerSet(tun, t, s, pl, pp)[u].endpoint[r][pn].tei = tun[u].endpoint[r][pn].tei
              /\ PeerSet(tun, t, s, pl, pp)[u].endpoint[r][pn].peer =
                   IF <<u, r, pn>> = <<t, s, pl>> THEN pp ELSE tun[u].endpoint[r][pn].peer
  BY <1>4, <1>6, <1>8
<1> QED
  BY <1>6, <1>7, <1>8, <1>9, <1>10

-----------------------------------------------------------------------------
(* References.                                                             *)

TunRefs(tun, pp) ==
  {e \in (DOMAIN tun) \X Sides \X Planes : tun[e[1]].endpoint[e[2]][e[3]].peer = pp}
From(pp) == {m \in MappingType : m.origin = pp}
At(pp) == {r \in ResolvedType : r.peer = pp}
RT(tun, pp) == Cardinality(TunRefs(tun, pp))
RM(seq_map, pp) == Count(seq_map, From(pp))
RR(resolved, pp) == Count(resolved, At(pp))
RP(pp) == IF pp \in Proxies THEN 1 ELSE 0

\* There are finitely many endpoints.
LEMMA EndpointsFinite ==
  ASSUME NEW T \in SUBSET TunIds, NEW S \in SUBSET Sides
  PROVE  IsFiniteSet(T \X S \X Planes)
<1>1. IsFiniteSet(T)
  BY HubAssumption, FS_Subset
<1>2. IsFiniteSet(Sides) /\ IsFiniteSet(Planes)
  <2>1. IsFiniteSet({"sgsn"}) /\ IsFiniteSet({"ctrl"})
    BY FS_Singleton
  <2>2. IsFiniteSet({"sgsn"} \cup {"ggsn"}) /\ IsFiniteSet({"ctrl"} \cup {"user"})
    BY <2>1, FS_AddElement
  <2>3. Sides = {"sgsn"} \cup {"ggsn"} /\ Planes = {"ctrl"} \cup {"user"}
    BY DEF Sides, Planes
  <2> QED
    BY <2>2, <2>3
<1>3. IsFiniteSet(S)
  BY <1>2, FS_Subset
<1>4. IsFiniteSet(T \X S) /\ IsFiniteSet((T \X S) \X Planes)
  BY <1>1, <1>2, <1>3, FS_Product
<1> DEFINE f == [e \in (T \X S) \X Planes |-> <<e[1][1], e[1][2], e[2]>>]
<1>5. f \in Surjection((T \X S) \X Planes, T \X S \X Planes)
  <2>1. f \in [(T \X S) \X Planes -> T \X S \X Planes]
    OBVIOUS
  <2>2. ASSUME NEW e \in T \X S \X Planes PROVE \E d \in (T \X S) \X Planes : f[d] = e
    <3>1. <<<<e[1], e[2]>>, e[3]>> \in (T \X S) \X Planes /\ f[<<<<e[1], e[2]>>, e[3]>>] = e
      OBVIOUS
    <3> QED
      BY <3>1
  <2> QED
    BY <2>1, <2>2 DEF Surjection
<1> QED
  BY <1>4, <1>5, FS_Surjection

\* The counts of references are natural numbers.
LEMMA RefTypes ==
  ASSUME NEW h \in HubType, NEW pp
  PROVE  /\ IsFiniteSet(TunRefs(h.tun, pp))
         /\ RT(h.tun, pp) \in Nat
         /\ RM(h.seq_map, pp) \in Nat
         /\ RR(h.resolved, pp) \in Nat
         /\ RP(pp) \in Nat
<1>1. DOMAIN h.tun \subseteq TunIds /\ h.seq_map \in Seq(MappingType) /\ h.resolved \in Seq(ResolvedType)
  BY TunsDef DEF HubType
<1>2. IsFiniteSet(TunRefs(h.tun, pp))
  BY <1>1, EndpointsFinite, FS_Subset DEF TunRefs
<1> QED
  BY <1>1, <1>2, CountType, FS_CardinalityType DEF RT, RM, RR, RP

\* The model counts references just so.
LEMMA RefSum ==
  ASSUME NEW h \in HubType, NEW pp
  PROVE  References(h, pp) = RT(h.tun, pp) + RM(h.seq_map, pp) + RR(h.resolved, pp) + RP(pp)
<1>1. h.seq_map \in Seq(MappingType) /\ h.resolved \in Seq(ResolvedType)
  BY DEF HubType
<1>2. {i \in DOMAIN h.seq_map : h.seq_map[i].origin = pp} = {i \in DOMAIN h.seq_map : h.seq_map[i] \in From(pp)}
  BY <1>1 DEF From
<1>3. {i \in DOMAIN h.resolved : h.resolved[i].peer = pp} = {i \in DOMAIN h.resolved : h.resolved[i] \in At(pp)}
  BY <1>1 DEF At
<1> QED
  BY <1>2, <1>3 DEF References, RT, RM, RR, RP, Count, TunRefs
-----------------------------------------------------------------------------
(* A hub that is in order: the tunnels in memory are those on the list, a  *)
(* peer is known exactly while it has a port, and every port's count of    *)
(* references is exact.                                                    *)

Sum(h, pp) == RT(h.tun, pp) + RM(h.seq_map, pp) + RR(h.resolved, pp) + RP(pp)
Exact(h) ==
  \A pp \in PortIds :
    IF pp \in DOMAIN h.ports THEN h.ports[pp].ref_count = Sum(h, pp) ELSE Sum(h, pp) = 0
Good(h) ==
  /\ h \in HubType
  /\ DOMAIN h.seq_pool = {PeerOf(pp) : pp \in DOMAIN h.ports}
  /\ Range(h.tunnels) = DOMAIN h.tun
  /\ Exact(h)

\* The types of the parts of a hub that is in order.
LEMMA GoodFacts ==
  ASSUME NEW h, Good(h)
  PROVE  /\ h \in HubType /\ h.ports \in PortsType /\ h.tun \in TunsType /\ h.seq_pool \in PoolType
         /\ h.ports \in [DOMAIN h.ports -> PortRec] /\ DOMAIN h.ports \subseteq PortIds
         /\ NoPort \notin DOMAIN h.ports
         /\ h.tun \in [DOMAIN h.tun -> TunnelType] /\ DOMAIN h.tun \subseteq TunIds
         /\ NoTun \notin DOMAIN h.tun
         /\ h.seq_pool \in [DOMAIN h.seq_pool -> 0..SeqMax] /\ DOMAIN h.seq_pool \subseteq PeerIds
         /\ h.seq_map \in Seq(MappingType) /\ h.resolved \in Seq(ResolvedType)
         /\ h.tunnels \in Seq(TunIds) /\ h.pending_deletes \in Seq(PendingType)
         /\ h.lookups \subseteq LookupType /\ h.tei_pool \in 1..TeiMax
         /\ \A pp \in DOMAIN h.ports : PeerOf(pp) \in DOMAIN h.seq_pool
         /\ Range(h.tunnels) = DOMAIN h.tun
         /\ \A x \in DOMAIN h.ports : h.ports[x].ref_count \in Int
         /\ \A x : Sum(h, x) \in Nat
<1>1. h \in HubType
  BY DEF Good
<1>2. /\ h.ports \in PortsType /\ h.tun \in TunsType /\ h.seq_pool \in PoolType
      /\ h.seq_map \in Seq(MappingType) /\ h.resolved \in Seq(ResolvedType)
      /\ h.tunnels \in Seq(TunIds) /\ h.pending_deletes \in Seq(PendingType)
      /\ h.lookups \subseteq LookupType /\ h.tei_pool \in 1..TeiMax
  BY <1>1 DEF HubType
<1>3. h.ports \in [DOMAIN h.ports -> PortRec] /\ DOMAIN h.ports \subseteq PortIds
  BY <1>2, PortsDef
<1>4. h.tun \in [DOMAIN h.tun -> TunnelType] /\ DOMAIN h.tun \subseteq TunIds
  BY <1>2, TunsDef
<1>5. h.seq_pool \in [DOMAIN h.seq_pool -> 0..SeqMax] /\ DOMAIN h.seq_pool \subseteq PeerIds
  BY <1>2, PoolDef
<1>6. \A x \in DOMAIN h.ports : h.ports[x].ref_count \in Int
  BY <1>3 DEF PortRec
<1>7. NoPort \notin DOMAIN h.ports /\ NoTun \notin DOMAIN h.tun
  BY <1>3, <1>4, HubAssumption
<1>8. (\A pp \in DOMAIN h.ports : PeerOf(pp) \in DOMAIN h.seq_pool) /\ Range(h.tunnels) = DOMAIN h.tun
  BY DEF Good
<1>9. \A x : Sum(h, x) \in Nat
  BY <1>1, RefTypes DEF Sum
<1> QED
  BY <1>1, <1>2, <1>3, <1>4, <1>5, <1>6, <1>7, <1>8, <1>9

\* An element of A on a list counts.
LEMMA CountPositive ==
  ASSUME NEW X, NEW s \in Seq(X), NEW A, NEW i \in DOMAIN s, s[i] \in A
  PROVE  Count(s, A) # 0
<1>1. i \in {j \in DOMAIN s : s[j] \in A}
  OBVIOUS
<1>2. {j \in DOMAIN s : s[j] \in A} # {}
  BY <1>1
<1> QED
  BY <1>2, CountType, FS_EmptySet, ZenonT(30) DEF Count

\* What something refers to is a port of the hub.
LEMMA Referenced ==
  ASSUME NEW h, Good(h)
  PROVE  /\ \A t \in DOMAIN h.tun, s \in Sides, pl \in Planes :
              h.tun[t].endpoint[s][pl].peer \in DOMAIN h.ports \cup {NoPort}
         /\ \A i \in DOMAIN h.seq_map : h.seq_map[i].origin \in DOMAIN h.ports
         /\ \A i \in DOMAIN h.resolved : h.resolved[i].peer \in DOMAIN h.ports
         /\ \A pp \in PortIds : pp \in Proxies => pp \in DOMAIN h.ports
<1>1. h \in HubType /\ h.seq_map \in Seq(MappingType) /\ h.resolved \in Seq(ResolvedType)
  BY DEF HubType, Good
<1>2. \A pp \in PortIds : Sum(h, pp) # 0 => pp \in DOMAIN h.ports
  BY DEF Good, Exact
<1>3. ASSUME NEW pp \in PortIds,
             RT(h.tun, pp) # 0 \/ RM(h.seq_map, pp) # 0 \/ RR(h.resolved, pp) # 0 \/ RP(pp) # 0
      PROVE  pp \in DOMAIN h.ports
  <2>1. Sum(h, pp) # 0
    BY <1>1, <1>3, RefTypes DEF Sum
  <2> QED
    BY <1>2, <2>1
<1>4. ASSUME NEW t \in DOMAIN h.tun, NEW s \in Sides, NEW pl \in Planes
      PROVE  h.tun[t].endpoint[s][pl].peer \in DOMAIN h.ports \cup {NoPort}
  <2>1. h.tun[t] \in TunnelType
    BY <1>1, TunsDef DEF HubType
  <2>2. h.tun[t].endpoint[s][pl].peer \in PortIds \cup {NoPort}
    BY <2>1 DEF TunnelType, EndpointType
  <2> DEFINE pp == h.tun[t].endpoint[s][pl].peer
  <2>3. <<t, s, pl>> \in TunRefs(h.tun, pp)
    BY DEF TunRefs
  <2>4. RT(h.tun, pp) # 0
    BY <1>1, <2>3, RefTypes, FS_EmptySet DEF RT
  <2> QED
    BY <1>3, <2>2, <2>4
<1>5. ASSUME NEW i \in DOMAIN h.seq_map PROVE h.seq_map[i].origin \in DOMAIN h.ports
  <2>1. h.seq_map[i] \in MappingType
    BY <1>1
  <2>2. h.seq_map[i].origin \in PortIds /\ h.seq_map[i] \in From(h.seq_map[i].origin)
    BY <2>1 DEF MappingType, From
  <2>3. RM(h.seq_map, h.seq_map[i].origin) # 0
    BY <1>1, <2>2, CountPositive DEF RM
  <2> QED
    BY <1>3, <2>2, <2>3
<1>6. ASSUME NEW i \in DOMAIN h.resolved PROVE h.resolved[i].peer \in DOMAIN h.ports
  <2>1. h.resolved[i] \in ResolvedType
    BY <1>1
  <2>2. h.resolved[i].peer \in PortIds /\ h.resolved[i] \in At(h.resolved[i].peer)
    BY <2>1 DEF ResolvedType, At
  <2>3. RR(h.resolved, h.resolved[i].peer) # 0
    BY <1>1, <2>2, CountPositive DEF RR
  <2> QED
    BY <1>3, <2>2, <2>3
<1>7. \A pp \in PortIds : pp \in Proxies => pp \in DOMAIN h.ports
  BY <1>3 DEF RP
<1> QED
  BY <1>4, <1>5, <1>6, <1>7

\* A hub of the right type whose counts changed as its references did.
LEMMA ExactStep ==
  ASSUME NEW h, NEW g, Good(h), g \in HubType, g.seq_pool = h.seq_pool,
         DOMAIN g.ports = DOMAIN h.ports, Range(g.tunnels) = DOMAIN g.tun,
         \A pp \in DOMAIN h.ports :
           g.ports[pp].ref_count - Sum(g, pp) = h.ports[pp].ref_count - Sum(h, pp),
         \A pp \in PortIds \ DOMAIN h.ports : Sum(g, pp) = Sum(h, pp)
  PROVE  Good(g)
<1>1. \A pp \in PortIds : Sum(g, pp) \in Int /\ Sum(h, pp) \in Int
  BY RefTypes DEF Good, Sum
<1>2. \A pp \in DOMAIN h.ports : g.ports[pp].ref_count \in Int /\ h.ports[pp].ref_count \in Int
  <2>1. \A x \in HubType : \A pp \in DOMAIN x.ports : x.ports[pp] \in PortRec
    BY PortsDef DEF HubType
  <2>2. \A x \in HubType : \A pp \in DOMAIN x.ports : x.ports[pp].ref_count \in Int
    BY <2>1 DEF PortRec
  <2> QED
    BY <2>2 DEF Good
<1>3. Exact(g)
  <2>1. SUFFICES ASSUME NEW pp \in PortIds
                 PROVE IF pp \in DOMAIN g.ports THEN g.ports[pp].ref_count = Sum(g, pp) ELSE Sum(g, pp) = 0
    BY DEF Exact
  <2>2. CASE pp \in DOMAIN h.ports
    <3>1. h.ports[pp].ref_count = Sum(h, pp)
      BY <2>2 DEF Good, Exact
    <3> QED
      BY <1>1, <1>2, <2>2, <3>1
  <2>3. CASE pp \notin DOMAIN h.ports
    BY <2>3 DEF Good, Exact
  <2> QED
    BY <2>2, <2>3
<1> QED
  BY <1>3 DEF Good

Is(x, y) == IF x = y THEN 1 ELSE 0

\* Setting an endpoint's peer moves one reference.
LEMMA PeerSetRefs ==
  ASSUME NEW h \in HubType, NEW t \in DOMAIN h.tun, NEW s \in Sides, NEW pl \in Planes,
         NEW pp \in PortIds \cup {NoPort}, NEW x
  PROVE  RT(PeerSet(h.tun, t, s, pl, pp), x) =
           RT(h.tun, x) + Is(x, pp) - Is(x, h.tun[t].endpoint[s][pl].peer)
<1> DEFINE new == PeerSet(h.tun, t, s, pl, pp)
           old == h.tun[t].endpoint[s][pl].peer
           e == <<t, s, pl>>
           A == TunRefs(h.tun, x)
<1>1. h.tun \in TunsType
  BY DEF HubType
<1>2. DOMAIN new = DOMAIN h.tun
  BY <1>1, PeerSetTun
<1>3. \A d \in (DOMAIN h.tun) \X Sides \X Planes :
        new[d[1]].endpoint[d[2]][d[3]].peer = IF d = e THEN pp ELSE h.tun[d[1]].endpoint[d[2]][d[3]].peer
  <2>1. \A u \in DOMAIN h.tun, r \in Sides, pn \in Planes :
           new[u].endpoint[r][pn].peer = IF <<u, r, pn>> = e THEN pp ELSE h.tun[u].endpoint[r][pn].peer
    BY <1>1, PeerSetTun, SMTT(30)
  <2> HIDE DEF new
  <2> QED
    BY <2>1
<1>4. e \in (DOMAIN h.tun) \X Sides \X Planes /\ (e \in A <=> x = old)
  BY DEF TunRefs
<1>5. IsFiniteSet(A) /\ Cardinality(A) \in Nat
  BY RefTypes DEF RT
<1> HIDE DEF new
<1>10. \A d : d \in TunRefs(new, x) <=> IF d = e THEN x = pp ELSE d \in A
  <2>1. SUFFICES ASSUME NEW d PROVE d \in TunRefs(new, x) <=> IF d = e THEN x = pp ELSE d \in A
    OBVIOUS
  <2>2. CASE d \in (DOMAIN h.tun) \X Sides \X Planes
    <3>1. d \in TunRefs(new, x) <=> new[d[1]].endpoint[d[2]][d[3]].peer = x
      BY <1>2, <2>2 DEF TunRefs
    <3>2. d \in A <=> h.tun[d[1]].endpoint[d[2]][d[3]].peer = x
      BY <2>2 DEF TunRefs
    <3>3. new[d[1]].endpoint[d[2]][d[3]].peer = IF d = e THEN pp ELSE h.tun[d[1]].endpoint[d[2]][d[3]].peer
      BY <1>3, <2>2
    <3> HIDE DEF A, e
    <3> QED
      BY <3>1, <3>2, <3>3
  <2>3. CASE d \notin (DOMAIN h.tun) \X Sides \X Planes
    <3>1. d \notin TunRefs(new, x) /\ d \notin A /\ d # e
      BY <1>2, <1>4, <2>3 DEF TunRefs
    <3> HIDE DEF A, e
    <3> QED
      BY <3>1
  <2> QED
    BY <2>2, <2>3
<1> HIDE DEF A, e
<1>6. x = pp => TunRefs(new, x) = A \cup {e}
  BY <1>10
<1>7. x # pp => TunRefs(new, x) = A \ {e}
  BY <1>10
<1> HIDE DEF A, e, old
<1>8. CASE x = pp
  <2>1. Cardinality(TunRefs(new, x)) = IF e \in A THEN Cardinality(A) ELSE Cardinality(A) + 1
    BY <1>5, <1>6, <1>8, FS_AddElement
  <2> QED
    BY <1>4, <1>5, <1>8, <2>1 DEF RT, new, old, A, Is
<1>9. CASE x # pp
  <2>1. Cardinality(TunRefs(new, x)) = IF e \in A THEN Cardinality(A) - 1 ELSE Cardinality(A)
    BY <1>5, <1>7, <1>9, FS_RemoveElement
  <2> QED
    BY <1>4, <1>5, <1>9, <2>1 DEF RT, new, old, A, Is
<1> QED
  BY <1>8, <1>9
-----------------------------------------------------------------------------
(* What the operators do to a hub that is in order.                        *)

\* The parts that only time and the resolver change.
Calm(g, h) == g.lookups = h.lookups /\ g.resolved = h.resolved

\* The port is there, with its peer; all that was there before is unchanged.
LEMMA PortHave ==
  ASSUME NEW h, Good(h), NEW pp \in PortIds
  PROVE  /\ Good(port_have(h, pp))
         /\ DOMAIN port_have(h, pp).ports = DOMAIN h.ports \cup {pp}
         /\ port_have(h, pp).seq_map = h.seq_map
         /\ port_have(h, pp).tunnels = h.tunnels
         /\ port_have(h, pp).tun = h.tun
         /\ port_have(h, pp).tei_pool = h.tei_pool
         /\ port_have(h, pp).pending_deletes = h.pending_deletes
         /\ Calm(port_have(h, pp), h)
<1> DEFINE g == port_have(h, pp)
           seq_pool == IF PeerOf(pp) \in DOMAIN h.seq_pool THEN h.seq_pool
                       ELSE Put(h.seq_pool, PeerOf(pp), SeqInit)
           ports == IF pp \in DOMAIN h.ports THEN h.ports
                    ELSE Put(h.ports, pp, [ref_count |-> 0, last_restart_count |-> -1])
<1>1. h \in HubType /\ h.ports \in PortsType /\ h.seq_pool \in PoolType
  BY DEF Good, HubType
<1>2. g = [h EXCEPT !.seq_pool = seq_pool, !.ports = ports]
  BY DEF port_have
<1>3. ports \in PortsType /\ DOMAIN ports = DOMAIN h.ports \cup {pp}
      /\ (\A x \in DOMAIN h.ports : ports[x] = h.ports[x])
      /\ (pp \notin DOMAIN h.ports => ports[pp].ref_count = 0)
  <2>1. h.ports \in [DOMAIN h.ports -> PortRec] /\ DOMAIN h.ports \subseteq PortIds
    BY <1>1, PortsDef
  <2>2. [ref_count |-> 0, last_restart_count |-> -1] \in PortRec
    BY DEF PortRec
  <2>3. ports \in [DOMAIN h.ports \cup {pp} -> PortRec]
    BY <2>1, <2>2 DEF Put
  <2>4. ports \in PortsType
    BY <2>1, <2>3, PortsDef
  <2> QED
    BY <2>1, <2>3, <2>4 DEF Put
<1>4. seq_pool \in PoolType /\ DOMAIN seq_pool = DOMAIN h.seq_pool \cup {PeerOf(pp)}
  <2>1. h.seq_pool \in [DOMAIN h.seq_pool -> 0..SeqMax] /\ DOMAIN h.seq_pool \subseteq PeerIds
    BY <1>1, PoolDef
  <2>2. PeerOf(pp) \in PeerIds /\ SeqInit \in 0..SeqMax
    BY HubAssumption DEF PeerOf, PeerIds, PortIds
  <2>3. seq_pool \in [DOMAIN h.seq_pool \cup {PeerOf(pp)} -> 0..SeqMax]
    BY <2>1, <2>2 DEF Put
  <2> QED
    BY <2>1, <2>2, <2>3, PoolDef
<1> HIDE DEF ports, seq_pool, g
<1>5. /\ g \in HubType /\ g.ports = ports /\ g.seq_pool = seq_pool /\ g.seq_map = h.seq_map
      /\ g.tunnels = h.tunnels /\ g.tun = h.tun /\ g.tei_pool = h.tei_pool
      /\ g.pending_deletes = h.pending_deletes /\ Calm(g, h)
  BY <1>1, <1>2, <1>3, <1>4 DEF HubType, Calm
<1>6. \A x \in PortIds : Sum(g, x) = Sum(h, x)
  BY <1>5 DEF Sum, Calm
<1>7. Exact(g)
  BY <1>3, <1>5, <1>6 DEF Exact, Good
<1>8. DOMAIN g.seq_pool = {PeerOf(x) : x \in DOMAIN g.ports}
  BY <1>3, <1>4, <1>5 DEF Good
<1> QED
  BY <1>3, <1>5, <1>7, <1>8 DEF Good, g

\* endpoint_set_peer gives back the reference to the old peer and takes one to the new.
LEMMA SetPeer ==
  ASSUME NEW h, Good(h), NEW t \in DOMAIN h.tun, NEW s \in Sides, NEW pl \in Planes,
         NEW pp \in DOMAIN h.ports \cup {NoPort}
  PROVE  /\ Good(endpoint_set_peer(h, t, s, pl, pp))
         /\ DOMAIN endpoint_set_peer(h, t, s, pl, pp).ports = DOMAIN h.ports
         /\ endpoint_set_peer(h, t, s, pl, pp).tun = PeerSet(h.tun, t, s, pl, pp)
         /\ endpoint_set_peer(h, t, s, pl, pp).tunnels = h.tunnels
         /\ endpoint_set_peer(h, t, s, pl, pp).seq_map = h.seq_map
         /\ endpoint_set_peer(h, t, s, pl, pp).tei_pool = h.tei_pool
         /\ endpoint_set_peer(h, t, s, pl, pp).pending_deletes = h.pending_deletes
         /\ Calm(endpoint_set_peer(h, t, s, pl, pp), h)
<1> DEFINE old == h.tun[t].endpoint[s][pl].peer
           h1 == IF old = NoPort THEN h ELSE ref_count_dec(h, old)
           h2 == [h1 EXCEPT !.tun[t].endpoint[s][pl].peer = pp]
           h3 == IF pp = NoPort THEN h2 ELSE ref_count_inc(h2, pp)
           tun == PeerSet(h.tun, t, s, pl, pp)
<1>1. h \in HubType /\ h.tun \in TunsType /\ NoPort \notin DOMAIN h.ports /\ DOMAIN h.ports \subseteq PortIds
  BY GoodFacts
<1>2. old \in DOMAIN h.ports \cup {NoPort}
  BY Referenced
<1>3. /\ h1 \in HubType /\ h1.tun = h.tun /\ h1.tunnels = h.tunnels /\ h1.seq_map = h.seq_map
      /\ h1.seq_pool = h.seq_pool /\ h1.tei_pool = h.tei_pool
      /\ h1.pending_deletes = h.pending_deletes /\ Calm(h1, h)
      /\ DOMAIN h1.ports = DOMAIN h.ports
      /\ \A x \in DOMAIN h.ports : h1.ports[x].ref_count = h.ports[x].ref_count - (IF x = old THEN 1 ELSE 0)
  <2> HIDE DEF old
  <2>1. CASE old = NoPort
    <3>1. \A x \in DOMAIN h.ports : h.ports[x].ref_count \in Int
      BY <1>1, PortsDef DEF HubType, PortRec
    <3>2. \A x \in DOMAIN h.ports : x # old
      BY <1>1, <2>1
    <3> QED
      BY <1>1, <2>1, <3>1, <3>2 DEF Calm
  <2>2. CASE old # NoPort
    BY <1>1, <1>2, <2>2, RefDec DEF Calm
  <2> QED
    BY <2>1, <2>2
<1> HIDE DEF h1
<1>4. tun \in TunsType /\ DOMAIN tun = DOMAIN h.tun
  BY <1>1, PeerSetTun
<1>5. h2 = [h1 EXCEPT !.tun = tun]
  BY <1>3 DEF PeerSet
<1> HIDE DEF tun, h2
<1>6. /\ h2 \in HubType /\ h2.tun = tun /\ h2.tunnels = h1.tunnels /\ h2.seq_map = h1.seq_map
      /\ h2.seq_pool = h1.seq_pool /\ h2.tei_pool = h1.tei_pool /\ h2.ports = h1.ports
      /\ h2.pending_deletes = h1.pending_deletes /\ Calm(h2, h1)
  BY <1>3, <1>4, <1>5 DEF HubType, Calm
<1>7. /\ h3 \in HubType /\ h3.tun = tun /\ h3.tunnels = h2.tunnels /\ h3.seq_map = h2.seq_map
      /\ h3.seq_pool = h2.seq_pool /\ h3.tei_pool = h2.tei_pool
      /\ h3.pending_deletes = h2.pending_deletes /\ Calm(h3, h2)
      /\ DOMAIN h3.ports = DOMAIN h2.ports
      /\ \A x \in DOMAIN h2.ports : h3.ports[x].ref_count = h2.ports[x].ref_count + (IF x = pp THEN 1 ELSE 0)
  <2>1. CASE pp = NoPort
    <3>1. \A x \in DOMAIN h2.ports : h2.ports[x].ref_count \in Int
      BY <1>6, PortsDef DEF HubType, PortRec
    <3>2. \A x \in DOMAIN h2.ports : x # pp
      BY <1>1, <1>3, <1>6, <2>1
    <3> QED
      BY <1>6, <2>1, <3>1, <3>2 DEF Calm
  <2>2. CASE pp # NoPort
    BY <1>3, <1>6, <2>2, RefInc DEF Calm
  <2> QED
    BY <2>1, <2>2
<1>8. endpoint_set_peer(h, t, s, pl, pp) = h3
  BY DEF endpoint_set_peer, h1, h2
<1> HIDE DEF h3
<1>9. Calm(h3, h) /\ DOMAIN h3.ports = DOMAIN h.ports
  BY <1>3, <1>6, <1>7 DEF Calm
<1>10. \A x \in PortIds : Sum(h3, x) = Sum(h, x) + (IF x = pp THEN 1 ELSE 0) - (IF x = old THEN 1 ELSE 0)
  <2>1. SUFFICES ASSUME NEW x \in PortIds
                 PROVE Sum(h3, x) = Sum(h, x) + (IF x = pp THEN 1 ELSE 0) - (IF x = old THEN 1 ELSE 0)
    OBVIOUS
  <2>2. RT(tun, x) = RT(h.tun, x) + (IF x = pp THEN 1 ELSE 0) - (IF x = old THEN 1 ELSE 0)
    <3>1. pp \in PortIds \cup {NoPort}
      BY <1>1
    <3>2. RT(PeerSet(h.tun, t, s, pl, pp), x) =
            RT(h.tun, x) + Is(x, pp) - Is(x, h.tun[t].endpoint[s][pl].peer)
      BY <1>1, <3>1, PeerSetRefs
    <3> QED
      BY <3>2 DEF tun, Is
  <2>3. RT(h.tun, x) \in Nat /\ RM(h.seq_map, x) \in Nat /\ RR(h.resolved, x) \in Nat /\ RP(x) \in Nat
    BY <1>1, RefTypes
  <2>4. Sum(h3, x) = RT(tun, x) + RM(h.seq_map, x) + RR(h.resolved, x) + RP(x)
    BY <1>3, <1>6, <1>7, <1>9 DEF Sum, Calm
  <2> HIDE DEF old
  <2> QED
    BY <2>2, <2>3, <2>4 DEF Sum
<1>11. \A x \in DOMAIN h.ports : h3.ports[x].ref_count - Sum(h3, x) = h.ports[x].ref_count - Sum(h, x)
  <2>1. SUFFICES ASSUME NEW x \in DOMAIN h.ports
                 PROVE h3.ports[x].ref_count - Sum(h3, x) = h.ports[x].ref_count - Sum(h, x)
    OBVIOUS
  <2>2. h.ports[x].ref_count \in Int /\ Sum(h, x) \in Int
    <3>1. h.ports[x].ref_count \in Int
      BY <1>1, PortsDef DEF HubType, PortRec
    <3> QED
      BY <1>1, <3>1, RefTypes DEF Sum
  <2>3. h3.ports[x].ref_count = h.ports[x].ref_count - (IF x = old THEN 1 ELSE 0) + (IF x = pp THEN 1 ELSE 0)
    BY <1>3, <1>6, <1>7
  <2>4. Sum(h3, x) = Sum(h, x) + (IF x = pp THEN 1 ELSE 0) - (IF x = old THEN 1 ELSE 0)
    BY <1>1, <1>10
  <2> HIDE DEF old
  <2> QED
    BY <2>2, <2>3, <2>4
<1>12. \A x \in PortIds \ DOMAIN h.ports : Sum(h3, x) = Sum(h, x)
  <2>1. SUFFICES ASSUME NEW x \in PortIds \ DOMAIN h.ports PROVE Sum(h3, x) = Sum(h, x)
    OBVIOUS
  <2>2. x # pp /\ x # old
    BY <1>2, HubAssumption
  <2>3. Sum(h, x) \in Int
    BY <1>1, RefTypes DEF Sum
  <2> QED
    BY <1>10, <2>2, <2>3
<1>13. Range(h3.tunnels) = DOMAIN h3.tun
  BY <1>3, <1>4, <1>6, <1>7 DEF Good
<1>14. Good(h3)
  BY <1>3, <1>6, <1>7, <1>9, <1>11, <1>12, <1>13, ExactStep
<1> QED
  BY <1>3, <1>6, <1>7, <1>8, <1>9, <1>14 DEF tun
\* Many references less.
LEMMA RefsDec ==
  ASSUME NEW ports \in PortsType, NEW n \in [DOMAIN ports -> Nat]
  PROVE  /\ ref_counts_dec(ports, n) \in PortsType
         /\ DOMAIN ref_counts_dec(ports, n) = DOMAIN ports
         /\ \A x \in DOMAIN ports : ref_counts_dec(ports, n)[x].ref_count = ports[x].ref_count - n[x]
<1>1. ports \in [DOMAIN ports -> PortRec] /\ DOMAIN ports \subseteq PortIds
  BY PortsDef
<1>2. \A x \in DOMAIN ports : /\ [ports[x] EXCEPT !.ref_count = @ - n[x]] \in PortRec
                              /\ [ports[x] EXCEPT !.ref_count = @ - n[x]].ref_count = ports[x].ref_count - n[x]
  BY <1>1 DEF PortRec
<1>3. ref_counts_dec(ports, n) \in [DOMAIN ports -> PortRec]
  BY <1>2 DEF ref_counts_dec
<1>4. \A x \in DOMAIN ports : ref_counts_dec(ports, n)[x] = [ports[x] EXCEPT !.ref_count = @ - n[x]]
  BY DEF ref_counts_dec
<1> QED
  BY <1>1, <1>2, <1>3, <1>4, PortsDef

\* The tunnels after clear_sides, and what it counts for each port.
ClearedTun(tun, T, S) ==
  LET Cleared(t) ==
        [s \in Sides |-> [pl \in Planes |->
           IF s \in S THEN [peer |-> NoPort, tei |-> tun[t].endpoint[s][pl].tei]
           ELSE tun[t].endpoint[s][pl]]]
  IN  [t \in DOMAIN tun |->
         IF t \in T THEN [tun[t] EXCEPT !.endpoint = Cleared(t)] ELSE tun[t]]
Dropped(tun, T, S, pp) ==
  {e \in T \X S \X Planes : tun[e[1]].endpoint[e[2]][e[3]].peer = pp}

\* The cleared sides have no peers; everything else is as before.
IsCleared(new, tun, T, S) ==
  /\ new \in TunsType
  /\ DOMAIN new = DOMAIN tun
  /\ \A u \in DOMAIN tun : u \notin T => new[u] = tun[u]
  /\ \A u \in DOMAIN tun : new[u].tei_repl = tun[u].tei_repl
  /\ \A u \in DOMAIN tun, s \in Sides, pl \in Planes :
       /\ new[u].endpoint[s][pl].tei = tun[u].endpoint[s][pl].tei
       /\ new[u].endpoint[s][pl].peer =
            IF u \in T /\ s \in S THEN NoPort ELSE tun[u].endpoint[s][pl].peer
  /\ \A u \in DOMAIN tun, s \in Sides : s \notin S => new[u].endpoint[s] = tun[u].endpoint[s]

\* clear_sides does so.
LEMMA ClearedTuns ==
  ASSUME NEW tun \in TunsType, NEW T \in SUBSET DOMAIN tun, NEW S \in SUBSET Sides
  PROVE  IsCleared(ClearedTun(tun, T, S), tun, T, S)
<1> DEFINE Cleared(t) ==
             [s \in Sides |-> [pl \in Planes |->
                IF s \in S THEN [peer |-> NoPort, tei |-> tun[t].endpoint[s][pl].tei]
                ELSE tun[t].endpoint[s][pl]]]
           new == ClearedTun(tun, T, S)
<1>1. tun \in [DOMAIN tun -> TunnelType] /\ DOMAIN tun \subseteq TunIds
  BY TunsDef
<1>2. ASSUME NEW u \in DOMAIN tun
      PROVE  /\ Cleared(u) \in [Sides -> [Planes -> EndpointType]]
             /\ \A s \in Sides, pl \in Planes :
                  /\ Cleared(u)[s][pl].tei = tun[u].endpoint[s][pl].tei
                  /\ Cleared(u)[s][pl].peer = IF s \in S THEN NoPort ELSE tun[u].endpoint[s][pl].peer
             /\ \A s \in Sides : s \notin S => Cleared(u)[s] = tun[u].endpoint[s]
  <2>1. tun[u].endpoint \in [Sides -> [Planes -> EndpointType]]
    BY <1>1 DEF TunnelType
  <2> DEFINE ep == tun[u].endpoint
             old(s, pl) == ep[s][pl]
  <2>2. \A s \in Sides, pl \in Planes : old(s, pl) \in EndpointType /\ old(s, pl).tei \in Nat
    BY <2>1 DEF EndpointType
  <2>3. \A s \in Sides, pl \in Planes :
          Cleared(u)[s][pl] = IF s \in S THEN [peer |-> NoPort, tei |-> tun[u].endpoint[s][pl].tei]
                              ELSE tun[u].endpoint[s][pl]
    OBVIOUS
  <2>4. \A s \in Sides, pl \in Planes : Cleared(u)[s][pl] \in EndpointType
    BY <2>2 DEF EndpointType
  <2>5. Cleared(u) \in [Sides -> [Planes -> EndpointType]]
    BY <2>4
  <2>6. \A s \in Sides : s \notin S => Cleared(u)[s] = tun[u].endpoint[s]
    BY <2>1
  <2> QED
    BY <2>3, <2>5, <2>6
<1>3. \A u \in DOMAIN tun : new[u] = IF u \in T THEN [tun[u] EXCEPT !.endpoint = Cleared(u)] ELSE tun[u]
  BY DEF ClearedTun
<1>4. DOMAIN new = DOMAIN tun
  BY DEF ClearedTun
<1> HIDE DEF Cleared, new
<1>5. ASSUME NEW u \in DOMAIN tun
      PROVE  /\ new[u] \in TunnelType
             /\ new[u].tei_repl = tun[u].tei_repl
             /\ new[u].endpoint = IF u \in T THEN Cleared(u) ELSE tun[u].endpoint
  BY <1>1, <1>2, <1>3 DEF TunnelType
<1>6. new \in [DOMAIN tun -> TunnelType]
  <2>1. new = [u \in DOMAIN tun |-> new[u]]
    BY DEF new, ClearedTun
  <2> QED
    BY <1>5, <2>1
<1>7. new \in TunsType
  BY <1>1, <1>4, <1>6, TunsDef
<1>8. \A u \in DOMAIN tun, s \in Sides, pl \in Planes :
        /\ new[u].endpoint[s][pl].tei = tun[u].endpoint[s][pl].tei
        /\ new[u].endpoint[s][pl].peer = IF u \in T /\ s \in S THEN NoPort ELSE tun[u].endpoint[s][pl].peer
  BY <1>2, <1>5
<1>9. \A u \in DOMAIN tun, s \in Sides : s \notin S => new[u].endpoint[s] = tun[u].endpoint[s]
  BY <1>2, <1>5
<1>10. \A u \in DOMAIN tun : u \notin T => new[u] = tun[u]
  BY <1>3
<1> QED
  BY <1>4, <1>5, <1>7, <1>8, <1>9, <1>10 DEF new, IsCleared
\* The references dropped are those the cleared sides had.
LEMMA ClearedRefs ==
  ASSUME NEW h, Good(h), NEW T \in SUBSET DOMAIN h.tun, NEW S \in SUBSET Sides, NEW x \in PortIds
  PROVE  /\ IsFiniteSet(Dropped(h.tun, T, S, x))
         /\ Cardinality(Dropped(h.tun, T, S, x)) \in Nat
         /\ RT(ClearedTun(h.tun, T, S), x) = RT(h.tun, x) - Cardinality(Dropped(h.tun, T, S, x))
         /\ x \notin DOMAIN h.ports => Cardinality(Dropped(h.tun, T, S, x)) = 0
<1> DEFINE new == ClearedTun(h.tun, T, S)
           A == TunRefs(h.tun, x)
           B == Dropped(h.tun, T, S, x)
<1>1. h \in HubType /\ h.tun \in TunsType
  BY GoodFacts
<1>0. IsCleared(new, h.tun, T, S)
  BY <1>1, ClearedTuns
<1> HIDE DEF new
<1>2. DOMAIN new = DOMAIN h.tun
  BY <1>0 DEF IsCleared
<1>3. \A e \in (DOMAIN h.tun) \X Sides \X Planes :
        new[e[1]].endpoint[e[2]][e[3]].peer =
          IF e[1] \in T /\ e[2] \in S THEN NoPort ELSE h.tun[e[1]].endpoint[e[2]][e[3]].peer
  <2>1. \A u \in DOMAIN h.tun, s \in Sides, pl \in Planes :
           new[u].endpoint[s][pl].peer = IF u \in T /\ s \in S THEN NoPort ELSE h.tun[u].endpoint[s][pl].peer
    BY <1>0 DEF IsCleared
  <2> QED
    BY <2>1
<1>4. IsFiniteSet(A) /\ Cardinality(A) \in Nat
  BY <1>1, RefTypes DEF RT
<1>5. B \in SUBSET A
  BY DEF Dropped, TunRefs
<1>6. x # NoPort
  BY HubAssumption
<1>7. TunRefs(new, x) = A \ B
  BY <1>2, <1>3, <1>6 DEF TunRefs, Dropped
<1>8. x \notin DOMAIN h.ports => B = {}
  <2>1. \A e \in T \X S \X Planes :
          h.tun[e[1]].endpoint[e[2]][e[3]].peer \in DOMAIN h.ports \cup {NoPort}
    BY Referenced
  <2> QED
    BY <1>6, <2>1 DEF Dropped
<1> HIDE DEF A, B
<1>9. IsFiniteSet(B) /\ Cardinality(B) \in Nat
  BY <1>4, <1>5, FS_Subset, FS_CardinalityType
<1>10. Cardinality(A \ B) = Cardinality(A) - Cardinality(B)
  <2>1. A \cap B = B
    BY <1>5
  <2> QED
    BY <1>4, <2>1, FS_Difference
<1>11. x \notin DOMAIN h.ports => Cardinality(B) = 0
  BY <1>8, FS_EmptySet
<1> QED
  BY <1>7, <1>9, <1>10, <1>11 DEF RT, new, A, B

\* clear_sides keeps the counts exact.
LEMMA ClearSides ==
  ASSUME NEW h, Good(h), NEW T \in SUBSET DOMAIN h.tun, NEW S \in SUBSET Sides
  PROVE  /\ Good(clear_sides(h, T, S))
         /\ DOMAIN clear_sides(h, T, S).ports = DOMAIN h.ports
         /\ clear_sides(h, T, S).tun = ClearedTun(h.tun, T, S)
         /\ clear_sides(h, T, S).tunnels = h.tunnels
         /\ clear_sides(h, T, S).seq_map = h.seq_map
         /\ clear_sides(h, T, S).seq_pool = h.seq_pool
         /\ clear_sides(h, T, S).tei_pool = h.tei_pool
         /\ clear_sides(h, T, S).pending_deletes = h.pending_deletes
         /\ Calm(clear_sides(h, T, S), h)
<1> DEFINE n == [pp \in DOMAIN h.ports |-> Cardinality(Dropped(h.tun, T, S, pp))]
           ports == ref_counts_dec(h.ports, n)
           tun == ClearedTun(h.tun, T, S)
           g == clear_sides(h, T, S)
<1>1. h \in HubType /\ h.tun \in TunsType /\ h.ports \in PortsType /\ DOMAIN h.ports \subseteq PortIds
      /\ (\A x \in DOMAIN h.ports : h.ports[x].ref_count \in Int) /\ (\A x : Sum(h, x) \in Nat)
  BY GoodFacts
<1>2. g = [h EXCEPT !.ports = ports, !.tun = tun]
  BY DEF clear_sides, ClearedTun, Dropped
<1>3. n \in [DOMAIN h.ports -> Nat]
  BY <1>1, ClearedRefs
<1>4. ports \in PortsType /\ DOMAIN ports = DOMAIN h.ports
      /\ \A x \in DOMAIN h.ports : ports[x].ref_count = h.ports[x].ref_count - Cardinality(Dropped(h.tun, T, S, x))
  <2>1. \A x \in DOMAIN h.ports : n[x] = Cardinality(Dropped(h.tun, T, S, x))
    OBVIOUS
  <2> HIDE DEF n
  <2> QED
    BY <1>1, <1>3, <2>1, RefsDec
<1>5. tun \in TunsType /\ DOMAIN tun = DOMAIN h.tun
  <2>1. IsCleared(tun, h.tun, T, S)
    BY <1>1, ClearedTuns
  <2> HIDE DEF tun
  <2> QED
    BY <2>1 DEF IsCleared
<1> HIDE DEF n, ports, tun, g
<1>6. /\ g \in HubType /\ g.ports = ports /\ g.seq_pool = h.seq_pool /\ g.seq_map = h.seq_map
      /\ g.tunnels = h.tunnels /\ g.tun = tun /\ g.tei_pool = h.tei_pool
      /\ g.pending_deletes = h.pending_deletes /\ Calm(g, h)
  BY <1>1, <1>2, <1>4, <1>5 DEF HubType, Calm
<1>7. \A x \in PortIds : Sum(g, x) = Sum(h, x) - Cardinality(Dropped(h.tun, T, S, x))
  <2>1. SUFFICES ASSUME NEW x \in PortIds
                 PROVE  Sum(g, x) = Sum(h, x) - Cardinality(Dropped(h.tun, T, S, x))
    OBVIOUS
  <2>2. RT(tun, x) = RT(h.tun, x) - Cardinality(Dropped(h.tun, T, S, x))
        /\ Cardinality(Dropped(h.tun, T, S, x)) \in Nat
    BY ClearedRefs DEF tun
  <2>3. RT(h.tun, x) \in Nat /\ RM(h.seq_map, x) \in Nat /\ RR(h.resolved, x) \in Nat /\ RP(x) \in Nat
    BY <1>1, RefTypes
  <2> QED
    BY <1>6, <2>2, <2>3 DEF Sum, Calm
<1>8. \A x \in DOMAIN h.ports : g.ports[x].ref_count - Sum(g, x) = h.ports[x].ref_count - Sum(h, x)
  <2>1. SUFFICES ASSUME NEW x \in DOMAIN h.ports
                 PROVE g.ports[x].ref_count - Sum(g, x) = h.ports[x].ref_count - Sum(h, x)
    OBVIOUS
  <2>2. Cardinality(Dropped(h.tun, T, S, x)) \in Nat
    BY <1>1, ClearedRefs
  <2> QED
    BY <1>1, <1>4, <1>6, <1>7, <2>2
<1>9. \A x \in PortIds \ DOMAIN h.ports : Sum(g, x) = Sum(h, x)
  <2>1. SUFFICES ASSUME NEW x \in PortIds \ DOMAIN h.ports PROVE Sum(g, x) = Sum(h, x)
    OBVIOUS
  <2>2. Cardinality(Dropped(h.tun, T, S, x)) = 0
    BY ClearedRefs
  <2> QED
    BY <1>1, <1>7, <2>2
<1>10. Good(g)
  <2>1. Range(g.tunnels) = DOMAIN g.tun
    BY <1>5, <1>6 DEF Good
  <2> QED
    BY <1>4, <1>6, <1>8, <1>9, <2>1, ExactStep
<1> QED
  BY <1>4, <1>6, <1>10 DEF tun, g

\* Freeing tunnels T.
LEMMA TunnelsDel ==
  ASSUME NEW h, Good(h), NEW T \in SUBSET DOMAIN h.tun
  PROVE  /\ Good(tunnels_del(h, T))
         /\ DOMAIN tunnels_del(h, T).ports = DOMAIN h.ports
         /\ DOMAIN tunnels_del(h, T).tun = DOMAIN h.tun \ T
         /\ \A u \in DOMAIN h.tun \ T : tunnels_del(h, T).tun[u] = h.tun[u]
         /\ tunnels_del(h, T).seq_map = h.seq_map
         /\ tunnels_del(h, T).tei_pool = h.tei_pool
         /\ tunnels_del(h, T).pending_deletes = h.pending_deletes
         /\ Calm(tunnels_del(h, T), h)
<1> DEFINE h1 == clear_sides(h, T, Sides)
           tunnels == Kept(h1.tunnels, Range(h1.tunnels) \ T)
           tun == Without(h1.tun, T)
           g == tunnels_del(h, T)
<1>0. h \in HubType /\ h.tun \in TunsType /\ NoPort \notin PortIds
  BY GoodFacts, HubAssumption
<1>1. /\ Good(h1) /\ DOMAIN h1.ports = DOMAIN h.ports /\ h1.tun = ClearedTun(h.tun, T, Sides)
      /\ h1.seq_map = h.seq_map /\ h1.seq_pool = h.seq_pool /\ h1.tei_pool = h.tei_pool
      /\ h1.pending_deletes = h.pending_deletes /\ Calm(h1, h)
  BY ClearSides
<1>2. g = [h1 EXCEPT !.tunnels = tunnels, !.tun = tun]
  BY DEF tunnels_del
<1>3. DOMAIN h1.tun = DOMAIN h.tun /\ (\A u \in DOMAIN h.tun : u \notin T => h1.tun[u] = h.tun[u])
      /\ (\A u \in T, s \in Sides, pl \in Planes : h1.tun[u].endpoint[s][pl].peer = NoPort)
  <2>1. IsCleared(h1.tun, h.tun, T, Sides)
    BY <1>0, <1>1, ClearedTuns
  <2> HIDE DEF h1
  <2> QED
    BY <2>1 DEF IsCleared
<1> HIDE DEF h1
<1>4. h1 \in HubType /\ h1.tunnels \in Seq(TunIds) /\ Range(h1.tunnels) = DOMAIN h1.tun
      /\ h1.tun \in [DOMAIN h1.tun -> TunnelType] /\ DOMAIN h1.tun \subseteq TunIds
      /\ (\A x : Sum(h1, x) \in Nat)
  BY <1>1, GoodFacts
<1>5. tunnels \in Seq(TunIds) /\ Range(tunnels) = DOMAIN h.tun \ T
  <2>1. tunnels \in Seq(TunIds) /\ \A x : x \in Range(tunnels) <=> x \in Range(h1.tunnels) /\ x \in Range(h1.tunnels) \ T
    BY <1>4, KeptProperties
  <2> HIDE DEF tunnels
  <2> QED
    BY <1>3, <1>4, <2>1
<1>6. tun \in TunsType /\ DOMAIN tun = DOMAIN h.tun \ T /\ (\A u \in DOMAIN h.tun \ T : tun[u] = h.tun[u])
  <2>1. tun \in [DOMAIN h.tun \ T -> TunnelType] /\ (\A u \in DOMAIN h.tun \ T : tun[u] = h.tun[u])
    BY <1>3, <1>4 DEF Without
  <2> HIDE DEF tun
  <2>2. DOMAIN tun = DOMAIN h.tun \ T
    BY <2>1
  <2> QED
    BY <1>3, <1>4, <2>1, <2>2, TunsDef
<1>7. \A x \in PortIds : TunRefs(tun, x) = TunRefs(h1.tun, x)
  <2>1. SUFFICES ASSUME NEW x \in PortIds PROVE TunRefs(tun, x) = TunRefs(h1.tun, x)
    OBVIOUS
  <2>2. x # NoPort
    BY <1>0
  <2>3. \A u \in DOMAIN h.tun \ T : tun[u] = h1.tun[u]
    BY <1>3, <1>6
  <2> HIDE DEF tun
  <2> QED
    BY <1>3, <1>6, <2>2, <2>3 DEF TunRefs
<1> HIDE DEF tunnels, tun, g
<1>8. /\ g \in HubType /\ g.ports = h1.ports /\ g.seq_pool = h1.seq_pool /\ g.seq_map = h1.seq_map
      /\ g.tunnels = tunnels /\ g.tun = tun /\ g.tei_pool = h1.tei_pool
      /\ g.pending_deletes = h1.pending_deletes /\ Calm(g, h1)
  BY <1>2, <1>4, <1>5, <1>6 DEF HubType, Calm
<1>9. \A x \in PortIds : Sum(g, x) = Sum(h1, x)
  BY <1>7, <1>8 DEF Sum, RT, Calm
<1>10. Good(g)
  <2>1. Range(g.tunnels) = DOMAIN g.tun
    BY <1>5, <1>6, <1>8
  <2>2. DOMAIN h1.ports \subseteq PortIds
    BY <1>1, GoodFacts
  <2> QED
    BY <1>1, <1>8, <1>9, <2>1, <2>2, ExactStep
<1> QED
  BY <1>1, <1>6, <1>8, <1>10 DEF Calm, g
\* Mappings and cache entries expire with the references they hold.
LEMMA MappingsExpire ==
  ASSUME NEW h, Good(h)
  PROVE  /\ Good(mappings_expire(h))
         /\ DOMAIN mappings_expire(h).ports = DOMAIN h.ports
         /\ mappings_expire(h).tun = h.tun
         /\ mappings_expire(h).pending_deletes = h.pending_deletes
         /\ Calm(mappings_expire(h), h)
<1> DEFINE A == Alive(h.seq_map)
           N(x) == Count(h.seq_map, From(x) \ A)
           n == [pp \in DOMAIN h.ports |->
                   Cardinality({i \in DOMAIN h.seq_map :
                                  h.seq_map[i].origin = pp /\ ~Unexpired(h.seq_map[i])})]
           ports == ref_counts_dec(h.ports, n)
           seq_map == Kept(h.seq_map, A)
           g == mappings_expire(h)
<1>1. h \in HubType /\ h.seq_map \in Seq(MappingType) /\ h.ports \in PortsType /\ DOMAIN h.ports \subseteq PortIds
      /\ (\A x \in DOMAIN h.ports : h.ports[x].ref_count \in Int) /\ (\A x : Sum(h, x) \in Nat)
      /\ Range(h.tunnels) = DOMAIN h.tun
  BY GoodFacts
<1>2. g = [h EXCEPT !.ports = ports, !.seq_map = seq_map]
  BY DEF mappings_expire
<1>3. \A x : /\ RM(seq_map, x) = RM(h.seq_map, x) - N(x)
             /\ N(x) \in Nat
             /\ RM(h.seq_map, x) \in Nat
  <2>1. SUFFICES ASSUME NEW x
                 PROVE /\ RM(seq_map, x) = RM(h.seq_map, x) - N(x)
                       /\ N(x) \in Nat
                       /\ RM(h.seq_map, x) \in Nat
    OBVIOUS
  <2> HIDE DEF A
  <2>2. Count(seq_map, From(x)) = Count(h.seq_map, From(x) \cap A)
    BY <1>1, CountKept
  <2>3. Count(h.seq_map, From(x)) = Count(h.seq_map, From(x) \cap A) + N(x)
    <3>1. Count(h.seq_map, From(x)) = CountIn(h.seq_map, From(x), A) + CountOut(h.seq_map, From(x), A)
      BY <1>1, CountSplit
    <3> QED
      BY <3>1 DEF CountIn, CountOut
  <2>4. /\ Count(h.seq_map, From(x) \cap A) \in Nat /\ N(x) \in Nat
        /\ Count(h.seq_map, From(x)) \in Nat
    BY <1>1, CountType
  <2>5. QED
    <3> HIDE DEF N
    <3> QED
      BY <2>2, <2>3, <2>4 DEF RM
<1>4. n \in [DOMAIN h.ports -> Nat] /\ \A x \in DOMAIN h.ports : n[x] = N(x)
  <2>1. ASSUME NEW x \in DOMAIN h.ports PROVE n[x] = N(x)
    <3>1. \A i \in DOMAIN h.seq_map : h.seq_map[i] \in MappingType /\ h.seq_map[i] \in Range(h.seq_map)
      BY <1>1 DEF Range
    <3>2. {i \in DOMAIN h.seq_map : h.seq_map[i].origin = x /\ ~Unexpired(h.seq_map[i])}
            = {i \in DOMAIN h.seq_map : h.seq_map[i] \in From(x) \ A}
      BY <3>1 DEF From, Alive
    <3> QED
      BY <3>2 DEF Count
  <2> HIDE DEF A, N
  <2>2. \A x \in DOMAIN h.ports : n[x] \in Nat
    BY <1>3, <2>1
  <2> QED
    BY <2>1, <2>2
<1>5. ports \in PortsType /\ DOMAIN ports = DOMAIN h.ports
      /\ \A x \in DOMAIN h.ports : ports[x].ref_count = h.ports[x].ref_count - N(x)
  <2> HIDE DEF n, A, N
  <2> QED
    BY <1>1, <1>4, RefsDec
<1>6. seq_map \in Seq(MappingType)
  BY <1>1, KeptProperties
<1> HIDE DEF A, N, n, ports, seq_map, g
<1>7. /\ g \in HubType /\ g.ports = ports /\ g.seq_pool = h.seq_pool /\ g.seq_map = seq_map
      /\ g.tunnels = h.tunnels /\ g.tun = h.tun /\ g.tei_pool = h.tei_pool
      /\ g.pending_deletes = h.pending_deletes /\ Calm(g, h)
  BY <1>1, <1>2, <1>5, <1>6 DEF HubType, Calm
<1>8. \A x : Sum(g, x) = Sum(h, x) - N(x)
  <2>1. SUFFICES ASSUME NEW x PROVE Sum(g, x) = Sum(h, x) - N(x)
    OBVIOUS
  <2>2. RT(h.tun, x) \in Nat /\ RM(h.seq_map, x) \in Nat /\ RR(h.resolved, x) \in Nat /\ RP(x) \in Nat
    BY <1>1, RefTypes
  <2> QED
    BY <1>3, <1>7, <2>2 DEF Sum, Calm
<1>9. \A x \in DOMAIN h.ports : g.ports[x].ref_count - Sum(g, x) = h.ports[x].ref_count - Sum(h, x)
  BY <1>1, <1>3, <1>5, <1>7, <1>8
<1>10. \A x \in PortIds \ DOMAIN h.ports : Sum(g, x) = Sum(h, x)
  <2>1. SUFFICES ASSUME NEW x \in PortIds \ DOMAIN h.ports PROVE Sum(g, x) = Sum(h, x)
    OBVIOUS
  <2>2. Sum(h, x) = 0 /\ Sum(g, x) \in Nat
    BY <1>7, RefTypes DEF Good, Exact, Sum
  <2>3. N(x) \in Nat
    BY <1>3
  <2> QED
    BY <1>8, <2>2, <2>3
<1>11. Good(g)
  BY <1>1, <1>5, <1>7, <1>9, <1>10, ExactStep
<1> QED
  BY <1>5, <1>7, <1>11 DEF g
\* The same for the cache of GGSN addresses.
LEMMA ResolvedExpire ==
  ASSUME NEW h, Good(h)
  PROVE  /\ Good(resolved_expire(h))
         /\ DOMAIN resolved_expire(h).ports = DOMAIN h.ports
         /\ resolved_expire(h).tun = h.tun
         /\ resolved_expire(h).pending_deletes = h.pending_deletes
         /\ resolved_expire(h).lookups = h.lookups
         /\ resolved_expire(h).resolved = Kept(h.resolved, Alive(h.resolved))
         /\ resolved_expire(h).seq_map = h.seq_map
<1> DEFINE A == Alive(h.resolved)
           N(x) == Count(h.resolved, At(x) \ A)
           n == [pp \in DOMAIN h.ports |->
                   Cardinality({i \in DOMAIN h.resolved :
                                  h.resolved[i].peer = pp /\ ~Unexpired(h.resolved[i])})]
           ports == ref_counts_dec(h.ports, n)
           resolved == Kept(h.resolved, A)
           g == resolved_expire(h)
<1>1. h \in HubType /\ h.resolved \in Seq(ResolvedType) /\ h.ports \in PortsType /\ DOMAIN h.ports \subseteq PortIds
      /\ (\A x \in DOMAIN h.ports : h.ports[x].ref_count \in Int) /\ (\A x : Sum(h, x) \in Nat)
      /\ Range(h.tunnels) = DOMAIN h.tun
  BY GoodFacts
<1>2. g = [h EXCEPT !.ports = ports, !.resolved = resolved]
  BY DEF resolved_expire
<1>3. \A x : /\ RR(resolved, x) = RR(h.resolved, x) - N(x)
             /\ N(x) \in Nat
             /\ RR(h.resolved, x) \in Nat
  <2>1. SUFFICES ASSUME NEW x
                 PROVE /\ RR(resolved, x) = RR(h.resolved, x) - N(x)
                       /\ N(x) \in Nat
                       /\ RR(h.resolved, x) \in Nat
    OBVIOUS
  <2> HIDE DEF A
  <2>2. Count(resolved, At(x)) = Count(h.resolved, At(x) \cap A)
    BY <1>1, CountKept
  <2>3. Count(h.resolved, At(x)) = Count(h.resolved, At(x) \cap A) + N(x)
    <3>1. Count(h.resolved, At(x)) = CountIn(h.resolved, At(x), A) + CountOut(h.resolved, At(x), A)
      BY <1>1, CountSplit
    <3> QED
      BY <3>1 DEF CountIn, CountOut
  <2>4. /\ Count(h.resolved, At(x) \cap A) \in Nat /\ N(x) \in Nat
        /\ Count(h.resolved, At(x)) \in Nat
    BY <1>1, CountType
  <2>5. QED
    <3> HIDE DEF N
    <3> QED
      BY <2>2, <2>3, <2>4 DEF RR
<1>4. n \in [DOMAIN h.ports -> Nat] /\ \A x \in DOMAIN h.ports : n[x] = N(x)
  <2>1. ASSUME NEW x \in DOMAIN h.ports PROVE n[x] = N(x)
    <3>1. \A i \in DOMAIN h.resolved : h.resolved[i] \in ResolvedType /\ h.resolved[i] \in Range(h.resolved)
      BY <1>1 DEF Range
    <3>2. {i \in DOMAIN h.resolved : h.resolved[i].peer = x /\ ~Unexpired(h.resolved[i])}
            = {i \in DOMAIN h.resolved : h.resolved[i] \in At(x) \ A}
      BY <3>1 DEF At, Alive
    <3> QED
      BY <3>2 DEF Count
  <2> HIDE DEF A, N
  <2>2. \A x \in DOMAIN h.ports : n[x] \in Nat
    BY <1>3, <2>1
  <2> QED
    BY <2>1, <2>2
<1>5. ports \in PortsType /\ DOMAIN ports = DOMAIN h.ports
      /\ \A x \in DOMAIN h.ports : ports[x].ref_count = h.ports[x].ref_count - N(x)
  <2> HIDE DEF n, A, N
  <2> QED
    BY <1>1, <1>4, RefsDec
<1>6. resolved \in Seq(ResolvedType)
  BY <1>1, KeptProperties
<1> HIDE DEF A, N, n, ports, resolved, g
<1>7. /\ g \in HubType /\ g.ports = ports /\ g.seq_pool = h.seq_pool /\ g.seq_map = h.seq_map
      /\ g.tunnels = h.tunnels /\ g.tun = h.tun /\ g.tei_pool = h.tei_pool
      /\ g.pending_deletes = h.pending_deletes /\ g.lookups = h.lookups /\ g.resolved = resolved
  BY <1>1, <1>2, <1>5, <1>6 DEF HubType
<1>8. \A x : Sum(g, x) = Sum(h, x) - N(x)
  <2>1. SUFFICES ASSUME NEW x PROVE Sum(g, x) = Sum(h, x) - N(x)
    OBVIOUS
  <2>2. RT(h.tun, x) \in Nat /\ RM(h.seq_map, x) \in Nat /\ RR(h.resolved, x) \in Nat /\ RP(x) \in Nat
    BY <1>1, RefTypes
  <2> QED
    BY <1>3, <1>7, <2>2 DEF Sum
<1>9. \A x \in DOMAIN h.ports : g.ports[x].ref_count - Sum(g, x) = h.ports[x].ref_count - Sum(h, x)
  BY <1>1, <1>3, <1>5, <1>7, <1>8
<1>10. \A x \in PortIds \ DOMAIN h.ports : Sum(g, x) = Sum(h, x)
  <2>1. SUFFICES ASSUME NEW x \in PortIds \ DOMAIN h.ports PROVE Sum(g, x) = Sum(h, x)
    OBVIOUS
  <2>2. Sum(h, x) = 0 /\ Sum(g, x) \in Nat
    BY <1>7, RefTypes DEF Good, Exact, Sum
  <2>3. N(x) \in Nat
    BY <1>3
  <2> QED
    BY <1>8, <2>2, <2>3
<1>11. Good(g)
  BY <1>1, <1>5, <1>7, <1>9, <1>10, ExactStep
<1> QED
  BY <1>5, <1>7, <1>11 DEF g, resolved, A
\* Expiry of everything whose time has come.
LEMMA ExpiryTick ==
  ASSUME NEW h, Good(h)
  PROVE  /\ Good(expiry_tick(h))
         /\ DOMAIN expiry_tick(h).tun \subseteq DOMAIN h.tun
         /\ \A u \in DOMAIN expiry_tick(h).tun : expiry_tick(h).tun[u] = h.tun[u]
         /\ expiry_tick(h).lookups = {l \in h.lookups : Unexpired(l)}
         /\ expiry_tick(h).resolved = Kept(h.resolved, Alive(h.resolved))
<1> DEFINE h1 == mappings_expire(h)
           T == {t \in DOMAIN h1.tun : ~Unexpired(h1.tun[t])}
           h2 == tunnels_expire(h1)
           h3 == resolved_expire(h2)
           pending_deletes == Kept(h.pending_deletes, Alive(h.pending_deletes))
           lookups == {l \in h.lookups : Unexpired(l)}
           g == expiry_tick(h)
<1>1. Good(h1) /\ h1.tun = h.tun /\ Calm(h1, h)
  BY MappingsExpire
<1>2. g = [h3 EXCEPT !.pending_deletes = pending_deletes, !.lookups = lookups]
  BY DEF expiry_tick
<1>3. h2 = tunnels_del(h1, T)
  BY DEF tunnels_expire
<1> HIDE DEF h1, h2
<1>4. T \in SUBSET DOMAIN h1.tun
  OBVIOUS
<1> HIDE DEF T
<1>5. Good(h2) /\ DOMAIN h2.tun = DOMAIN h1.tun \ T /\ (\A u \in DOMAIN h1.tun \ T : h2.tun[u] = h1.tun[u]) /\ Calm(h2, h1)
  BY <1>1, <1>3, <1>4, TunnelsDel
<1>6. Good(h3) /\ h3.tun = h2.tun /\ h3.resolved = Kept(h2.resolved, Alive(h2.resolved))
  BY <1>5, ResolvedExpire
<1> HIDE DEF h3
<1>7. h3 \in HubType /\ h.pending_deletes \in Seq(PendingType) /\ h.lookups \subseteq LookupType
  BY <1>6, GoodFacts
<1>8. pending_deletes \in Seq(PendingType) /\ lookups \subseteq LookupType
  BY <1>7, KeptProperties
<1> HIDE DEF pending_deletes, lookups, g
<1>9. /\ g \in HubType /\ g.ports = h3.ports /\ g.seq_pool = h3.seq_pool /\ g.seq_map = h3.seq_map
      /\ g.tunnels = h3.tunnels /\ g.tun = h3.tun /\ g.lookups = lookups /\ g.resolved = h3.resolved
  BY <1>2, <1>7, <1>8 DEF HubType
<1>10. Exact(g)
  BY <1>6, <1>9 DEF Good, Exact, Sum
<1>11. Good(g)
  BY <1>6, <1>9, <1>10 DEF Good
<1>12. g.resolved = Kept(h.resolved, Alive(h.resolved))
  BY <1>1, <1>5, <1>6, <1>9 DEF Calm
<1>13. DOMAIN g.tun \subseteq DOMAIN h.tun /\ \A u \in DOMAIN g.tun : g.tun[u] = h.tun[u]
  BY <1>1, <1>5, <1>6, <1>9
<1> QED
  BY <1>9, <1>11, <1>12, <1>13 DEF g, lookups

\* Freeing ports that nothing refers to leaves the counts exact.
LEMMA GcBinds ==
  ASSUME NEW h, Good(h)
  PROVE  Good(gc_binds(h)) /\ gc_binds(h).tun = h.tun /\ Calm(gc_binds(h), h)
<1> DEFINE kept == {pp \in DOMAIN h.ports : h.ports[pp].ref_count # 0}
           peers == {PeerOf(pp) : pp \in kept}
           ports == Without(h.ports, DOMAIN h.ports \ kept)
           seq_pool == Without(h.seq_pool, DOMAIN h.seq_pool \ peers)
           seq_map == [i \in DOMAIN h.seq_map |->
                         [h.seq_map[i] EXCEPT !.peer = IF @ \in peers THEN @ ELSE NoPeer]]
           g == gc_binds(h)
<1>1. /\ h \in HubType /\ h.ports \in [DOMAIN h.ports -> PortRec] /\ DOMAIN h.ports \subseteq PortIds
      /\ h.seq_pool \in [DOMAIN h.seq_pool -> 0..SeqMax] /\ DOMAIN h.seq_pool \subseteq PeerIds
      /\ DOMAIN h.seq_pool = {PeerOf(pp) : pp \in DOMAIN h.ports}
      /\ h.seq_map \in Seq(MappingType) /\ Range(h.tunnels) = DOMAIN h.tun
  BY GoodFacts DEF Good
<1>2. g = [h EXCEPT !.ports = ports, !.seq_pool = seq_pool, !.seq_map = seq_map]
  BY DEF gc_binds
<1>3. kept \subseteq DOMAIN h.ports /\ peers \subseteq DOMAIN h.seq_pool
  BY <1>1
<1>4. DOMAIN ports = kept /\ ports \in PortsType /\ \A x \in kept : ports[x] = h.ports[x]
  <2> HIDE DEF kept
  <2>1. ports \in [kept -> PortRec] /\ \A x \in kept : ports[x] = h.ports[x]
    <3>1. DOMAIN h.ports \ (DOMAIN h.ports \ kept) = kept
      BY <1>3
    <3>2. ports = [x \in kept |-> h.ports[x]]
      BY <3>1 DEF Without
    <3> QED
      BY <1>1, <1>3, <3>2
  <2> HIDE DEF ports
  <2> QED
    BY <1>1, <1>3, <2>1, PortsDef
<1>5. DOMAIN seq_pool = peers /\ seq_pool \in PoolType
  <2> HIDE DEF peers
  <2>1. seq_pool \in [peers -> 0..SeqMax]
    BY <1>1, <1>3 DEF Without
  <2> HIDE DEF seq_pool
  <2> QED
    BY <1>1, <1>3, <2>1, PoolDef
<1>6. seq_map \in Seq(MappingType) /\ DOMAIN seq_map = DOMAIN h.seq_map
      /\ \A i \in DOMAIN h.seq_map : seq_map[i].origin = h.seq_map[i].origin
  <2> HIDE DEF peers
  <2>1. \A m \in MappingType :
          /\ [m EXCEPT !.peer = IF @ \in peers THEN @ ELSE NoPeer] \in MappingType
          /\ [m EXCEPT !.peer = IF @ \in peers THEN @ ELSE NoPeer].origin = m.origin
    BY DEF MappingType
  <2>2. \A i \in 1..Len(h.seq_map) : seq_map[i] \in MappingType /\ seq_map[i].origin = h.seq_map[i].origin
    BY <1>1, <2>1
  <2>3. DOMAIN h.seq_map = 1..Len(h.seq_map) /\ Len(h.seq_map) \in Nat
    BY <1>1
  <2>4. seq_map \in [1..Len(h.seq_map) -> MappingType]
    BY <2>2, <2>3
  <2> HIDE DEF seq_map
  <2> QED
    BY <2>2, <2>3, <2>4
<1>7. kept = {pp \in DOMAIN h.ports : h.ports[pp].ref_count # 0} /\ peers = {PeerOf(pp) : pp \in kept}
  OBVIOUS
<1> HIDE DEF kept, peers, ports, seq_pool, seq_map, g
<1>8. /\ g \in HubType /\ g.ports = ports /\ g.seq_pool = seq_pool /\ g.seq_map = seq_map
      /\ g.tunnels = h.tunnels /\ g.tun = h.tun /\ g.tei_pool = h.tei_pool
      /\ g.pending_deletes = h.pending_deletes /\ Calm(g, h)
  BY <1>1, <1>2, <1>4, <1>5, <1>6 DEF HubType, Calm
<1>9. \A x : RM(seq_map, x) = RM(h.seq_map, x)
  <2>1. SUFFICES ASSUME NEW x PROVE RM(seq_map, x) = RM(h.seq_map, x)
    OBVIOUS
  <2>2. \A i \in DOMAIN seq_map : seq_map[i] \in From(x) <=> h.seq_map[i] \in From(x)
    <3>1. \A i \in DOMAIN seq_map : seq_map[i] \in MappingType /\ h.seq_map[i] \in MappingType
      BY <1>1, <1>6
    <3> QED
      BY <1>6, <3>1 DEF From
  <2> QED
    BY <1>6, <2>2, CountSame DEF RM
<1>10. \A x : Sum(g, x) = Sum(h, x)
  BY <1>8, <1>9 DEF Sum, Calm
<1>11. Exact(g)
  <2>1. SUFFICES ASSUME NEW x \in PortIds
                 PROVE IF x \in DOMAIN g.ports THEN g.ports[x].ref_count = Sum(g, x) ELSE Sum(g, x) = 0
    BY DEF Exact
  <2>2. IF x \in DOMAIN h.ports THEN h.ports[x].ref_count = Sum(h, x) ELSE Sum(h, x) = 0
    BY DEF Good, Exact
  <2>3. x \in kept <=> x \in DOMAIN h.ports /\ h.ports[x].ref_count # 0
    BY <1>7
  <2> QED
    BY <1>4, <1>8, <1>10, <2>2, <2>3
<1>12. Good(g)
  BY <1>1, <1>4, <1>5, <1>7, <1>8, <1>11 DEF Good
<1> QED
  BY <1>8, <1>12 DEF g
\* The clock changes no reference.
LEMMA AgingGood ==
  ASSUME NEW h, Good(h)
  PROVE  /\ Good(Aging(h))
         /\ DOMAIN Aging(h).tun = DOMAIN h.tun
         /\ \A u \in DOMAIN h.tun : /\ Aging(h).tun[u].endpoint = h.tun[u].endpoint
                                    /\ Aging(h).tun[u].tei_repl = h.tun[u].tei_repl
         /\ DOMAIN Aging(h).resolved = DOMAIN h.resolved
         /\ \A i \in DOMAIN h.resolved : Aging(h).resolved[i].apn = h.resolved[i].apn
         /\ \A a : pending(Aging(h), a) <=> pending(h, a)
<1> DEFINE g == Aging(h)
           lookups == {Older(l) : l \in h.lookups}
<1>1. /\ h \in HubType /\ h.tun \in [DOMAIN h.tun -> TunnelType] /\ DOMAIN h.tun \subseteq TunIds
      /\ h.seq_map \in Seq(MappingType) /\ h.pending_deletes \in Seq(PendingType)
      /\ h.resolved \in Seq(ResolvedType) /\ h.lookups \subseteq LookupType
      /\ Range(h.tunnels) = DOMAIN h.tun
  BY GoodFacts
<1>2. Quick \in Nat /\ Slow \in Nat
  BY HubAssumption
<1>3. /\ \A n \in 0..Quick : Aged(n) \in 0..Quick
      /\ \A n \in 0..Slow : Aged(n) \in 0..Slow
  BY <1>2 DEF Aged
<1>4. \A x \in TunnelType : Older(x) \in TunnelType /\ Older(x).endpoint = x.endpoint /\ Older(x).tei_repl = x.tei_repl
  BY <1>3 DEF TunnelType, Older
<1>5. \A x \in MappingType : Older(x) \in MappingType /\ Older(x).origin = x.origin
  BY <1>3 DEF MappingType, Older
<1>6. \A x \in PendingType : Older(x) \in PendingType
  BY <1>3 DEF PendingType, Older
<1>7. \A x \in ResolvedType : Older(x) \in ResolvedType /\ Older(x).peer = x.peer /\ Older(x).apn = x.apn
  BY <1>3 DEF ResolvedType, Older
<1>8. \A x \in LookupType : Older(x) \in LookupType /\ Older(x).apn = x.apn
  BY <1>3 DEF LookupType, Older
<1>9. AllOlder(h.tun) \in TunsType /\ DOMAIN AllOlder(h.tun) = DOMAIN h.tun
      /\ \A u \in DOMAIN h.tun : AllOlder(h.tun)[u].endpoint = h.tun[u].endpoint
                              /\ AllOlder(h.tun)[u].tei_repl = h.tun[u].tei_repl
  <2>1. AllOlder(h.tun) \in [DOMAIN h.tun -> TunnelType]
    BY <1>1, <1>4 DEF AllOlder
  <2>2. \A u \in DOMAIN h.tun : AllOlder(h.tun)[u] = Older(h.tun[u])
    BY DEF AllOlder
  <2> QED
    BY <1>1, <1>4, <2>1, <2>2, TunsDef
<1>10. ASSUME NEW X, NEW s \in Seq(X), \A x \in X : Older(x) \in X
       PROVE  /\ AllOlder(s) \in Seq(X) /\ DOMAIN AllOlder(s) = DOMAIN s
              /\ \A i \in DOMAIN s : AllOlder(s)[i] = Older(s[i]) /\ s[i] \in X
  <2>1. DOMAIN s = 1..Len(s) /\ Len(s) \in Nat /\ \A i \in 1..Len(s) : s[i] \in X
    OBVIOUS
  <2>2. AllOlder(s) \in [1..Len(s) -> X]
    BY <1>10, <2>1 DEF AllOlder
  <2> QED
    BY <2>1, <2>2 DEF AllOlder
<1>11. AllOlder(h.seq_map) \in Seq(MappingType) /\ DOMAIN AllOlder(h.seq_map) = DOMAIN h.seq_map
       /\ \A i \in DOMAIN h.seq_map : AllOlder(h.seq_map)[i] = Older(h.seq_map[i]) /\ h.seq_map[i] \in MappingType
  BY <1>1, <1>5, <1>10
<1>12. AllOlder(h.pending_deletes) \in Seq(PendingType)
  BY <1>1, <1>6, <1>10
<1>13. AllOlder(h.resolved) \in Seq(ResolvedType) /\ DOMAIN AllOlder(h.resolved) = DOMAIN h.resolved
       /\ \A i \in DOMAIN h.resolved : AllOlder(h.resolved)[i] = Older(h.resolved[i]) /\ h.resolved[i] \in ResolvedType
  BY <1>1, <1>7, <1>10
<1>14. lookups \subseteq LookupType
  BY <1>1, <1>8
<1>15. g = [h EXCEPT !.tun = AllOlder(h.tun), !.seq_map = AllOlder(h.seq_map),
              !.pending_deletes = AllOlder(h.pending_deletes), !.resolved = AllOlder(h.resolved),
              !.lookups = lookups]
  BY DEF Aging
<1>16. \A a : (\E l \in lookups : l.apn = a) <=> (\E l \in h.lookups : l.apn = a)
  BY <1>1, <1>8
<1> HIDE DEF lookups, g
<1>17. /\ g \in HubType /\ g.ports = h.ports /\ g.seq_pool = h.seq_pool /\ g.seq_map = AllOlder(h.seq_map)
       /\ g.tunnels = h.tunnels /\ g.tun = AllOlder(h.tun) /\ g.resolved = AllOlder(h.resolved)
       /\ g.lookups = lookups
  BY <1>1, <1>9, <1>11, <1>12, <1>13, <1>14, <1>15 DEF HubType
<1>18. ASSUME NEW x PROVE Sum(g, x) = Sum(h, x)
  <2>1. RM(g.seq_map, x) = RM(h.seq_map, x)
    <3>1. \A i \in DOMAIN h.seq_map : AllOlder(h.seq_map)[i] \in From(x) <=> h.seq_map[i] \in From(x)
      BY <1>5, <1>11 DEF From
    <3> QED
      BY <1>11, <1>17, <3>1, CountSame DEF RM
  <2>2. RR(g.resolved, x) = RR(h.resolved, x)
    <3>1. \A i \in DOMAIN h.resolved : AllOlder(h.resolved)[i] \in At(x) <=> h.resolved[i] \in At(x)
      BY <1>7, <1>13 DEF At
    <3> QED
      BY <1>13, <1>17, <3>1, CountSame DEF RR
  <2>3. TunRefs(g.tun, x) = TunRefs(h.tun, x)
    BY <1>9, <1>17 DEF TunRefs
  <2> QED
    BY <2>1, <2>2, <2>3 DEF Sum, RT
<1>19. Good(g)
  BY <1>1, <1>9, <1>17, <1>18 DEF Good, Exact
<1>20. \A i \in DOMAIN h.resolved : g.resolved[i].apn = h.resolved[i].apn
  BY <1>7, <1>13, <1>17
<1>21. \A a : pending(g, a) <=> pending(h, a)
  BY <1>16, <1>17 DEF pending
<1> QED
  BY <1>9, <1>13, <1>17, <1>19, <1>20, <1>21 DEF g

\* The first index of a set of indexes is one of them.
LEMMA FirstOf ==
  ASSUME NEW I \in SUBSET (Nat \ {0})
  PROVE  /\ First(I) # 0 => First(I) \in I
         /\ First(I) = 0 <=> I = {}
<1>1. CASE I = {}
  BY <1>1 DEF First
<1>2. CASE I # {}
  <2>1. \E i \in I : \A j \in I : i <= j
    BY <1>2, NatMinimum
  <2>2. First(I) \in I
    BY <1>2, <2>1 DEF First
  <2> QED
    BY <1>2, <2>2
<1> QED
  BY <1>1, <1>2

\* A mapping is renewed, or made with a reference to the sender's port.
LEMMA MapSeq ==
  ASSUME NEW h, Good(h), NEW from \in DOMAIN h.ports, NEW to \in DOMAIN h.ports, NEW seq \in 0..SeqMax
  PROVE  /\ Good(map_seq(h, from, to, seq))
         /\ map_seq(h, from, to, seq).tun = h.tun
         /\ Calm(map_seq(h, from, to, seq), h)
<1> DEFINE peer == PeerOf(to)
           I == {i \in DOMAIN h.seq_map :
                   LET m == h.seq_map[i] IN m.peer = peer /\ m.origin = from /\ m.orig = seq}
           i == seq_mapped(h, peer, from, seq)
           repl == nr_pool_next(h.seq_pool[peer], 0, SeqMax)
           m == [peer |-> peer, origin |-> from, orig |-> seq, repl |-> repl, ttl |-> Quick]
           renewed == [h.seq_map EXCEPT ![i].ttl = Quick]
           seq_pool == [h.seq_pool EXCEPT ![peer] = repl]
           seq_map == Append(h.seq_map, m)
           h1 == [h EXCEPT !.seq_pool = seq_pool, !.seq_map = seq_map]
           g == map_seq(h, from, to, seq)
<1>1. /\ h \in HubType /\ h.seq_map \in Seq(MappingType) /\ h.seq_pool \in [DOMAIN h.seq_pool -> 0..SeqMax]
      /\ DOMAIN h.seq_pool \subseteq PeerIds /\ peer \in DOMAIN h.seq_pool /\ DOMAIN h.ports \subseteq PortIds
      /\ Range(h.tunnels) = DOMAIN h.tun
      /\ (\A x \in DOMAIN h.ports : h.ports[x].ref_count \in Int) /\ (\A x : Sum(h, x) \in Nat)
  BY GoodFacts
<1>2. SeqMax \in Nat /\ Quick \in Nat
  BY HubAssumption
<1>3. CASE i # 0
  <2>1. i \in DOMAIN h.seq_map
    <3>1. I \in SUBSET (Nat \ {0}) /\ I \subseteq DOMAIN h.seq_map
      BY <1>1
    <3>2. i = First(I)
      BY DEF seq_mapped
    <3> HIDE DEF I, i
    <3> QED
      BY <1>3, <3>1, <3>2, FirstOf
  <2> HIDE DEF i
  <2>2. renewed \in Seq(MappingType) /\ DOMAIN renewed = DOMAIN h.seq_map
        /\ \A j \in DOMAIN h.seq_map : renewed[j].origin = h.seq_map[j].origin
    <3>1. \A x \in MappingType : [x EXCEPT !.ttl = Quick] \in MappingType /\ [x EXCEPT !.ttl = Quick].origin = x.origin
      BY <1>2 DEF MappingType
    <3>2. DOMAIN h.seq_map = 1..Len(h.seq_map) /\ Len(h.seq_map) \in Nat /\ \A j \in 1..Len(h.seq_map) : h.seq_map[j] \in MappingType
      BY <1>1
    <3>3. renewed = [h.seq_map EXCEPT ![i] = [h.seq_map[i] EXCEPT !.ttl = Quick]]
      OBVIOUS
    <3> DEFINE x == [h.seq_map[i] EXCEPT !.ttl = Quick]
    <3>4. x \in MappingType /\ x.origin = h.seq_map[i].origin
      BY <2>1, <3>1, <3>2
    <3> HIDE DEF x
    <3>5. renewed = [h.seq_map EXCEPT ![i] = x]
      BY <3>3 DEF x
    <3> HIDE DEF renewed
    <3> QED
      BY <1>1, <2>1, <3>2, <3>4, <3>5
  <2>3. g = [h EXCEPT !.seq_map = renewed]
    BY <1>3 DEF map_seq, i
  <2> HIDE DEF renewed, g
  <2>4. /\ g \in HubType /\ g.ports = h.ports /\ g.seq_pool = h.seq_pool /\ g.seq_map = renewed
        /\ g.tunnels = h.tunnels /\ g.tun = h.tun /\ Calm(g, h)
    BY <1>1, <2>2, <2>3 DEF HubType, Calm
  <2>5. ASSUME NEW x PROVE Sum(g, x) = Sum(h, x)
    <3>1. \A j \in DOMAIN renewed : renewed[j] \in From(x) <=> h.seq_map[j] \in From(x)
      <4>1. \A j \in DOMAIN renewed : renewed[j] \in MappingType /\ h.seq_map[j] \in MappingType
        BY <1>1, <2>2
      <4> QED
        BY <2>2, <4>1 DEF From
    <3>2. RM(renewed, x) = RM(h.seq_map, x)
      BY <2>2, <3>1, CountSame DEF RM
    <3> QED
      BY <2>4, <3>2 DEF Sum, Calm
  <2>6. Good(g)
    BY <1>1, <2>4, <2>5 DEF Good, Exact
  <2> QED
    BY <2>4, <2>6 DEF g
<1>4. CASE i = 0
  <2>1. repl \in 0..SeqMax
    BY <1>1, <1>2 DEF nr_pool_next
  <2>2. m \in MappingType /\ m.origin = from
    BY <1>1, <1>2, <2>1 DEF MappingType
  <2>3. seq_pool \in PoolType /\ DOMAIN seq_pool = DOMAIN h.seq_pool
    <3> HIDE DEF repl, peer
    <3>1. seq_pool \in [DOMAIN h.seq_pool -> 0..SeqMax]
      BY <1>1, <2>1
    <3> QED
      BY <1>1, <3>1, PoolDef
  <2> HIDE DEF m, repl
  <2>4. seq_map \in Seq(MappingType)
    BY <1>1, <2>2
  <2>5. g = ref_count_inc(h1, from)
    BY <1>4 DEF map_seq, i, m, repl
  <2> HIDE DEF seq_pool, seq_map, g
  <2>6. /\ h1 \in HubType /\ h1.ports = h.ports /\ h1.seq_pool = seq_pool /\ h1.seq_map = seq_map
        /\ h1.tunnels = h.tunnels /\ h1.tun = h.tun /\ Calm(h1, h)
    BY <1>1, <2>3, <2>4 DEF HubType, Calm
  <2> HIDE DEF h1
  <2>7. /\ g \in HubType /\ DOMAIN g.ports = DOMAIN h.ports /\ g.seq_pool = seq_pool /\ g.seq_map = seq_map
        /\ g.tunnels = h.tunnels /\ g.tun = h.tun /\ Calm(g, h)
        /\ \A x \in DOMAIN h.ports : g.ports[x].ref_count = h.ports[x].ref_count + (IF x = from THEN 1 ELSE 0)
    BY <2>5, <2>6, RefInc DEF Calm
  <2>8. ASSUME NEW x PROVE Sum(g, x) = Sum(h, x) + (IF x = from THEN 1 ELSE 0)
    <3>1. RM(seq_map, x) = RM(h.seq_map, x) + (IF m \in From(x) THEN 1 ELSE 0)
      BY <1>1, <2>2, CountAppend DEF RM, seq_map
    <3>2. m \in From(x) <=> x = from
      BY <2>2 DEF From
    <3>3. RT(h.tun, x) \in Nat /\ RM(h.seq_map, x) \in Nat /\ RR(h.resolved, x) \in Nat /\ RP(x) \in Nat
      BY <1>1, RefTypes
    <3> QED
      BY <2>7, <3>1, <3>2, <3>3 DEF Sum, Calm
  <2>9. Exact(g)
    <3>1. SUFFICES ASSUME NEW x \in PortIds
                   PROVE IF x \in DOMAIN g.ports THEN g.ports[x].ref_count = Sum(g, x) ELSE Sum(g, x) = 0
      BY DEF Exact
    <3>2. IF x \in DOMAIN h.ports THEN h.ports[x].ref_count = Sum(h, x) ELSE Sum(h, x) = 0
      BY DEF Good, Exact
    <3>3. Sum(g, x) = Sum(h, x) + (IF x = from THEN 1 ELSE 0)
      BY <2>8
    <3> QED
      BY <1>1, <2>7, <3>2, <3>3
  <2>10. Good(g)
    BY <1>1, <2>3, <2>7, <2>9 DEF Good
  <2> QED
    BY <2>7, <2>10 DEF g
<1> QED
  BY <1>3, <1>4
-----------------------------------------------------------------------------
(* The search for a mapped TEI.                                            *)

\* The n-th value of the recursion in mapped_tei, when the earlier ones are those of a.
TeiStep(a, h, new, list, n) ==
  IF n = 0
  THEN [mine |-> h.tun[new].tei_repl, tei_min |-> TeiMax, tei_max |-> 0, found |-> TRUE]
  ELSE IF a[n - 1].found THEN check_mapped_tei(a[n - 1], h.tun[list[n]].tei_repl)
  ELSE a[n - 1]

\* There is a function that satisfies the recursion, up to every m.
LEMMA TeiStepsExist ==
  ASSUME NEW h, NEW new, NEW list
  PROVE  \A m \in Nat : \E a : a = [n \in 0..m |-> TeiStep(a, h, new, list, n)]
<1> DEFINE I == {m \in Nat : \E a : a = [n \in 0..m |-> TeiStep(a, h, new, list, n)]}
<1>1. 0 \in I
  <2> DEFINE z == [mine |-> h.tun[new].tei_repl, tei_min |-> TeiMax, tei_max |-> 0, found |-> TRUE]
  <2>1. \A a, n : n = 0 => TeiStep(a, h, new, list, n) = z
    BY DEF TeiStep
  <2> HIDE DEF z
  <2>2. [n \in 0..0 |-> z] = [n \in 0..0 |-> TeiStep([k \in 0..0 |-> z], h, new, list, n)]
    BY <2>1
  <2> QED
    BY <2>2
<1>2. ASSUME NEW m \in Nat, m \in I PROVE m + 1 \in I
  <2>1. PICK a : a = [n \in 0..m |-> TeiStep(a, h, new, list, n)]
    BY <1>2
  <2> DEFINE b == [n \in 0..(m + 1) |-> IF n = m + 1 THEN TeiStep(a, h, new, list, n) ELSE a[n]]
  <2>2. \A n \in 0..(m + 1) : b[n] = TeiStep(b, h, new, list, n)
    <3>0. SUFFICES ASSUME NEW n \in 0..(m + 1) PROVE b[n] = TeiStep(b, h, new, list, n)
      OBVIOUS
    <3>1. n # 0 => b[n - 1] = a[n - 1]
      OBVIOUS
    <3>2. n # m + 1 => a[n] = TeiStep(a, h, new, list, n)
      BY <2>1
    <3>3. b[n] = IF n = m + 1 THEN TeiStep(a, h, new, list, n) ELSE a[n]
      OBVIOUS
    <3> HIDE DEF b
    <3>4. TeiStep(b, h, new, list, n) = TeiStep(a, h, new, list, n)
      BY <3>1 DEF TeiStep
    <3> QED
      BY <3>2, <3>3, <3>4
  <2>3. b = [n \in 0..(m + 1) |-> TeiStep(b, h, new, list, n)]
    BY <2>2
  <2> HIDE DEF b
  <2> QED
    BY <2>3
<1> HIDE DEF I
<1>3. \A m \in Nat : m \in I
  BY <1>1, <1>2, SetInduction
<1> QED
  BY <1>3 DEF I

Search == [mine : 1..TeiMax, tei_min : 1..TeiMax, tei_max : 0..TeiMax, found : BOOLEAN]

\* One step keeps the search in range; while it finds TEIs, those seen are between
\* tei_min and tei_max and different from the one chosen.
LEMMA CheckMappedTei ==
  ASSUME NEW a \in Search, a.found, NEW its \in 1..TeiMax, NEW b, b = check_mapped_tei(a, its)
  PROVE  /\ b \in Search
         /\ b.found => /\ b.mine # its /\ its \in b.tei_min..b.tei_max
                       /\ \A x \in a.tei_min..a.tei_max : x # a.mine => x # b.mine /\ x \in b.tei_min..b.tei_max
<1> DEFINE lo == IF a.tei_min < its THEN a.tei_min ELSE its
           hi == IF a.tei_max > its THEN a.tei_max ELSE its
           Use(tei, min, max) == [mine |-> tei, tei_min |-> min, tei_max |-> max, found |-> TRUE]
<1>0. TeiMax \in Nat \ {0} /\ a.mine \in 1..TeiMax /\ a.tei_min \in 1..TeiMax /\ a.tei_max \in 0..TeiMax
  BY HubAssumption DEF Search
<1>1. /\ lo \in 1..TeiMax /\ hi \in 1..TeiMax /\ lo <= its /\ its <= hi
      /\ lo <= a.tei_min /\ a.tei_max <= hi
  BY <1>0
<1> HIDE DEF lo, hi
<1>2. b = CASE a.mine # its   -> Use(a.mine, lo, hi)
            [] a.mine = its /\ hi < TeiMax -> Use(hi + 1, lo, hi + 1)
            [] a.mine = its /\ hi >= TeiMax /\ lo > 1 -> Use(lo - 1, lo - 1, hi)
            [] OTHER -> [a EXCEPT !.found = FALSE]
  BY DEF check_mapped_tei, lo, hi
<1>3. CASE a.mine # its
  <2>1. b = Use(a.mine, lo, hi)
    BY <1>2, <1>3
  <2> QED
    BY <1>0, <1>1, <1>3, <2>1 DEF Search
<1>4. CASE a.mine = its /\ hi < TeiMax
  <2>1. b = Use(hi + 1, lo, hi + 1)
    BY <1>0, <1>1, <1>2, <1>4
  <2> QED
    BY <1>0, <1>1, <1>4, <2>1 DEF Search
<1>5. CASE a.mine = its /\ ~(hi < TeiMax) /\ lo > 1
  <2>1. b = Use(lo - 1, lo - 1, hi)
    BY <1>0, <1>1, <1>2, <1>5
  <2> QED
    BY <1>0, <1>1, <1>5, <2>1 DEF Search
<1>6. CASE a.mine = its /\ ~(hi < TeiMax) /\ ~(lo > 1)
  <2>1. b = [a EXCEPT !.found = FALSE]
    BY <1>0, <1>1, <1>2, <1>6
  <2>2. b \in Search /\ ~b.found
    BY <2>1 DEF Search
  <2> QED
    BY <2>2
<1> QED
  BY <1>3, <1>4, <1>5, <1>6

\* The TEI found is that of no tunnel on the list.
LEMMA MappedTei ==
  ASSUME NEW h, Good(h), NEW new \in DOMAIN h.tun, NEW list \in Seq(DOMAIN h.tun)
  PROVE  /\ mapped_tei(h, new, list) \in Search
         /\ mapped_tei(h, new, list).found
              => \A i \in DOMAIN list : h.tun[list[i]].tei_repl # mapped_tei(h, new, list).mine
<1> DEFINE a == CHOOSE g : g = [n \in 0..Len(list) |-> TeiStep(g, h, new, list, n)]
<1>1. a = [n \in 0..Len(list) |-> TeiStep(a, h, new, list, n)]
  BY TeiStepsExist, SMTT(30)
<1>2. mapped_tei(h, new, list) = a[Len(list)]
  BY DEF mapped_tei, TeiStep
<1> HIDE DEF a
<1>3. \A n \in 0..Len(list) : a[n] = TeiStep(a, h, new, list, n)
  <2> DEFINE b == [n \in 0..Len(list) |-> TeiStep(a, h, new, list, n)]
  <2>1. \A n \in 0..Len(list) : b[n] = TeiStep(a, h, new, list, n)
    OBVIOUS
  <2>2. a = b
    BY <1>1
  <2> HIDE DEF b
  <2> QED
    BY <2>1, <2>2
<1>4. TeiMax \in Nat \ {0} /\ \A t \in DOMAIN h.tun : h.tun[t].tei_repl \in 1..TeiMax
  <2>1. \A t \in DOMAIN h.tun : h.tun[t] \in TunnelType
    BY GoodFacts
  <2> QED
    BY <2>1, HubAssumption DEF TunnelType
<1> DEFINE Its(i) == h.tun[list[i]].tei_repl
           Fresh(n) == /\ a[n] \in Search
                       /\ a[n].found => \A i \in 1..n : Its(i) # a[n].mine /\ Its(i) \in a[n].tei_min..a[n].tei_max
           I == {n \in Nat : n <= Len(list) => Fresh(n)}
<1>5. 0 \in I
  <2>1. a[0] = [mine |-> h.tun[new].tei_repl, tei_min |-> TeiMax, tei_max |-> 0, found |-> TRUE]
    <3>1. 0 \in 0..Len(list)
      OBVIOUS
    <3>2. a[0] = TeiStep(a, h, new, list, 0)
      BY <1>3, <3>1
    <3> QED
      BY <3>2 DEF TeiStep
  <2>2. a[0] \in Search
    BY <1>4, <2>1 DEF Search
  <2> QED
    BY <2>2
<1>6. ASSUME NEW n \in Nat, n \in I PROVE n + 1 \in I
  <2>0. SUFFICES ASSUME n + 1 <= Len(list) PROVE Fresh(n + 1)
    OBVIOUS
  <2>1. Fresh(n) /\ n + 1 \in 0..Len(list) /\ n + 1 # 0 /\ Its(n + 1) \in 1..TeiMax
    BY <1>4, <1>6, <2>0
  <2>2. a[n + 1] = IF a[n].found THEN check_mapped_tei(a[n], Its(n + 1)) ELSE a[n]
    BY <1>3, <2>1 DEF TeiStep
  <2> HIDE DEF Its
  <2>3. CASE ~a[n].found
    BY <2>1, <2>2, <2>3
  <2>4. CASE a[n].found
    <3>1. a[n] \in Search /\ a[n + 1] = check_mapped_tei(a[n], Its(n + 1))
      BY <2>1, <2>2, <2>4
    <3>2. /\ a[n + 1] \in Search
          /\ a[n + 1].found =>
               /\ a[n + 1].mine # Its(n + 1) /\ Its(n + 1) \in a[n + 1].tei_min..a[n + 1].tei_max
               /\ \A x \in a[n].tei_min..a[n].tei_max :
                    x # a[n].mine => x # a[n + 1].mine /\ x \in a[n + 1].tei_min..a[n + 1].tei_max
      BY <2>1, <2>4, <3>1, CheckMappedTei
    <3>3. SUFFICES ASSUME a[n + 1].found, NEW i \in 1..(n + 1)
                   PROVE Its(i) # a[n + 1].mine /\ Its(i) \in a[n + 1].tei_min..a[n + 1].tei_max
      BY <3>2
    <3>4. CASE i = n + 1
      BY <3>2, <3>3, <3>4
    <3>5. CASE i # n + 1
      <4>1. i \in 1..n
        BY <3>5
      <4>2. Its(i) # a[n].mine /\ Its(i) \in a[n].tei_min..a[n].tei_max
        BY <2>1, <2>4, <4>1
      <4> QED
        BY <3>2, <3>3, <4>2
    <3> QED
      BY <3>4, <3>5
  <2> QED
    BY <2>3, <2>4
<1> HIDE DEF I
<1>7. Len(list) \in I
  BY <1>5, <1>6, SetInduction
<1>8. Fresh(Len(list))
  BY <1>7 DEF I
<1> QED
  BY <1>2, <1>8
-----------------------------------------------------------------------------
(* Create messages.                                                        *)

\* The tunnels have different mapped TEIs, and no TEI of a GSN twice; "But": leaving
\* out tunnel n.
Announced(tun, t) == \E s \in Sides, pl \in Planes : tun[t].endpoint[s][pl].tei # 0
ReplUnique(tun) ==
  \A t, u \in DOMAIN tun : t # u /\ Announced(tun, t) /\ Announced(tun, u) => tun[t].tei_repl # tun[u].tei_repl
ReplUniqueBut(tun, n) ==
  \A t, u \in DOMAIN tun \ {n} : t # u /\ Announced(tun, t) /\ Announced(tun, u) => tun[t].tei_repl # tun[u].tei_repl
Reused(tun, t, u) ==
  \E s \in Sides, pl \in Planes :
    /\ tun[u].endpoint[s][pl].tei # 0 /\ tun[u].endpoint[s][pl].tei = tun[t].endpoint[s][pl].tei
    /\ tun[u].endpoint[s][pl].peer # NoPort /\ tun[t].endpoint[s][pl].peer # NoPort
    /\ tun[u].endpoint[s][pl].peer.addr = tun[t].endpoint[s][pl].peer.addr
PeersUnique(tun) == \A t, u \in DOMAIN tun : t # u => ~Reused(tun, t, u)
PeersUniqueBut(tun, n) == \A t, u \in DOMAIN tun \ {n} : t # u => ~Reused(tun, t, u)

\* The definition in the model.
LEMMA ReusedDef == ASSUME NEW h, NEW t, NEW u PROVE reused_tei(h, t, u) <=> Reused(h.tun, t, u)
  BY DEF reused_tei, Reused

\* It is symmetric.
LEMMA ReusedSymmetric == ASSUME NEW tun, NEW t, NEW u PROVE Reused(tun, t, u) <=> Reused(tun, u, t)
  BY DEF Reused

\* It depends on the endpoints of the two tunnels only.
LEMMA ReusedSame ==
  ASSUME NEW f, NEW g, NEW t, NEW u, f[t].endpoint = g[t].endpoint, f[u].endpoint = g[u].endpoint
  PROVE  Reused(f, t, u) <=> Reused(g, t, u)
  BY DEF Reused

\* What setting the peer or the TEI of endpoint [s][pl] of tunnel t leaves alone.
IsPeerSet(new, tun, t, s, pl, pp) ==
  /\ DOMAIN new = DOMAIN tun
  /\ \A u \in DOMAIN tun : u # t => new[u] = tun[u]
  /\ new[t].tei_repl = tun[t].tei_repl
  /\ \A r \in Sides, pn \in Planes :
       /\ new[t].endpoint[r][pn].tei = tun[t].endpoint[r][pn].tei
       /\ new[t].endpoint[r][pn].peer = IF <<r, pn>> = <<s, pl>> THEN pp ELSE tun[t].endpoint[r][pn].peer
  /\ \A r \in Sides : r # s => new[t].endpoint[r] = tun[t].endpoint[r]
IsTeiSet(new, tun, t, s, pl, tei) ==
  /\ DOMAIN new = DOMAIN tun
  /\ \A u \in DOMAIN tun : u # t => new[u] = tun[u]
  /\ new[t].tei_repl = tun[t].tei_repl
  /\ \A r \in Sides, pn \in Planes :
       /\ new[t].endpoint[r][pn].tei = IF <<r, pn>> = <<s, pl>> THEN tei ELSE tun[t].endpoint[r][pn].tei
       /\ new[t].endpoint[r][pn].peer = tun[t].endpoint[r][pn].peer
  /\ \A r \in Sides : r # s => new[t].endpoint[r] = tun[t].endpoint[r]

\* endpoint_set_peer does the first.
LEMMA SetPeerTun ==
  ASSUME NEW h, Good(h), NEW t \in DOMAIN h.tun, NEW s \in Sides, NEW pl \in Planes,
         NEW pp \in DOMAIN h.ports \cup {NoPort}
  PROVE  IsPeerSet(endpoint_set_peer(h, t, s, pl, pp).tun, h.tun, t, s, pl, pp)
<1> DEFINE new == endpoint_set_peer(h, t, s, pl, pp).tun
           old == h.tun[t].endpoint
           ep == [old EXCEPT ![s][pl].peer = pp]
<1>1. h.tun \in [DOMAIN h.tun -> TunnelType] /\ h.tun[t] \in TunnelType
  BY GoodFacts
<1>2. old \in [Sides -> [Planes -> EndpointType]]
  BY <1>1 DEF TunnelType
<1>3. new = PeerSet(h.tun, t, s, pl, pp)
  BY SetPeer
<1>4. PeerSet(h.tun, t, s, pl, pp) = [h.tun EXCEPT ![t].endpoint = ep]
  BY DEF PeerSet
<1>5. /\ \A r \in Sides, pn \in Planes :
           /\ ep[r][pn].tei = old[r][pn].tei
           /\ ep[r][pn].peer = IF <<r, pn>> = <<s, pl>> THEN pp ELSE old[r][pn].peer
      /\ \A r \in Sides : r # s => ep[r] = old[r]
  BY <1>2 DEF EndpointType
<1> HIDE DEF ep, new
<1>6. /\ DOMAIN new = DOMAIN h.tun
      /\ \A u \in DOMAIN h.tun : u # t => new[u] = h.tun[u]
      /\ new[t].tei_repl = h.tun[t].tei_repl
      /\ new[t].endpoint = ep
  <2> DEFINE x == [h.tun[t] EXCEPT !.endpoint = ep]
  <2>1. x.tei_repl = h.tun[t].tei_repl /\ x.endpoint = ep
    BY <1>1 DEF TunnelType
  <2>2. new = [h.tun EXCEPT ![t] = x]
    BY <1>3, <1>4
  <2> HIDE DEF x
  <2> QED
    BY <1>1, <2>1, <2>2
<1> QED
  BY <1>5, <1>6 DEF IsPeerSet, new

\* Announcing a TEI does the second; the hub stays in order.
SetTei(h, t, s, pl, tei) == [h EXCEPT !.tun[t].endpoint[s][pl].tei = tei]
LEMMA SetTeiGood ==
  ASSUME NEW h, Good(h), NEW t \in DOMAIN h.tun, NEW s \in Sides, NEW pl \in Planes, NEW tei \in Nat
  PROVE  /\ Good(SetTei(h, t, s, pl, tei))
         /\ IsTeiSet(SetTei(h, t, s, pl, tei).tun, h.tun, t, s, pl, tei)
         /\ SetTei(h, t, s, pl, tei).ports = h.ports
         /\ Calm(SetTei(h, t, s, pl, tei), h)
<1> DEFINE g == SetTei(h, t, s, pl, tei)
           old == h.tun[t].endpoint
           ep == [old EXCEPT ![s][pl].tei = tei]
           x == [h.tun[t] EXCEPT !.endpoint = ep]
           new == [h.tun EXCEPT ![t] = x]
<1>1. /\ h \in HubType /\ h.tun \in [DOMAIN h.tun -> TunnelType] /\ h.tun[t] \in TunnelType
      /\ DOMAIN h.tun \subseteq TunIds /\ Range(h.tunnels) = DOMAIN h.tun
  BY GoodFacts
<1>2. old \in [Sides -> [Planes -> EndpointType]]
  BY <1>1 DEF TunnelType
<1>3. g = [h EXCEPT !.tun = new]
  BY DEF SetTei
<1>4. /\ ep \in [Sides -> [Planes -> EndpointType]]
      /\ \A r \in Sides, pn \in Planes :
           /\ ep[r][pn].tei = IF <<r, pn>> = <<s, pl>> THEN tei ELSE old[r][pn].tei
           /\ ep[r][pn].peer = old[r][pn].peer
      /\ \A r \in Sides : r # s => ep[r] = old[r]
  <2>1. ep \in [Sides -> [Planes -> EndpointType]]
    <3> DEFINE e == [old[s][pl] EXCEPT !.tei = tei]
               f == [old[s] EXCEPT ![pl] = e]
    <3>1. ep = [old EXCEPT ![s] = f]
      OBVIOUS
    <3>2. e \in EndpointType
      BY <1>2 DEF EndpointType
    <3> HIDE DEF e
    <3>3. f \in [Planes -> EndpointType]
      BY <1>2, <3>2
    <3> HIDE DEF f
    <3> QED
      BY <1>2, <3>1, <3>3
  <2>2. \A r \in Sides, pn \in Planes :
          /\ ep[r][pn].tei = IF <<r, pn>> = <<s, pl>> THEN tei ELSE old[r][pn].tei
          /\ ep[r][pn].peer = old[r][pn].peer
    BY <1>2 DEF EndpointType
  <2>3. \A r \in Sides : r # s => ep[r] = old[r]
    BY <1>2
  <2> QED
    BY <2>1, <2>2, <2>3
<1> HIDE DEF ep, g
<1>5. x \in TunnelType /\ x.tei_repl = h.tun[t].tei_repl /\ x.endpoint = ep
  BY <1>1, <1>4 DEF TunnelType
<1> HIDE DEF x
<1>6. /\ new \in [DOMAIN h.tun -> TunnelType] /\ DOMAIN new = DOMAIN h.tun
      /\ \A u \in DOMAIN h.tun : u # t => new[u] = h.tun[u]
      /\ new[t].tei_repl = h.tun[t].tei_repl /\ new[t].endpoint = ep
  BY <1>1, <1>5
<1> HIDE DEF new
<1>7. IsTeiSet(new, h.tun, t, s, pl, tei)
  BY <1>4, <1>6 DEF IsTeiSet
<1>8. new \in TunsType
  BY <1>1, <1>6, TunsDef
<1>9. /\ g \in HubType /\ g.ports = h.ports /\ g.seq_pool = h.seq_pool /\ g.seq_map = h.seq_map
      /\ g.tunnels = h.tunnels /\ g.tun = new /\ Calm(g, h)
  BY <1>1, <1>3, <1>8 DEF HubType, Calm
<1>10. ASSUME NEW y PROVE Sum(g, y) = Sum(h, y)
  <2>1. \A u \in DOMAIN h.tun, r \in Sides, pn \in Planes : new[u].endpoint[r][pn].peer = h.tun[u].endpoint[r][pn].peer
    BY <1>4, <1>6
  <2>2. TunRefs(new, y) = TunRefs(h.tun, y)
    BY <1>6, <2>1, SMTT(30) DEF TunRefs
  <2> QED
    BY <1>9, <2>2 DEF Sum, RT, Calm
<1>11. Good(g)
  BY <1>1, <1>6, <1>9, <1>10 DEF Good, Exact
<1> QED
  BY <1>7, <1>9, <1>11 DEF g
\* Hub g comes from h by changes of side s of tunnel t, of its mapped TEI, and by freeing
\* other tunnels.
Keeps(g, h, t, s) ==
  /\ Good(g)
  /\ t \in DOMAIN g.tun /\ DOMAIN g.tun \subseteq DOMAIN h.tun
  /\ DOMAIN h.ports \subseteq DOMAIN g.ports
  /\ \A u \in DOMAIN g.tun \ {t} : g.tun[u] = h.tun[u]
  /\ \A r \in Sides : r # s => g.tun[t].endpoint[r] = h.tun[t].endpoint[r]
  /\ Calm(g, h)

\* One such change after the other is another.
LEMMA KeepsTransitive ==
  ASSUME NEW f, NEW g, NEW h, NEW t, NEW s, Keeps(f, g, t, s), Keeps(g, h, t, s)
  PROVE  Keeps(f, h, t, s)
  BY DEF Keeps, Calm

\* A change of the mapped TEI.
LEMMA ReplSet ==
  ASSUME NEW h, Good(h), NEW t \in DOMAIN h.tun, NEW tei \in 1..TeiMax, NEW g,
         g = [h EXCEPT !.tun = [h.tun EXCEPT ![t] = [h.tun[t] EXCEPT !.tei_repl = tei]]]
  PROVE  /\ Good(g) /\ g.ports = h.ports /\ g.tunnels = h.tunnels /\ Calm(g, h)
         /\ DOMAIN g.tun = DOMAIN h.tun
         /\ \A u \in DOMAIN h.tun : u # t => g.tun[u] = h.tun[u]
         /\ \A u \in DOMAIN h.tun : g.tun[u].endpoint = h.tun[u].endpoint
         /\ g.tun[t].tei_repl = tei
<1> DEFINE x == [h.tun[t] EXCEPT !.tei_repl = tei]
           new == [h.tun EXCEPT ![t] = x]
<1>1. /\ h \in HubType /\ h.tun \in [DOMAIN h.tun -> TunnelType] /\ h.tun[t] \in TunnelType
      /\ DOMAIN h.tun \subseteq TunIds /\ Range(h.tunnels) = DOMAIN h.tun
  BY GoodFacts
<1>2. g = [h EXCEPT !.tun = new]
  OBVIOUS
<1>3. x \in TunnelType /\ x.tei_repl = tei /\ x.endpoint = h.tun[t].endpoint
  BY <1>1 DEF TunnelType
<1> HIDE DEF x
<1>4. /\ new \in [DOMAIN h.tun -> TunnelType] /\ DOMAIN new = DOMAIN h.tun
      /\ \A u \in DOMAIN h.tun : u # t => new[u] = h.tun[u]
      /\ \A u \in DOMAIN h.tun : new[u].endpoint = h.tun[u].endpoint
      /\ new[t].tei_repl = tei
  BY <1>1, <1>3
<1> HIDE DEF new
<1>5. new \in TunsType
  BY <1>1, <1>4, TunsDef
<1>6. /\ g \in HubType /\ g.ports = h.ports /\ g.seq_pool = h.seq_pool /\ g.seq_map = h.seq_map
      /\ g.tunnels = h.tunnels /\ g.tun = new /\ Calm(g, h)
  BY <1>1, <1>2, <1>5 DEF HubType, Calm
<1>7. ASSUME NEW y PROVE Sum(g, y) = Sum(h, y)
  <2>1. TunRefs(new, y) = TunRefs(h.tun, y)
    BY <1>4 DEF TunRefs
  <2> QED
    BY <1>6, <2>1 DEF Sum, RT, Calm
<1>8. Good(g)
  BY <1>1, <1>4, <1>6, <1>7 DEF Good, Exact
<1> QED
  BY <1>4, <1>6, <1>8

\* The announced TEI is nobody else's afterwards, and the mapped TEI neither if one is found.
LEMMA CheckReusedTeis ==
  ASSUME NEW h, Good(h), NEW new \in DOMAIN h.tun, NEW s \in Sides, NEW c, c = check_reused_teis(h, new)
  PROVE  /\ Keeps(c.h, h, new, s)
         /\ c.found /\ ReplUniqueBut(h.tun, new) => ReplUnique(c.h.tun)
         /\ PeersUniqueBut(h.tun, new) => PeersUnique(c.h.tun)
<1> DEFINE stale == {t \in Range(h.tunnels) \ {new} : reused_tei(h, new, t)}
           rest == Range(h.tunnels) \ (stale \cup {new})
           list == Kept(h.tunnels, rest)
           a == mapped_tei(h, new, list)
           h1 == [h EXCEPT !.tun = [h.tun EXCEPT ![new] = [h.tun[new] EXCEPT !.tei_repl = a.mine]]]
           g == tunnels_del(h1, stale)
<1>1. h.tunnels \in Seq(TunIds) /\ Range(h.tunnels) = DOMAIN h.tun
  BY GoodFacts
<1>2. c = [found |-> a.found, h |-> g]
  BY DEF check_reused_teis, free_stale
<1>3. stale \in SUBSET DOMAIN h.tun /\ new \notin stale
  BY <1>1
<1>4. \A t \in DOMAIN h.tun : t \notin stale /\ t # new => ~Reused(h.tun, new, t)
  BY <1>1, ReusedDef
<1> HIDE DEF stale
<1>5. list \in Seq(DOMAIN h.tun) /\ \A x : x \in Range(list) <=> x \in DOMAIN h.tun /\ x \notin stale /\ x # new
  <2> HIDE DEF rest
  <2>1. h.tunnels \in Seq(DOMAIN h.tun)
    <3>1. h.tunnels \in [1..Len(h.tunnels) -> DOMAIN h.tun] /\ Len(h.tunnels) \in Nat
      BY <1>1 DEF Range
    <3> QED
      BY <3>1
  <2>2. list \in Seq(DOMAIN h.tun) /\ \A x : x \in Range(list) <=> x \in Range(h.tunnels) /\ x \in rest
    BY <2>1, KeptProperties
  <2> QED
    BY <1>1, <2>2 DEF rest
<1> HIDE DEF list
<1>6. a \in Search /\ (a.found => \A i \in DOMAIN list : h.tun[list[i]].tei_repl # a.mine)
  BY <1>5, MappedTei
<1>7. a.found => \A t \in DOMAIN h.tun : t \notin stale /\ t # new => h.tun[t].tei_repl # a.mine
  BY <1>5, <1>6 DEF Range
<1> HIDE DEF a
<1>8. a.mine \in 1..TeiMax
  BY <1>6 DEF Search
<1>9. /\ Good(h1) /\ h1.ports = h.ports /\ Calm(h1, h)
      /\ DOMAIN h1.tun = DOMAIN h.tun
      /\ \A u \in DOMAIN h.tun : u # new => h1.tun[u] = h.tun[u]
      /\ \A u \in DOMAIN h.tun : h1.tun[u].endpoint = h.tun[u].endpoint
      /\ h1.tun[new].tei_repl = a.mine
  BY <1>8, ReplSet
<1> HIDE DEF h1
<1>10. /\ Good(g) /\ DOMAIN g.ports = DOMAIN h.ports /\ Calm(g, h1)
       /\ DOMAIN g.tun = DOMAIN h.tun \ stale
       /\ \A u \in DOMAIN h.tun \ stale : g.tun[u] = h1.tun[u]
  BY <1>3, <1>9, TunnelsDel
<1> HIDE DEF g
<1>11. \A u \in DOMAIN g.tun : g.tun[u].endpoint = h.tun[u].endpoint /\ (u # new => g.tun[u] = h.tun[u])
  BY <1>9, <1>10
<1>12. Keeps(g, h, new, s)
  BY <1>3, <1>9, <1>10, <1>11 DEF Keeps, Calm
<1>13. ASSUME a.found, ReplUniqueBut(h.tun, new) PROVE ReplUnique(g.tun)
  <2>1. \A t \in DOMAIN g.tun : Announced(g.tun, t) <=> Announced(h.tun, t)
    BY <1>11 DEF Announced
  <2>2. g.tun[new].tei_repl = a.mine
    BY <1>3, <1>9, <1>10
  <2> QED
    BY <1>7, <1>10, <1>11, <1>13, <2>1, <2>2 DEF ReplUnique, ReplUniqueBut
<1>14. ASSUME PeersUniqueBut(h.tun, new) PROVE PeersUnique(g.tun)
  <2>1. \A t, u \in DOMAIN g.tun : Reused(g.tun, t, u) <=> Reused(h.tun, t, u)
    BY <1>11, ReusedSame
  <2> QED
    BY <1>4, <1>10, <1>14, <2>1, ReusedSymmetric DEF PeersUnique, PeersUniqueBut
<1> QED
  BY <1>2, <1>12, <1>13, <1>14
\* Create messages of packet p give a TEI with every address.
Teis(p) == \A pl \in Planes : p.type = "create_rsp" /\ p.ie[pl].addr # NoAddr => p.ie[pl].tei # 0

\* The IEs of one plane.
LEMMA CreatePlane ==
  ASSUME NEW h, Good(h), NEW t \in DOMAIN h.tun, NEW p \in PacketType, NEW pl \in Planes,
         p.type \in {"create_req", "create_rsp"}, NEW d, d.from \in PortIds,
         NEW r, r.rc = 0, r.h = h, NEW q, q = create_plane(r, d, p, t, pl), ReplUnique(h.tun)
  PROVE  /\ Keeps(q.h, h, t, p.side)
         /\ q.rc # 1 => ReplUnique(q.h.tun)
         /\ Teis(p) /\ PeersUnique(h.tun) => PeersUnique(q.h.tun)
<1> DEFINE ie == p.ie[pl]
           s == p.side
           pp == IF UseSender /\ p.side = "sgsn"
                 THEN PortOf(p.side, pl, d.from.addr, d.from.port)
                 ELSE PortOf(p.side, pl, ie.addr, DefaultPort(pl))
           h1 == port_have(h, pp)
           h2 == endpoint_set_peer(h1, t, s, pl, pp)
           h3 == SetTei(h2, t, s, pl, ie.tei)
           c == check_reused_teis(h3, t)
<1>1. s \in Sides /\ ie \in IeType
  BY DEF PacketType
<1>2. ie.addr \in Addrs \cup {NoAddr} /\ ie.tei \in Nat
  BY <1>1 DEF IeType
<1>3. CASE ie.addr = NoAddr \/ (ie.tei = 0 /\ p.type = "create_req")
  <2>1. q = Return(-1, h)
    BY <1>3 DEF create_plane
  <2>2. q.h = h
    BY <2>1 DEF Return
  <2> QED
    BY <2>2 DEF Keeps, Calm
<1>4. CASE ~(ie.addr = NoAddr \/ (ie.tei = 0 /\ p.type = "create_req"))
  <2>1. pp \in PortIds
    <3>1. ie.addr \in Addrs /\ DefaultPort(pl) \in PortNrs
      BY <1>2, <1>4, HubAssumption DEF DefaultPort
    <3>2. d.from.addr \in Addrs /\ d.from.port \in PortNrs
      BY DEF PortIds
    <3> QED
      BY <1>1, <3>1, <3>2 DEF PortOf, PortIds
  <2>2. q = create_tei(h2, ie, p, t, pl)
    BY <1>4 DEF create_plane
  <2> HIDE DEF pp
  <2>3. Good(h1) /\ DOMAIN h1.ports = DOMAIN h.ports \cup {pp} /\ h1.tun = h.tun /\ Calm(h1, h)
    BY <2>1, PortHave
  <2> HIDE DEF h1
  <2>4. pp \in DOMAIN h1.ports \cup {NoPort} /\ t \in DOMAIN h1.tun
    BY <2>3
  <2>5. Good(h2) /\ DOMAIN h2.ports = DOMAIN h1.ports /\ Calm(h2, h1)
    BY <1>1, <2>3, <2>4, SetPeer
  <2>6. IsPeerSet(h2.tun, h.tun, t, s, pl, pp)
    <3>1. IsPeerSet(h2.tun, h1.tun, t, s, pl, pp)
      BY <1>1, <2>3, <2>4, SetPeerTun
    <3> QED
      BY <2>3, <3>1
  <2> HIDE DEF h2
  <2>7. Keeps(h2, h, t, s)
    BY <2>3, <2>5, <2>6 DEF Keeps, IsPeerSet, Calm
  <2>8. ReplUnique(h2.tun)
    <3>1. \A u \in DOMAIN h.tun : (Announced(h2.tun, u) <=> Announced(h.tun, u)) /\ h2.tun[u].tei_repl = h.tun[u].tei_repl
      BY <2>6, SMTT(30) DEF IsPeerSet, Announced
    <3>2. DOMAIN h2.tun = DOMAIN h.tun
      BY <2>6 DEF IsPeerSet
    <3> QED
      BY <3>1, <3>2 DEF ReplUnique
  <2>9. CASE ie.tei # 0
    <3>1. q = put_addr(c, ie)
      BY <2>2, <2>9 DEF create_tei, SetTei
    <3>2. t \in DOMAIN h2.tun
      BY <2>7 DEF Keeps
    <3>3. Good(h3) /\ IsTeiSet(h3.tun, h2.tun, t, s, pl, ie.tei) /\ h3.ports = h2.ports /\ Calm(h3, h2)
      BY <1>1, <1>2, <2>5, <3>2, SetTeiGood
    <3> HIDE DEF h3
    <3>4. Keeps(h3, h2, t, s) /\ t \in DOMAIN h3.tun
      BY <3>2, <3>3 DEF Keeps, IsTeiSet, Calm
    <3>5. DOMAIN h3.tun = DOMAIN h2.tun /\ \A u \in DOMAIN h3.tun : u # t => h3.tun[u] = h2.tun[u]
      BY <3>3 DEF IsTeiSet
    <3>6. ReplUniqueBut(h3.tun, t)
      <4>1. \A u \in DOMAIN h3.tun : u # t => (Announced(h3.tun, u) <=> Announced(h2.tun, u))
        BY <3>5 DEF Announced
      <4> QED
        BY <2>8, <3>5, <4>1 DEF ReplUnique, ReplUniqueBut
    <3>7. PeersUnique(h.tun) => PeersUniqueBut(h3.tun, t)
      <4>1. DOMAIN h3.tun = DOMAIN h.tun /\ \A u \in DOMAIN h3.tun : u # t => h3.tun[u] = h.tun[u]
        BY <2>6, <3>5 DEF IsPeerSet
      <4> QED
        BY <4>1, ReusedSame DEF PeersUnique, PeersUniqueBut
    <3>8. /\ Keeps(c.h, h3, t, s)
          /\ c.found /\ ReplUniqueBut(h3.tun, t) => ReplUnique(c.h.tun)
          /\ PeersUniqueBut(h3.tun, t) => PeersUnique(c.h.tun)
      BY <1>1, <3>3, <3>4, CheckReusedTeis
    <3> HIDE DEF c
    <3>9. q.h = c.h /\ (q.rc # 1 => c.found)
      BY <3>1 DEF put_addr, Return
    <3>10. Keeps(c.h, h, t, s)
      BY <2>7, <3>4, <3>8, KeepsTransitive
    <3> QED
      BY <3>6, <3>7, <3>8, <3>9, <3>10
  <2>10. CASE ie.tei = 0
    <3>1. q.h = h2
      BY <2>2, <2>10 DEF create_tei, put_addr, Return
    <3>2. ~Teis(p)
      BY <1>4, <2>10 DEF Teis
    <3> QED
      BY <2>7, <2>8, <3>1, <3>2
  <2> QED
    BY <2>9, <2>10
<1> QED
  BY <1>3, <1>4

\* Both planes.
LEMMA CreatePlanes ==
  ASSUME NEW h, Good(h), NEW t \in DOMAIN h.tun, NEW p \in PacketType,
         p.type \in {"create_req", "create_rsp"}, NEW d, d.from \in PortIds,
         NEW q, q = create_planes(h, d, p, t), ReplUnique(h.tun)
  PROVE  q.rc # 1 =>
         /\ Keeps(q.h, h, t, p.side)
         /\ ReplUnique(q.h.tun)
         /\ Teis(p) /\ PeersUnique(h.tun) => PeersUnique(q.h.tun)
<1> DEFINE r0 == [rc |-> 0, h |-> h]
           r1 == create_plane(r0, d, p, t, "ctrl")
<1>1. q = create_plane(r1, d, p, t, "user")
  BY DEF create_planes
<1>2. r0.rc = 0 /\ r0.h = h /\ "ctrl" \in Planes /\ "user" \in Planes
  BY DEF Planes
<1> HIDE DEF r0
<1>3. /\ Keeps(r1.h, h, t, p.side)
      /\ r1.rc # 1 => ReplUnique(r1.h.tun)
      /\ Teis(p) /\ PeersUnique(h.tun) => PeersUnique(r1.h.tun)
  BY <1>2, CreatePlane
<1> HIDE DEF r1
<1>4. CASE r1.rc # 0
  <2>1. q = r1
    BY <1>1, <1>4 DEF create_plane
  <2> QED
    BY <1>3, <2>1
<1>5. CASE r1.rc = 0
  <2>1. Good(r1.h) /\ t \in DOMAIN r1.h.tun /\ ReplUnique(r1.h.tun)
    BY <1>3, <1>5 DEF Keeps
  <2>2. /\ Keeps(q.h, r1.h, t, p.side)
        /\ q.rc # 1 => ReplUnique(q.h.tun)
        /\ Teis(p) /\ PeersUnique(r1.h.tun) => PeersUnique(q.h.tun)
    BY <1>1, <1>2, <1>5, <2>1, CreatePlane
  <2> QED
    BY <1>3, <2>2, KeepsTransitive
<1> QED
  BY <1>4, <1>5
\* A new tunnel: it has a GGSN, and no announced TEI yet.
LEMMA NewTunnel ==
  ASSUME NEW h, Good(h), NEW t \in TunIds, t \notin DOMAIN h.tun, NEW to \in DOMAIN h.ports,
         NEW g, g = new_tunnel(h, t, to)
  PROVE  /\ Good(g) /\ DOMAIN g.ports = DOMAIN h.ports /\ Calm(g, h)
         /\ DOMAIN g.tun = DOMAIN h.tun \cup {t}
         /\ \A u \in DOMAIN h.tun : g.tun[u] = h.tun[u]
         /\ ~Announced(g.tun, t)
<1> DEFINE tei == nr_pool_next(h.tei_pool, 1, TeiMax)
           x == [tei_repl |-> tei, ttl |-> Slow, endpoint |-> NewEndpoints]
           tunnels == <<t>> \o h.tunnels
           tun == Put(h.tun, t, x)
           h1 == [h EXCEPT !.tei_pool = tei, !.tunnels = tunnels, !.tun = tun]
<1>1. /\ h \in HubType /\ h.tun \in [DOMAIN h.tun -> TunnelType] /\ DOMAIN h.tun \subseteq TunIds
      /\ h.tunnels \in Seq(TunIds) /\ Range(h.tunnels) = DOMAIN h.tun /\ h.tei_pool \in 1..TeiMax
  BY GoodFacts
<1>2. TeiMax \in Nat \ {0} /\ Slow \in Nat /\ NoPort \notin PortIds
  BY HubAssumption
<1>3. tei \in 1..TeiMax
  BY <1>1, <1>2 DEF nr_pool_next
<1>4. g = endpoint_set_peer(h1, t, "ggsn", "ctrl", to)
  BY DEF new_tunnel
<1>5. /\ NewEndpoints \in [Sides -> [Planes -> EndpointType]]
      /\ \A s \in Sides, pl \in Planes : NewEndpoints[s][pl].peer = NoPort /\ NewEndpoints[s][pl].tei = 0
  BY DEF NewEndpoints, EndpointType
<1> HIDE DEF tei
<1>6. x \in TunnelType /\ x.endpoint = NewEndpoints
  <2>1. Slow \in 0..Slow
    BY <1>2
  <2> QED
    BY <1>3, <1>5, <2>1 DEF TunnelType
<1> HIDE DEF x
<1>7. /\ tun \in [DOMAIN h.tun \cup {t} -> TunnelType] /\ DOMAIN tun = DOMAIN h.tun \cup {t}
      /\ \A u \in DOMAIN h.tun : tun[u] = h.tun[u]
      /\ tun[t].endpoint = NewEndpoints
  BY <1>1, <1>6 DEF Put
<1> HIDE DEF tun
<1>8. tun \in TunsType
  BY <1>1, <1>7, TunsDef
<1>9. tunnels \in Seq(TunIds) /\ Range(tunnels) = DOMAIN tun
  <2>1. tunnels \in Seq(TunIds) /\ \A y : y \in Range(tunnels) <=> y = t \/ y \in Range(h.tunnels)
    BY <1>1, ConsProperties
  <2> HIDE DEF tunnels
  <2> QED
    BY <1>1, <1>7, <2>1
<1> HIDE DEF tunnels
<1>10. /\ h1 \in HubType /\ h1.ports = h.ports /\ h1.seq_pool = h.seq_pool /\ h1.seq_map = h.seq_map
       /\ h1.tunnels = tunnels /\ h1.tun = tun /\ Calm(h1, h)
  BY <1>1, <1>3, <1>8, <1>9 DEF HubType, Calm
<1> HIDE DEF h1
<1>11. ASSUME NEW y \in PortIds PROVE Sum(h1, y) = Sum(h, y)
  <2>1. y # NoPort
    BY <1>2
  <2>2. TunRefs(tun, y) = TunRefs(h.tun, y)
    BY <1>5, <1>7, <2>1 DEF TunRefs
  <2> QED
    BY <1>10, <2>2 DEF Sum, RT, Calm
<1>12. Good(h1)
  BY <1>7, <1>9, <1>10, <1>11 DEF Good, Exact
<1>13. /\ to \in DOMAIN h1.ports \cup {NoPort} /\ t \in DOMAIN h1.tun /\ "ggsn" \in Sides /\ "ctrl" \in Planes
  BY <1>7, <1>10 DEF Sides, Planes
<1>14. Good(g) /\ DOMAIN g.ports = DOMAIN h1.ports /\ Calm(g, h1)
  BY <1>4, <1>12, <1>13, SetPeer
<1>15. IsPeerSet(g.tun, h1.tun, t, "ggsn", "ctrl", to)
  BY <1>4, <1>12, <1>13, SetPeerTun
<1>16. DOMAIN g.tun = DOMAIN h.tun \cup {t} /\ \A u \in DOMAIN h.tun : g.tun[u] = h.tun[u]
  BY <1>7, <1>10, <1>15 DEF IsPeerSet
<1>17. ~Announced(g.tun, t)
  BY <1>5, <1>7, <1>10, <1>15 DEF IsPeerSet, Announced
<1> QED
  BY <1>10, <1>14, <1>16, <1>17 DEF Calm

\* It disturbs no uniqueness.
LEMMA NewTunnelUnique ==
  ASSUME NEW f, NEW g, NEW t, DOMAIN g = DOMAIN f \cup {t}, \A u \in DOMAIN f : g[u] = f[u],
         ~Announced(g, t)
  PROVE  /\ ReplUnique(f) => ReplUnique(g)
         /\ PeersUnique(f) => PeersUnique(g)
<1>1. ASSUME NEW u \in DOMAIN f PROVE Announced(g, u) <=> Announced(f, u)
  BY DEF Announced
<1>2. ReplUnique(f) => ReplUnique(g)
  BY <1>1 DEF ReplUnique
<1>3. \A u : ~Reused(g, t, u) /\ ~Reused(g, u, t)
  BY DEF Reused, Announced
<1>4. PeersUnique(f) => PeersUnique(g)
  BY <1>3, ReusedSame DEF PeersUnique
<1> QED
  BY <1>2, <1>4
-----------------------------------------------------------------------------
(* From the datagram to what it is about.                                  *)

\* Tunnels g come from f by taking peers from sides of tunnels that have a Ctrl peer.
Voids(g, f) ==
  /\ DOMAIN g = DOMAIN f
  /\ \A t \in DOMAIN f : g[t].tei_repl = f[t].tei_repl
  /\ \A t \in DOMAIN f, s \in Sides, pl \in Planes :
       /\ g[t].endpoint[s][pl].tei = f[t].endpoint[s][pl].tei
       /\ g[t].endpoint[s][pl].peer # NoPort => g[t].endpoint[s][pl].peer = f[t].endpoint[s][pl].peer
  /\ \A t \in DOMAIN f, s \in Sides :
       f[t].endpoint[s]["ctrl"].peer = NoPort => g[t].endpoint[s] = f[t].endpoint[s]

\* That disturbs no uniqueness.
LEMMA VoidsUnique ==
  ASSUME NEW f, NEW g, Voids(g, f)
  PROVE  /\ ReplUnique(f) => ReplUnique(g)
         /\ PeersUnique(f) => PeersUnique(g)
<1>1. \A t \in DOMAIN f : Announced(g, t) <=> Announced(f, t)
  BY DEF Voids, Announced
<1>2. ReplUnique(f) => ReplUnique(g)
  BY <1>1 DEF ReplUnique, Voids
<1>3. ASSUME NEW t \in DOMAIN f, NEW u \in DOMAIN f, Reused(g, t, u) PROVE Reused(f, t, u)
  <2>1. PICK s \in Sides, pl \in Planes :
          /\ g[u].endpoint[s][pl].tei # 0 /\ g[u].endpoint[s][pl].tei = g[t].endpoint[s][pl].tei
          /\ g[u].endpoint[s][pl].peer # NoPort /\ g[t].endpoint[s][pl].peer # NoPort
          /\ g[u].endpoint[s][pl].peer.addr = g[t].endpoint[s][pl].peer.addr
    BY <1>3 DEF Reused
  <2>2. /\ g[u].endpoint[s][pl].tei = f[u].endpoint[s][pl].tei /\ g[t].endpoint[s][pl].tei = f[t].endpoint[s][pl].tei
        /\ g[u].endpoint[s][pl].peer = f[u].endpoint[s][pl].peer /\ g[t].endpoint[s][pl].peer = f[t].endpoint[s][pl].peer
    BY <2>1 DEF Voids
  <2> QED
    BY <2>1, <2>2 DEF Reused
<1>4. PeersUnique(f) => PeersUnique(g)
  BY <1>3 DEF PeersUnique, Voids
<1> QED
  BY <1>2, <1>4

\* One such step after the other is another.
LEMMA VoidsTransitive ==
  ASSUME NEW f, NEW g, NEW h, Voids(h, g), Voids(g, f) PROVE Voids(h, f)
<1>1. \A t \in DOMAIN f, s \in Sides :
        f[t].endpoint[s]["ctrl"].peer = NoPort => h[t].endpoint[s] = f[t].endpoint[s]
  BY DEF Voids
<1> QED
  BY <1>1 DEF Voids

\* A peer's restart voids its side of its tunnels.
LEMMA Restarted ==
  ASSUME NEW h, Good(h), NEW pp \in DOMAIN h.ports, NEW g, g = restarted(h, pp)
  PROVE  /\ Good(g) /\ DOMAIN g.ports = DOMAIN h.ports /\ Calm(g, h)
         /\ Voids(g.tun, h.tun)
<1> DEFINE s == pp.side
           o == other_side_idx(s)
           hits == {t \in DOMAIN h.tun :
                      /\ h.tun[t].endpoint[s]["ctrl"].peer # NoPort
                      /\ h.tun[t].endpoint[o]["ctrl"].tei # 0
                      /\ PeerOf(h.tun[t].endpoint[s]["ctrl"].peer) = PeerOf(pp)}
           got(peer) == {t \in hits : LET to == h.tun[t].endpoint[o]["ctrl"].peer
                                      IN  to # NoPort /\ PeerOf(to) = peer}
           sent == [peer \in DOMAIN h.seq_pool |-> Cardinality(got(peer))]
           seq_pool == [peer \in DOMAIN h.seq_pool |-> (h.seq_pool[peer] + sent[peer]) % (SeqMax + 1)]
           h1 == clear_sides(h, hits, {s})
<1>1. /\ h \in HubType /\ h.tun \in TunsType /\ DOMAIN h.tun \subseteq TunIds /\ DOMAIN h.ports \subseteq PortIds
      /\ h.seq_pool \in [DOMAIN h.seq_pool -> 0..SeqMax] /\ DOMAIN h.seq_pool \subseteq PeerIds
  BY GoodFacts
<1>2. s \in Sides /\ {s} \in SUBSET Sides
  BY <1>1 DEF PortIds
<1>3. g = [h1 EXCEPT !.seq_pool = seq_pool]
  BY DEF restarted
<1>4. hits \in SUBSET DOMAIN h.tun /\ \A t \in hits : h.tun[t].endpoint[s]["ctrl"].peer # NoPort
  OBVIOUS
<1>5. seq_pool \in PoolType /\ DOMAIN seq_pool = DOMAIN h.seq_pool
  <2> HIDE DEF hits
  <2>1. ASSUME NEW peer \in DOMAIN h.seq_pool PROVE sent[peer] \in Nat
    <3>1. got(peer) \in SUBSET TunIds
      BY <1>1, <1>4
    <3> HIDE DEF got
    <3>2. IsFiniteSet(got(peer))
      BY <3>1, FS_Subset, HubAssumption
    <3> QED
      BY <3>2, FS_CardinalityType
  <2> HIDE DEF sent
  <2>2. SeqMax \in Nat
    BY HubAssumption
  <2>3. ASSUME NEW a \in Nat, NEW b \in Nat PROVE (a + b) % (SeqMax + 1) \in 0..SeqMax
    <3>1. a + b \in Nat /\ SeqMax + 1 \in Nat \ {0}
      BY <2>2
    <3> QED
      BY <2>2, <3>1
  <2>4. ASSUME NEW peer \in DOMAIN h.seq_pool PROVE (h.seq_pool[peer] + sent[peer]) % (SeqMax + 1) \in 0..SeqMax
    <3>1. h.seq_pool[peer] \in Nat
      BY <1>1, <2>2
    <3> QED
      BY <2>1, <2>3, <3>1
  <2>5. seq_pool \in [DOMAIN h.seq_pool -> 0..SeqMax] /\ DOMAIN seq_pool = DOMAIN h.seq_pool
    BY <2>4
  <2> HIDE DEF seq_pool
  <2> QED
    BY <1>1, <2>5, PoolDef
<1> HIDE DEF hits, seq_pool, s
<1>6. /\ Good(h1) /\ DOMAIN h1.ports = DOMAIN h.ports /\ h1.tun = ClearedTun(h.tun, hits, {s})
      /\ h1.seq_pool = h.seq_pool /\ Calm(h1, h)
  BY <1>2, <1>4, ClearSides
<1>7. IsCleared(h1.tun, h.tun, hits, {s})
  BY <1>1, <1>2, <1>4, <1>6, ClearedTuns
<1> HIDE DEF h1
<1>8. h1 \in HubType
  BY <1>6, GoodFacts
<1>9. /\ g \in HubType /\ g.ports = h1.ports /\ g.seq_pool = seq_pool /\ g.seq_map = h1.seq_map
      /\ g.tunnels = h1.tunnels /\ g.tun = h1.tun /\ Calm(g, h1)
  BY <1>3, <1>5, <1>8 DEF HubType, Calm
<1>10. Exact(g)
  BY <1>6, <1>9 DEF Good, Exact, Sum, Calm
<1>11. Good(g)
  BY <1>5, <1>6, <1>9, <1>10 DEF Good
<1>12. Voids(h1.tun, h.tun)
  <2>1. \A t \in DOMAIN h.tun, r \in Sides :
          h.tun[t].endpoint[r]["ctrl"].peer = NoPort => h1.tun[t].endpoint[r] = h.tun[t].endpoint[r]
    BY <1>2, <1>4, <1>7 DEF IsCleared
  <2> QED
    BY <1>7, <2>1 DEF IsCleared, Voids
<1> QED
  BY <1>6, <1>9, <1>11, <1>12 DEF Calm

\* The restart counter is compared, and remembered.
LEMMA CheckRestartCounter ==
  ASSUME NEW h, Good(h), NEW from \in DOMAIN h.ports, NEW p \in PacketType,
         NEW g, g = check_restart_counter(h, p, from)
  PROVE  /\ Good(g) /\ DOMAIN g.ports = DOMAIN h.ports /\ Calm(g, h)
         /\ Voids(g.tun, h.tun)
<1> DEFINE last == h.ports[from].last_restart_count
           h1 == IF last # -1 /\ last # p.recovery THEN restarted(h, from) ELSE h
           x == [h1.ports[from] EXCEPT !.last_restart_count = p.recovery]
           ports == [h1.ports EXCEPT ![from] = x]
<1>1. Voids(h.tun, h.tun) /\ Calm(h, h)
  BY DEF Voids, Calm
<1>2. CASE p.recovery = -1
  BY <1>1, <1>2 DEF check_restart_counter
<1>3. CASE p.recovery # -1
  <2>1. g = [h1 EXCEPT !.ports = ports]
    BY <1>3 DEF check_restart_counter
  <2>2. Good(h1) /\ DOMAIN h1.ports = DOMAIN h.ports /\ Calm(h1, h) /\ Voids(h1.tun, h.tun)
    <3>1. CASE last # -1 /\ last # p.recovery
      BY <3>1, Restarted
    <3>2. CASE ~(last # -1 /\ last # p.recovery)
      BY <1>1, <3>2
    <3> QED
      BY <3>1, <3>2
  <2> HIDE DEF h1
  <2>3. h1 \in HubType /\ h1.ports \in [DOMAIN h1.ports -> PortRec] /\ DOMAIN h1.ports \subseteq PortIds
    BY <2>2, GoodFacts
  <2>4. h1.ports[from] \in PortRec /\ p.recovery \in {-1} \cup 0..255
    BY <2>2, <2>3 DEF PacketType
  <2>5. x \in PortRec /\ x.ref_count = h1.ports[from].ref_count
    BY <2>4 DEF PortRec
  <2> HIDE DEF x
  <2>6. /\ ports \in [DOMAIN h1.ports -> PortRec] /\ DOMAIN ports = DOMAIN h1.ports
        /\ \A y \in DOMAIN h1.ports : ports[y].ref_count = h1.ports[y].ref_count
    BY <2>3, <2>5
  <2> HIDE DEF ports
  <2>7. ports \in PortsType
    BY <2>3, <2>6, PortsDef
  <2>8. /\ g \in HubType /\ g.ports = ports /\ g.seq_pool = h1.seq_pool /\ g.seq_map = h1.seq_map
        /\ g.tunnels = h1.tunnels /\ g.tun = h1.tun /\ Calm(g, h1)
    BY <2>1, <2>3, <2>7 DEF HubType, Calm
  <2>9. Exact(g)
    BY <2>2, <2>6, <2>8 DEF Good, Exact, Sum, Calm
  <2>10. Good(g)
    BY <2>2, <2>6, <2>8, <2>9 DEF Good
  <2> QED
    BY <2>2, <2>6, <2>8, <2>10 DEF Calm
<1> QED
  BY <1>2, <1>3
\* A tunnel's time starts again.
LEMMA TtlSet ==
  ASSUME NEW h, Good(h), NEW t \in DOMAIN h.tun, NEW g, g = [h EXCEPT !.tun[t].ttl = Slow]
  PROVE  /\ Good(g) /\ DOMAIN g.ports = DOMAIN h.ports /\ Calm(g, h)
         /\ Voids(g.tun, h.tun)
         /\ \A u \in DOMAIN h.tun : g.tun[u].endpoint = h.tun[u].endpoint
<1> DEFINE x == [h.tun[t] EXCEPT !.ttl = Slow]
           new == [h.tun EXCEPT ![t] = x]
<1>1. /\ h \in HubType /\ h.tun \in [DOMAIN h.tun -> TunnelType] /\ h.tun[t] \in TunnelType
      /\ DOMAIN h.tun \subseteq TunIds /\ Range(h.tunnels) = DOMAIN h.tun
  BY GoodFacts
<1>2. g = [h EXCEPT !.tun = new]
  OBVIOUS
<1>3. x \in TunnelType /\ x.tei_repl = h.tun[t].tei_repl /\ x.endpoint = h.tun[t].endpoint
  <2>1. Slow \in 0..Slow
    BY HubAssumption
  <2> QED
    BY <1>1, <2>1 DEF TunnelType
<1> HIDE DEF x
<1>4. /\ new \in [DOMAIN h.tun -> TunnelType] /\ DOMAIN new = DOMAIN h.tun
      /\ \A u \in DOMAIN h.tun : new[u].endpoint = h.tun[u].endpoint /\ new[u].tei_repl = h.tun[u].tei_repl
  BY <1>1, <1>3
<1> HIDE DEF new
<1>5. new \in TunsType
  BY <1>1, <1>4, TunsDef
<1>6. /\ g \in HubType /\ g.ports = h.ports /\ g.seq_pool = h.seq_pool /\ g.seq_map = h.seq_map
      /\ g.tunnels = h.tunnels /\ g.tun = new /\ Calm(g, h)
  BY <1>1, <1>2, <1>5 DEF HubType, Calm
<1>7. ASSUME NEW y PROVE Sum(g, y) = Sum(h, y)
  <2>1. TunRefs(new, y) = TunRefs(h.tun, y)
    BY <1>4 DEF TunRefs
  <2> QED
    BY <1>6, <2>1 DEF Sum, RT, Calm
<1>8. Good(g)
  BY <1>1, <1>4, <1>6, <1>7 DEF Good, Exact
<1>9. Voids(new, h.tun)
  BY <1>4 DEF Voids
<1> QED
  BY <1>4, <1>6, <1>8, <1>9

\* A TEI belongs to a tunnel that the sender has an endpoint of.
LEMMA UnmapTei ==
  ASSUME NEW h, Good(h), NEW p, NEW from, NEW t, t = unmap_tei(h, p, from), t # NoTun
  PROVE  t \in DOMAIN h.tun /\ h.tun[t].endpoint[p.side][p.plane].peer # NoPort
<1> DEFINE Match(tun) == /\ tun.tei_repl = p.tei
                         /\ tun.endpoint[p.side][p.plane].peer # NoPort
                         /\ tun.endpoint[p.side][p.plane].peer.addr = from.addr
           I == {j \in DOMAIN h.tunnels : Match(h.tun[h.tunnels[j]])}
<1>1. h.tunnels \in Seq(TunIds) /\ Range(h.tunnels) = DOMAIN h.tun
  BY GoodFacts
<1>2. I \in SUBSET (Nat \ {0})
  <2>1. I \subseteq DOMAIN h.tunnels
    OBVIOUS
  <2> HIDE DEF I
  <2> QED
    BY <1>1, <2>1
<1>3. t = IF First(I) = 0 THEN NoTun ELSE h.tunnels[First(I)]
  BY DEF unmap_tei
<1>4. \A j \in I : j \in DOMAIN h.tunnels /\ h.tun[h.tunnels[j]].endpoint[p.side][p.plane].peer # NoPort
  OBVIOUS
<1> HIDE DEF I
<1>5. First(I) \in I /\ t = h.tunnels[First(I)]
  BY <1>2, <1>3, FirstOf
<1> QED
  BY <1>1, <1>4, <1>5 DEF Range

\* A sequence number answers a port of the hub.
LEMMA UnmapSeq ==
  ASSUME NEW h, Good(h), NEW from, NEW seq
  PROVE  unmap_seq(h, from, seq) \in DOMAIN h.ports \cup {NoPort}
<1> DEFINE I == {j \in DOMAIN h.seq_map : h.seq_map[j].peer = PeerOf(from) /\ h.seq_map[j].repl = seq}
<1>1. h.seq_map \in Seq(MappingType)
  BY GoodFacts
<1>2. I \in SUBSET (Nat \ {0}) /\ I \subseteq DOMAIN h.seq_map
  BY <1>1
<1>3. unmap_seq(h, from, seq) = IF First(I) = 0 THEN NoPort ELSE h.seq_map[First(I)].origin
  BY DEF unmap_seq
<1> HIDE DEF I
<1>4. First(I) # 0 => First(I) \in DOMAIN h.seq_map
  BY <1>2, FirstOf
<1>5. \A i \in DOMAIN h.seq_map : h.seq_map[i].origin \in DOMAIN h.ports
  BY Referenced
<1> QED
  BY <1>3, <1>4, <1>5

\* Description d of packet p was found in hub h.
Described(d, h, p) ==
  /\ Good(d.h) /\ DOMAIN h.ports \subseteq DOMAIN d.h.ports /\ Calm(d.h, h)
  /\ Voids(d.h.tun, h.tun)
  /\ d.from \in DOMAIN d.h.ports
  /\ d.tun \in DOMAIN h.tun \cup {NoTun}
  /\ d.tun # NoTun => h.tun[d.tun].endpoint[p.side][p.plane].peer # NoPort
  /\ d.to \in DOMAIN d.h.ports \cup {NoPort}

\* Who, what and where to.
LEMMA Unmap ==
  ASSUME setup \in DOMAIN Setups, NEW h, Good(h), NEW from \in DOMAIN h.ports, NEW p \in PacketType,
         NEW d, d = unmap(h, p, from)
  PROVE  Described(d, h, p)
<1> DEFINE tun == IF p.tei = 0 THEN NoTun ELSE unmap_tei(h, p, from)
           h1 == IF tun = NoTun THEN h ELSE [h EXCEPT !.tun[tun].ttl = Slow]
           from_seq == unmap_seq(h, from, p.seq)
           o == other_side_idx(p.side)
           from_tei == IF tun = NoTun THEN NoPort ELSE h.tun[tun].endpoint[o][p.plane].peer
           proxy == Setups[setup].proxy[o][p.plane]
           to == IF proxy # NoPort THEN proxy
                 ELSE IF from_seq # NoPort THEN from_seq ELSE from_tei
<1>1. d = [h |-> h1, from |-> from, tun |-> tun, from_seq |-> from_seq, ok |-> p.tei = 0 \/ tun # NoTun, to |-> to]
  BY DEF unmap
<1>2. o \in Sides /\ p.plane \in Planes
  BY DEF PacketType, other_side_idx, Sides
<1>3. tun \in DOMAIN h.tun \cup {NoTun} /\ (tun # NoTun => h.tun[tun].endpoint[p.side][p.plane].peer # NoPort)
  BY UnmapTei
<1> HIDE DEF tun
<1>4. Good(h1) /\ DOMAIN h1.ports = DOMAIN h.ports /\ Calm(h1, h) /\ Voids(h1.tun, h.tun)
  <2>1. CASE tun = NoTun
    BY <2>1 DEF Voids, Calm
  <2>2. CASE tun # NoTun
    BY <1>3, <2>2, TtlSet
  <2> QED
    BY <2>1, <2>2
<1> HIDE DEF h1
<1>5. from_seq \in DOMAIN h.ports \cup {NoPort}
  BY UnmapSeq
<1> HIDE DEF from_seq
<1>6. from_tei \in DOMAIN h.ports \cup {NoPort}
  BY <1>2, <1>3, Referenced
<1> HIDE DEF from_tei
<1>7. proxy \in DOMAIN h.ports \cup {NoPort}
  <2>1. Setups[setup].proxy \in [Sides -> [Planes -> PortIds \cup {NoPort}]]
    BY HubAssumption
  <2>2. proxy \in PortIds \cup {NoPort}
    BY <1>2, <2>1
  <2>3. proxy # NoPort => proxy \in Proxies
    BY <1>2 DEF Proxies
  <2> QED
    BY <2>2, <2>3, Referenced
<1> HIDE DEF proxy, o
<1>8. to \in DOMAIN h.ports \cup {NoPort}
  BY <1>5, <1>6, <1>7
<1> HIDE DEF to
<1>9. d.h = h1 /\ d.from = from /\ d.tun = tun /\ d.to = to
  BY <1>1
<1> QED
  BY <1>3, <1>4, <1>8, <1>9 DEF Described

\* The cache only changes where the packet goes.
LEMMA ResolveGgsn ==
  ASSUME NEW d, NEW h, NEW p, Described(d, h, p), NEW e, e = resolve_ggsn(d, p),
         d = [h |-> d.h, from |-> d.from, tun |-> d.tun, from_seq |-> d.from_seq, ok |-> d.ok, to |-> d.to]
  PROVE  Described(e, h, p)
<1> DEFINE I == {i \in DOMAIN d.h.resolved : d.h.resolved[i].apn = p.apn}
           to == d.h.resolved[First(I)].peer
<1>1. CASE ~(resolvable(d, p) /\ ~pending(d.h, p.apn) /\ cached(d.h, p.apn) # 0)
  BY <1>1 DEF resolve_ggsn
<1>2. CASE resolvable(d, p) /\ ~pending(d.h, p.apn) /\ cached(d.h, p.apn) # 0
  <2>1. e = [d EXCEPT !.to = to] /\ First(I) # 0
    BY <1>2 DEF resolve_ggsn, cached
  <2>2. d.h.resolved \in Seq(ResolvedType) /\ Good(d.h)
    BY GoodFacts DEF Described
  <2>3. I \in SUBSET (Nat \ {0}) /\ I \subseteq DOMAIN d.h.resolved
    BY <2>2
  <2>4. First(I) \in DOMAIN d.h.resolved
    BY <2>1, <2>3, FirstOf
  <2>5. to \in DOMAIN d.h.ports
    BY <2>2, <2>4, Referenced
  <2> HIDE DEF to
  <2>6. e.h = d.h /\ e.from = d.from /\ e.tun = d.tun /\ e.to = to
    BY <2>1
  <2> QED
    BY <2>5, <2>6 DEF Described
<1> QED
  BY <1>1, <1>2
\* All of it, for a packet whose sender is admitted.
LEMMA PacketDesc ==
  ASSUME setup \in DOMAIN Setups, Good(hub), NEW p \in PacketType, sender(hub, p) # NoPort,
         NEW d, d = packet_desc(p)
  PROVE  Described(d, hub, p)
<1> DEFINE from == sender(hub, p)
           h0 == port_have(hub, from)
           h1 == check_restart_counter(h0, p, from)
           e == unmap(h1, p, from)
<1>1. d = resolve_ggsn(e, p)
  BY DEF packet_desc
<1>2. p.side \in Sides /\ p.plane \in Planes
  BY DEF PacketType
<1>3. from \in PortIds
  <2>1. from = PortOf(p.side, p.plane, p.addr, p.port)
    BY DEF sender
  <2> QED
    BY <2>1 DEF PortOf, PortIds, PacketType
<1> HIDE DEF from
<1>4. Good(h0) /\ DOMAIN h0.ports = DOMAIN hub.ports \cup {from} /\ h0.tun = hub.tun /\ Calm(h0, hub)
  BY <1>3, PortHave
<1> HIDE DEF h0
<1>5. Good(h1) /\ DOMAIN h1.ports = DOMAIN h0.ports /\ Calm(h1, h0) /\ Voids(h1.tun, h0.tun)
  BY <1>4, CheckRestartCounter
<1> HIDE DEF h1
<1>6. Described(e, h1, p)
  BY <1>4, <1>5, Unmap
<1>7. e = [h |-> e.h, from |-> e.from, tun |-> e.tun, from_seq |-> e.from_seq, ok |-> e.ok, to |-> e.to]
  BY DEF unmap
<1> HIDE DEF e
<1>8. Described(d, h1, p)
  BY <1>1, <1>6, <1>7, ResolveGgsn
<1>9. Voids(d.h.tun, hub.tun) /\ Calm(d.h, hub)
  BY <1>4, <1>5, <1>8, VoidsTransitive DEF Described, Calm
<1>10. d.tun # NoTun => hub.tun[d.tun].endpoint[p.side][p.plane].peer # NoPort
  <2>1. SUFFICES ASSUME d.tun # NoTun PROVE hub.tun[d.tun].endpoint[p.side][p.plane].peer # NoPort
    OBVIOUS
  <2>2. d.tun \in DOMAIN h1.tun /\ h1.tun[d.tun].endpoint[p.side][p.plane].peer # NoPort
    BY <1>8, <2>1 DEF Described
  <2>3. Voids(h1.tun, hub.tun)
    BY <1>4, <1>5
  <2> QED
    BY <1>2, <2>2, <2>3 DEF Voids
<1>11. DOMAIN h1.tun = DOMAIN hub.tun
  BY <1>4, <1>5 DEF Voids
<1> QED
  BY <1>4, <1>5, <1>8, <1>9, <1>10, <1>11 DEF Described

-----------------------------------------------------------------------------
(* Handlers.                                                               *)

\* A hub in order, whose tunnels are told apart by their TEIs.
Settled(h) == Good(h) /\ ReplUnique(h.tun) /\ (AnnouncesTeis => PeersUnique(h.tun))
\* A side of a tunnel without a Ctrl peer stays as it is.
StaysVoid(g, f) ==
  \A t \in DOMAIN f \cap DOMAIN g, s \in Sides :
    f[t].endpoint[s]["ctrl"].peer = NoPort => g[t].endpoint[s] = f[t].endpoint[s]
\* What every handler does to the hub.
Handled(g, h) == Settled(g) /\ StaysVoid(g.tun, h.tun) /\ Calm(g, h)

\* What the packet is found to be about is the beginning of it.
LEMMA DescribedHandled ==
  ASSUME NEW d, NEW h, NEW p, Described(d, h, p), Settled(h) PROVE Handled(d.h, h)
<1>1. Good(d.h) /\ Voids(d.h.tun, h.tun) /\ Calm(d.h, h)
  BY DEF Described
<1>2. StaysVoid(d.h.tun, h.tun)
  BY <1>1 DEF Voids, StaysVoid
<1> QED
  BY <1>1, <1>2, VoidsUnique DEF Handled, Settled

\* Freeing tunnels disturbs nothing.
LEMMA FewerSettled ==
  ASSUME NEW g, NEW h, Settled(h), Good(g),
         DOMAIN g.tun \subseteq DOMAIN h.tun, \A u \in DOMAIN g.tun : g.tun[u] = h.tun[u]
  PROVE  Settled(g) /\ StaysVoid(g.tun, h.tun)
<1>1. \A u \in DOMAIN g.tun : Announced(g.tun, u) <=> Announced(h.tun, u)
  BY DEF Announced
<1>2. ReplUnique(h.tun) => ReplUnique(g.tun)
  BY <1>1 DEF ReplUnique
<1>3. PeersUnique(h.tun) => PeersUnique(g.tun)
  BY ReusedSame DEF PeersUnique
<1>4. StaysVoid(g.tun, h.tun)
  BY DEF StaysVoid
<1> QED
  BY <1>2, <1>3, <1>4 DEF Settled

\* So is freeing tunnels afterwards.
LEMMA FewerTunnels ==
  ASSUME NEW g, NEW f, NEW h, Handled(f, h), Good(g), Calm(g, f),
         DOMAIN g.tun \subseteq DOMAIN f.tun, \A u \in DOMAIN g.tun : g.tun[u] = f.tun[u]
  PROVE  Handled(g, h)
<1>1. Settled(f) /\ StaysVoid(f.tun, h.tun) /\ Calm(f, h)
  BY DEF Handled
<1>2. Settled(g)
  BY <1>1, FewerSettled
<1>3. StaysVoid(g.tun, h.tun)
  BY <1>1 DEF StaysVoid
<1> QED
  BY <1>1, <1>2, <1>3 DEF Handled, Calm

\* And forwarding the packet.
LEMMA Forwarded ==
  ASSUME NEW f, NEW h, Handled(f, h), NEW d, d.from \in DOMAIN f.ports, d.to \in DOMAIN f.ports,
         NEW p \in PacketType, NEW g,
         g = IF d.from_seq = NoPort THEN map_seq(f, d.from, d.to, p.seq) ELSE f
  PROVE  Handled(g, h)
<1>1. p.seq \in 0..SeqMax
  BY DEF PacketType
<1>2. Good(f)
  BY DEF Handled, Settled
<1>3. Good(g) /\ g.tun = f.tun /\ Calm(g, f)
  <2>1. CASE d.from_seq = NoPort
    BY <1>1, <1>2, <2>1, MapSeq
  <2>2. CASE d.from_seq # NoPort
    BY <1>2, <2>2 DEF Calm
  <2> QED
    BY <2>1, <2>2
<1> QED
  BY <1>3, FewerTunnels

\* A change of the pending deletes.
LEMMA PendingSet ==
  ASSUME NEW h, Good(h), NEW pds \in Seq(PendingType), NEW g, g = [h EXCEPT !.pending_deletes = pds]
  PROVE  Good(g) /\ g.tun = h.tun /\ g.ports = h.ports /\ Calm(g, h)
<1>1. h \in HubType
  BY GoodFacts
<1>2. /\ g \in HubType /\ g.ports = h.ports /\ g.seq_pool = h.seq_pool /\ g.seq_map = h.seq_map
      /\ g.tunnels = h.tunnels /\ g.tun = h.tun /\ Calm(g, h)
  BY <1>1 DEF HubType, Calm
<1> QED
  BY <1>2 DEF Good, Exact, Sum, Calm

\* A Create Request.
LEMMA CreateReqHandled ==
  ASSUME Settled(hub), NEW p \in PacketType, p.type = "create_req", NEW t \in TunIds, t \notin DOMAIN hub.tun,
         NEW d, Described(d, hub, p), d.to # NoPort,
         NEW r, r = create_planes(new_tunnel(d.h, t, d.to), d, p, t), r.rc # 1
  PROVE  Handled(r.h, hub) /\ DOMAIN d.h.ports \subseteq DOMAIN r.h.ports
<1> DEFINE h1 == new_tunnel(d.h, t, d.to)
<1>0. r = create_planes(h1, d, p, t)
  OBVIOUS
<1>1. Handled(d.h, hub)
  BY DescribedHandled
<1>2. Good(d.h) /\ d.to \in DOMAIN d.h.ports /\ DOMAIN d.h.tun = DOMAIN hub.tun /\ d.from \in DOMAIN d.h.ports
  BY DEF Described, Voids
<1>3. /\ Good(h1) /\ DOMAIN h1.ports = DOMAIN d.h.ports /\ Calm(h1, d.h)
      /\ DOMAIN h1.tun = DOMAIN d.h.tun \cup {t}
      /\ \A u \in DOMAIN d.h.tun : h1.tun[u] = d.h.tun[u]
      /\ ~Announced(h1.tun, t)
  BY <1>2, NewTunnel
<1> HIDE DEF h1
<1>4. (ReplUnique(d.h.tun) => ReplUnique(h1.tun)) /\ (PeersUnique(d.h.tun) => PeersUnique(h1.tun))
  BY <1>3, NewTunnelUnique
<1>5. d.from \in PortIds /\ t \in DOMAIN h1.tun /\ ReplUnique(h1.tun)
  BY <1>1, <1>2, <1>3, <1>4, GoodFacts DEF Handled, Settled
<1>6. /\ Keeps(r.h, h1, t, p.side)
      /\ ReplUnique(r.h.tun)
      /\ Teis(p) /\ PeersUnique(h1.tun) => PeersUnique(r.h.tun)
  <2>1. p.type \in {"create_req", "create_rsp"}
    OBVIOUS
  <2> QED
    BY <1>0, <1>3, <1>5, <2>1, CreatePlanes
<1>7. Teis(p)
  BY DEF Teis
<1>8. Settled(r.h)
  BY <1>1, <1>4, <1>6, <1>7 DEF Settled, Handled, Keeps
<1>9. StaysVoid(r.h.tun, hub.tun)
  <2>1. \A u \in DOMAIN hub.tun \cap DOMAIN r.h.tun : u # t /\ u \in DOMAIN d.h.tun
    BY <1>2
  <2>2. \A u \in DOMAIN hub.tun \cap DOMAIN r.h.tun : r.h.tun[u] = d.h.tun[u]
    BY <1>3, <1>6, <2>1 DEF Keeps
  <2> QED
    BY <1>1, <2>1, <2>2 DEF Handled, StaysVoid
<1> QED
  BY <1>1, <1>3, <1>6, <1>8, <1>9 DEF Handled, Keeps, Calm

\* A Create Response.
LEMMA CreateRspHandled ==
  ASSUME Settled(hub), NEW p \in PacketType, p \in Setups[setup].packets,
         p.type = "create_rsp", p.side = "ggsn", p.plane = "ctrl",
         NEW d, Described(d, hub, p), d.tun # NoTun,
         NEW r, r = create_planes(d.h, d, p, d.tun), r.rc # 1
  PROVE  Handled(r.h, hub) /\ DOMAIN d.h.ports \subseteq DOMAIN r.h.ports
<1>1. Handled(d.h, hub)
  BY DescribedHandled
<1>2. /\ Good(d.h) /\ DOMAIN d.h.tun = DOMAIN hub.tun /\ d.from \in DOMAIN d.h.ports /\ d.tun \in DOMAIN d.h.tun
      /\ hub.tun[d.tun].endpoint["ggsn"]["ctrl"].peer # NoPort
  BY DEF Described, Voids
<1>3. d.from \in PortIds /\ ReplUnique(d.h.tun)
  BY <1>1, <1>2, GoodFacts DEF Handled, Settled
<1>4. /\ Keeps(r.h, d.h, d.tun, "ggsn")
      /\ ReplUnique(r.h.tun)
      /\ Teis(p) /\ PeersUnique(d.h.tun) => PeersUnique(r.h.tun)
  BY <1>2, <1>3, CreatePlanes
<1>5. AnnouncesTeis => Teis(p)
  BY DEF Teis, AnnouncesTeis
<1>6. Settled(r.h)
  BY <1>1, <1>4, <1>5 DEF Settled, Handled, Keeps
<1>7. StaysVoid(r.h.tun, hub.tun)
  <2>1. SUFFICES ASSUME NEW u \in DOMAIN hub.tun \cap DOMAIN r.h.tun, NEW s \in Sides,
                        hub.tun[u].endpoint[s]["ctrl"].peer = NoPort
                 PROVE  r.h.tun[u].endpoint[s] = hub.tun[u].endpoint[s]
    BY DEF StaysVoid
  <2>2. d.h.tun[u].endpoint[s] = hub.tun[u].endpoint[s]
    BY <1>1, <1>2, <2>1 DEF Handled, StaysVoid
  <2>3. CASE u = d.tun
    <3>1. s # "ggsn"
      BY <1>2, <2>1, <2>3
    <3> QED
      BY <1>4, <2>2, <2>3, <3>1 DEF Keeps
  <2>4. CASE u # d.tun
    BY <1>4, <2>2, <2>4 DEF Keeps
  <2> QED
    BY <2>3, <2>4
<1> QED
  BY <1>1, <1>4, <1>6, <1>7 DEF Handled, Keeps, Calm
-----------------------------------------------------------------------------
(* The invariant.                                                          *)

Of(a) == {r \in ResolvedType : r.apn = a}
\* An APN is pending just while a live query asks for it, there is one at most, and the APN
\* is in the cache once at most, and not while it is pending.
Supervised(h, Q) ==
  /\ \A a \in Apns : pending(h, a) <=> \E q \in Q : q.apn = a /\ q.live
  /\ \A q, r \in Q : q.apn = r.apn /\ q.live /\ r.live => q = r
  /\ \A a \in Apns : Count(h.resolved, Of(a)) <= 1 /\ (pending(h, a) => Count(h.resolved, Of(a)) = 0)

Inv ==
  /\ setup \in DOMAIN Setups
  /\ Settled(hub)
  /\ queries \subseteq QueryType
  /\ status \in Statuses
  /\ Supervised(hub, queries)

\* What every step does.
Preserved ==
  /\ Settled(hub')
  /\ StaysVoid(hub'.tun, hub.tun)
  /\ queries' \subseteq QueryType
  /\ status' \in Statuses
  /\ Supervised(hub', queries')

\* The lookups and the cache matter, nothing else of the hub.
LEMMA SupervisedSame ==
  ASSUME NEW g, NEW h, NEW Q, Supervised(h, Q), Calm(g, h) PROVE Supervised(g, Q)
  BY DEF Supervised, Calm, pending

\* A hub that has just been started.
LEMMA StartGood ==
  ASSUME setup \in DOMAIN Setups
  PROVE  Settled(start) /\ Supervised(start, {}) /\ start.tun = [t \in {} |-> 0]
<1> DEFINE ports == [pp \in Proxies |-> [ref_count |-> 1, last_restart_count |-> -1]]
           peers == {PeerOf(pp) : pp \in Proxies}
           seq_pool == [peer \in peers |-> SeqInit]
           tun == [t \in {} |-> 0]
<1>1. start = [ports |-> ports, seq_pool |-> seq_pool, seq_map |-> <<>>, tunnels |-> <<>>, tun |-> tun,
               tei_pool |-> TeiMax, pending_deletes |-> <<>>, resolved |-> <<>>, lookups |-> {}]
  BY DEF start
<1>2. Proxies \subseteq PortIds
  <2>1. Setups[setup].proxy \in [Sides -> [Planes -> PortIds \cup {NoPort}]]
    BY HubAssumption
  <2> QED
    BY <2>1 DEF Proxies
<1>3. ports \in [Proxies -> PortRec] /\ DOMAIN ports = Proxies /\ \A x \in Proxies : ports[x].ref_count = 1
  BY DEF PortRec
<1>4. ports \in PortsType
  BY <1>2, <1>3, PortsDef
<1>5. seq_pool \in PoolType /\ DOMAIN seq_pool = {PeerOf(pp) : pp \in DOMAIN ports}
  <2>1. peers \subseteq PeerIds
    BY <1>2 DEF PeerOf, PeerIds, PortIds
  <2>2. SeqInit \in 0..SeqMax
    BY HubAssumption
  <2> HIDE DEF peers
  <2>3. seq_pool \in [peers -> 0..SeqMax] /\ DOMAIN seq_pool = peers
    BY <2>2
  <2> HIDE DEF seq_pool
  <2> QED
    BY <1>3, <2>1, <2>3, PoolDef DEF peers
<1>6. tun \in TunsType /\ DOMAIN tun = {}
  <2>1. tun \in [{} -> TunnelType] /\ DOMAIN tun = {}
    OBVIOUS
  <2> HIDE DEF tun
  <2> QED
    BY <2>1, TunsDef
<1>7. TeiMax \in 1..TeiMax
  BY HubAssumption
<1>8. tun = [t \in {} |-> 0]
  OBVIOUS
<1> HIDE DEF ports, seq_pool, tun
<1>9. /\ start.ports = ports /\ start.seq_pool = seq_pool /\ start.seq_map = <<>> /\ start.tunnels = <<>>
      /\ start.tun = tun /\ start.resolved = <<>> /\ start.lookups = {}
  BY <1>1
<1>10. start \in HubType
  <2>1. /\ <<>> \in Seq(MappingType) /\ <<>> \in Seq(TunIds) /\ <<>> \in Seq(PendingType)
        /\ <<>> \in Seq(ResolvedType) /\ {} \in SUBSET LookupType
    OBVIOUS
  <2> QED
    BY <1>1, <1>4, <1>5, <1>6, <1>7, <2>1 DEF HubType
<1>11. ASSUME NEW x PROVE Sum(start, x) = RP(x)
  <2>1. TunRefs(tun, x) = {}
    BY <1>6 DEF TunRefs
  <2>2. RT(tun, x) = 0
    BY <2>1, FS_EmptySet DEF RT
  <2>3. RM(<<>>, x) = 0 /\ RR(<<>>, x) = 0
    BY CountEmpty DEF RM, RR
  <2>4. RP(x) \in Nat
    BY DEF RP
  <2> QED
    BY <1>9, <2>2, <2>3, <2>4 DEF Sum
<1>12. Exact(start)
  BY <1>3, <1>9, <1>11 DEF Exact, RP
<1>13. Range(start.tunnels) = DOMAIN start.tun
  BY <1>6, <1>9 DEF Range
<1>14. Good(start)
  BY <1>5, <1>9, <1>10, <1>12, <1>13 DEF Good
<1>15. ReplUnique(start.tun) /\ PeersUnique(start.tun)
  BY <1>6, <1>9 DEF ReplUnique, PeersUnique
<1>16. Supervised(start, {})
  <2>1. \A a : Count(start.resolved, Of(a)) = 0
    BY <1>9, CountEmpty
  <2>2. \A a : ~pending(start, a)
    BY <1>9 DEF pending
  <2> QED
    BY <2>1, <2>2 DEF Supervised
<1> QED
  BY <1>8, <1>9, <1>14, <1>15, <1>16 DEF Settled

\* The process dies.
LEMMA DieStep ==
  ASSUME Inv, NEW why \in Statuses, Die(why) PROVE Preserved
<1>1. hub' = start /\ queries' = {} /\ status' \in Statuses
  BY DEF Die
<1>2. Settled(start) /\ Supervised(start, {}) /\ start.tun = [t \in {} |-> 0]
  BY StartGood DEF Inv
<1>3. DOMAIN start.tun = {}
  BY <1>2
<1>4. StaysVoid(start.tun, hub.tun)
  BY <1>3 DEF StaysVoid
<1> QED
  BY <1>1, <1>2, <1>4 DEF Preserved

\* A handler that leaves the queries alone.
LEMMA HandledStep ==
  ASSUME Inv, Handled(hub', hub), UNCHANGED <<queries, status>> PROVE Preserved
<1>1. Supervised(hub', queries)
  BY SupervisedSame DEF Inv, Handled
<1> QED
  BY <1>1 DEF Inv, Handled, Preserved

\* A packet that some network sends.
LEMMA Packets ==
  ASSUME Inv, NEW p \in Setups[setup].packets
  PROVE  p \in PacketType /\ (p.plane = "user" <=> p.type = "user")
<1>1. setup \in DOMAIN Setups
  BY DEF Inv
<1> QED
  BY <1>1, HubAssumption

\* It is dropped, and perhaps a lookup started.
LEMMA RxDroppedStep ==
  ASSUME Inv, NEW p \in Setups[setup].packets, RxDropped(p) PROVE Preserved
<1>1. p \in PacketType /\ setup \in DOMAIN Setups /\ Settled(hub) /\ Good(hub)
  BY Packets DEF Inv, Settled
<1>2. sender(hub, p) # NoPort
  BY DEF RxDropped, Received
<1> DEFINE d == packet_desc(p)
           l == [apn |-> p.apn, ttl |-> Quick]
           q == [apn |-> p.apn, have_3dig_mnc |-> FALSE, live |-> TRUE]
<1>3. /\ IF must_look_up(d, p)
         THEN hub' = [d.h EXCEPT !.lookups = @ \cup {l}] /\ queries' = queries \cup {q}
         ELSE hub' = d.h /\ UNCHANGED queries
      /\ UNCHANGED status
  BY DEF RxDropped
<1>4. Described(d, hub, p)
  BY <1>1, <1>2, PacketDesc
<1> HIDE DEF d
<1>5. Handled(d.h, hub)
  BY <1>1, <1>4, DescribedHandled
<1>6. CASE ~must_look_up(d, p)
  BY <1>3, <1>5, <1>6, HandledStep
<1>7. CASE must_look_up(d, p)
  <2>1. hub' = [d.h EXCEPT !.lookups = d.h.lookups \cup {l}] /\ queries' = queries \cup {q} /\ status' = status
    BY <1>3, <1>7
  <2>2. ~pending(d.h, p.apn) /\ cached(d.h, p.apn) = 0 /\ p.apn \in Apns
    BY <1>1, <1>7 DEF must_look_up, resolvable, PacketType
  <2>3. Good(d.h) /\ d.h \in HubType /\ d.h.lookups \subseteq LookupType /\ d.h.resolved \in Seq(ResolvedType)
    BY <1>5, GoodFacts DEF Handled, Settled
  <2>4. l \in LookupType /\ l.apn = p.apn
    BY <2>2, HubAssumption DEF LookupType
  <2>5. q \in QueryType /\ q.apn = p.apn /\ q.live
    BY <2>2 DEF QueryType
  <2> HIDE DEF l, q
  <2>6. /\ hub' \in HubType /\ hub'.ports = d.h.ports /\ hub'.seq_pool = d.h.seq_pool /\ hub'.seq_map = d.h.seq_map
        /\ hub'.tunnels = d.h.tunnels /\ hub'.tun = d.h.tun /\ hub'.resolved = d.h.resolved
        /\ hub'.lookups = d.h.lookups \cup {l}
    BY <2>1, <2>3, <2>4 DEF HubType
  <2>7. Good(hub')
    BY <2>3, <2>6 DEF Good, Exact, Sum
  <2>8. Settled(hub') /\ StaysVoid(hub'.tun, hub.tun)
    BY <1>5, <2>6, <2>7 DEF Handled, Settled
  <2>9. Supervised(d.h, queries)
    BY <1>5, SupervisedSame DEF Inv, Handled
  <2>10. \A a : pending(hub', a) <=> pending(d.h, a) \/ a = p.apn
    BY <2>4, <2>6 DEF pending
  <2>11. Count(d.h.resolved, Of(p.apn)) = 0
    <3> DEFINE I == {i \in DOMAIN d.h.resolved : d.h.resolved[i].apn = p.apn}
    <3>1. I \in SUBSET (Nat \ {0})
      BY <2>3
    <3>2. I = {}
      <4> HIDE DEF I
      <4>1. First(I) = 0
        BY <2>2 DEF cached, I
      <4> QED
        BY <3>1, <4>1, FirstOf
    <3>3. {i \in DOMAIN d.h.resolved : d.h.resolved[i] \in Of(p.apn)} = {}
      BY <3>2 DEF Of
    <3> QED
      BY <3>3, FS_EmptySet DEF Count
  <2>12. \A r \in queries : r.apn = p.apn => ~r.live
    BY <2>2, <2>9 DEF Supervised
  <2>13. Supervised(hub', queries')
    <3>1. \A a \in Apns : pending(hub', a) <=> \E r \in queries' : r.apn = a /\ r.live
      BY <2>1, <2>5, <2>9, <2>10 DEF Supervised
    <3>2. \A r, s \in queries' : r.apn = s.apn /\ r.live /\ s.live => r = s
      BY <2>1, <2>5, <2>9, <2>12 DEF Supervised
    <3>3. \A a \in Apns : Count(hub'.resolved, Of(a)) <= 1 /\ (pending(hub', a) => Count(hub'.resolved, Of(a)) = 0)
      BY <2>6, <2>9, <2>10, <2>11 DEF Supervised
    <3> QED
      BY <3>1, <3>2, <3>3 DEF Supervised
  <2>14. queries' \subseteq QueryType /\ status' \in Statuses
    BY <2>1, <2>5 DEF Inv
  <2> QED
    BY <2>8, <2>13, <2>14 DEF Preserved
<1> QED
  BY <1>6, <1>7
\* What the handlers below start from.
LEMMA Routing ==
  ASSUME Inv, NEW p \in Setups[setup].packets, Received(p), NEW d, d = packet_desc(p)
  PROVE  /\ Settled(hub) /\ p \in PacketType /\ Described(d, hub, p) /\ Handled(d.h, hub)
         /\ Good(d.h) /\ DOMAIN d.h.tun = DOMAIN hub.tun /\ d.tun \in DOMAIN d.h.tun \cup {NoTun}
         /\ d.from \in DOMAIN d.h.ports /\ d.to \in DOMAIN d.h.ports \cup {NoPort}
<1>1. setup \in DOMAIN Setups /\ Settled(hub) /\ Good(hub) /\ p \in PacketType /\ sender(hub, p) # NoPort
  BY Packets DEF Inv, Settled, Received
<1>2. Described(d, hub, p)
  BY <1>1, PacketDesc
<1>3. Handled(d.h, hub)
  BY <1>1, <1>2, DescribedHandled
<1> QED
  BY <1>1, <1>2, <1>3 DEF Described, Voids

\* A Delete Response for a void tunnel.
LEMMA RxDeleteRspInvalidatedStep ==
  ASSUME Inv, NEW p \in Setups[setup].packets, RxDeleteRspInvalidated(p) PROVE Preserved
<1> DEFINE d == packet_desc(p)
           g == tunnels_del(d.h, {d.tun})
<1>1. Received(p) /\ d.tun # NoTun /\ hub' = g /\ UNCHANGED <<queries, status>>
  BY DEF RxDeleteRspInvalidated, invalidated_delete
<1>2. Handled(d.h, hub) /\ Good(d.h) /\ d.tun \in DOMAIN d.h.tun \cup {NoTun}
  BY <1>1, Routing
<1> HIDE DEF d
<1>3. {d.tun} \in SUBSET DOMAIN d.h.tun
  BY <1>1, <1>2
<1>4. /\ Good(g) /\ Calm(g, d.h) /\ DOMAIN g.tun = DOMAIN d.h.tun \ {d.tun}
      /\ \A u \in DOMAIN d.h.tun \ {d.tun} : g.tun[u] = d.h.tun[u]
  BY <1>2, <1>3, TunnelsDel
<1> HIDE DEF g
<1>5. Handled(g, hub)
  BY <1>2, <1>4, FewerTunnels
<1> QED
  BY <1>1, <1>5, HandledStep

\* The end of a Create message.
LEMMA CreatedStep ==
  ASSUME Inv, NEW p \in PacketType, NEW d, NEW r,
         d.from \in DOMAIN d.h.ports, d.to \in DOMAIN d.h.ports,
         r.rc # 1 => Handled(r.h, hub) /\ DOMAIN d.h.ports \subseteq DOMAIN r.h.ports,
         Created(r, d, p)
  PROVE  Preserved
<1>1. CASE r.rc = 1
  <2>1. Die("TEI range exhausted") /\ "TEI range exhausted" \in Statuses
    BY <1>1 DEF Created, Statuses
  <2> QED
    BY <2>1, DieStep
<1>2. CASE r.rc # 1
  <2>1. UNCHANGED <<queries, status>> /\ (IF r.rc = 0 THEN Forward(r.h, d, p) ELSE hub' = r.h)
    BY <1>2 DEF Created
  <2>2. CASE r.rc = 0
    <3>1. hub' = IF d.from_seq = NoPort THEN map_seq(r.h, d.from, d.to, p.seq) ELSE r.h
      BY <2>1, <2>2 DEF Forward
    <3>2. d.from \in DOMAIN r.h.ports /\ d.to \in DOMAIN r.h.ports /\ Handled(r.h, hub)
      BY <1>2
    <3>3. Handled(hub', hub)
      BY <3>1, <3>2, Forwarded
    <3> QED
      BY <2>1, <3>3, HandledStep
  <2>3. CASE r.rc # 0
    BY <1>2, <2>1, <2>3, HandledStep
  <2> QED
    BY <2>2, <2>3
<1> QED
  BY <1>1, <1>2

\* A Create Request.
LEMMA RxCreateReqStep ==
  ASSUME Inv, NEW p \in Setups[setup].packets, NEW t \in TunIds, RxCreateReq(p, t) PROVE Preserved
<1> DEFINE d == packet_desc(p)
           r == create_planes(new_tunnel(d.h, t, d.to), d, p, t)
<1>1. Received(p) /\ p.type = "create_req" /\ t \notin DOMAIN hub.tun /\ d.to # NoPort /\ Created(r, d, p)
  BY DEF RxCreateReq, Routable, Routed
<1>2. Settled(hub) /\ p \in PacketType /\ Described(d, hub, p)
      /\ d.from \in DOMAIN d.h.ports /\ d.to \in DOMAIN d.h.ports \cup {NoPort}
  BY <1>1, Routing
<1> HIDE DEF d
<1>3. r.rc # 1 => Handled(r.h, hub) /\ DOMAIN d.h.ports \subseteq DOMAIN r.h.ports
  BY <1>1, <1>2, CreateReqHandled
<1> HIDE DEF r
<1> QED
  BY <1>1, <1>2, <1>3, CreatedStep

\* A Create Response.
LEMMA RxCreateRspStep ==
  ASSUME Inv, NEW p \in Setups[setup].packets, RxCreateRsp(p) PROVE Preserved
<1> DEFINE d == packet_desc(p)
           r == create_planes(d.h, d, p, d.tun)
<1>1. /\ Received(p) /\ p.type = "create_rsp" /\ p.side = "ggsn" /\ d.to # NoPort
      /\ IF d.tun = NoTun THEN Die("assert tunnel") ELSE Created(r, d, p)
  BY DEF RxCreateRsp, Routable, Routed
<1>2. Settled(hub) /\ p \in PacketType /\ Described(d, hub, p)
      /\ d.from \in DOMAIN d.h.ports /\ d.to \in DOMAIN d.h.ports \cup {NoPort}
  BY <1>1, Routing
<1>3. p.plane = "ctrl"
  BY <1>1, <1>2, Packets DEF PacketType, Planes
<1> HIDE DEF d
<1>4. CASE d.tun = NoTun
  <2>1. Die("assert tunnel") /\ "assert tunnel" \in Statuses
    BY <1>1, <1>4 DEF Statuses
  <2> QED
    BY <2>1, DieStep
<1>5. CASE d.tun # NoTun
  <2>1. r.rc # 1 => Handled(r.h, hub) /\ DOMAIN d.h.ports \subseteq DOMAIN r.h.ports
    BY <1>1, <1>2, <1>3, <1>5, CreateRspHandled
  <2>2. Created(r, d, p)
    BY <1>1, <1>5
  <2> HIDE DEF r
  <2> QED
    BY <1>1, <1>2, <2>1, <2>2, CreatedStep
<1> QED
  BY <1>4, <1>5

\* A Create message that is refused.
LEMMA RxCreateRefusedStep ==
  ASSUME Inv, NEW p \in Setups[setup].packets, RxCreateRefused(p) PROVE Preserved
<1> DEFINE d == packet_desc(p)
<1>1. Received(p) /\ hub' = d.h /\ UNCHANGED <<queries, status>>
  BY DEF RxCreateRefused, Routable
<1>2. Handled(d.h, hub)
  BY <1>1, Routing
<1> QED
  BY <1>1, <1>2, HandledStep

\* A Delete Request.
LEMMA RxDeleteReqStep ==
  ASSUME Inv, NEW p \in Setups[setup].packets, RxDeleteReq(p) PROVE Preserved
<1> DEFINE d == packet_desc(p)
           pds == d.h.pending_deletes
           I == {j \in DOMAIN pds : pds[j].tun = d.tun /\ pds[j].nsapi = p.nsapi}
           i == First(I)
           pd == [tun |-> d.tun, nsapi |-> p.nsapi, ttl |-> Quick]
           pds2 == IF i = 0 THEN <<pd>> \o pds ELSE [pds EXCEPT ![i].ttl = Quick]
           h1 == [d.h EXCEPT !.pending_deletes = pds2]
<1>1. /\ Received(p) /\ d.to # NoPort /\ UNCHANGED <<queries, status>>
      /\ IF d.tun = NoTun \/ p.nsapi = NoNsapi THEN hub' = d.h ELSE Forward(h1, d, p)
  BY DEF RxDeleteReq, Routable, Routed
<1>2. /\ p \in PacketType /\ Handled(d.h, hub) /\ Good(d.h) /\ d.tun \in DOMAIN d.h.tun \cup {NoTun}
      /\ d.from \in DOMAIN d.h.ports /\ d.to \in DOMAIN d.h.ports \cup {NoPort}
  BY <1>1, Routing
<1> HIDE DEF d
<1>3. CASE d.tun = NoTun \/ p.nsapi = NoNsapi
  BY <1>1, <1>2, <1>3, HandledStep
<1>4. CASE ~(d.tun = NoTun \/ p.nsapi = NoNsapi)
  <2>1. pds \in Seq(PendingType) /\ d.tun \in TunIds
    BY <1>2, <1>4, GoodFacts
  <2>2. Quick \in 0..Quick
    BY HubAssumption
  <2>3. pd \in PendingType
    <3>1. p.nsapi \in 0..15
      BY <1>2, <1>4 DEF PacketType
    <3> QED
      BY <2>1, <2>2, <3>1 DEF PendingType
  <2>4. I \in SUBSET (Nat \ {0}) /\ I \subseteq DOMAIN pds
    BY <2>1
  <2>5. i = 0 \/ i \in DOMAIN pds
    <3> HIDE DEF I
    <3> QED
      BY <2>4, FirstOf
  <2>6. Forward(h1, d, p)
    BY <1>1, <1>4
  <2> HIDE DEF I, i, pd, pds
  <2>7. pds2 \in Seq(PendingType)
    <3>1. CASE i = 0
      BY <2>1, <2>3, <3>1, ConsProperties
    <3>2. CASE i # 0
      <4> DEFINE x == [pds[i] EXCEPT !.ttl = Quick]
      <4>1. pds2 = [pds EXCEPT ![i] = x]
        BY <3>2
      <4>2. pds[i] \in PendingType
        BY <2>1, <2>5, <3>2
      <4>3. x \in PendingType
        BY <2>2, <4>2 DEF PendingType
      <4>4. pds \in [1..Len(pds) -> PendingType] /\ Len(pds) \in Nat
        BY <2>1
      <4> HIDE DEF x, pds2
      <4>5. pds2 \in [1..Len(pds) -> PendingType]
        BY <4>1, <4>3, <4>4
      <4> QED
        BY <4>4, <4>5
    <3> QED
      BY <3>1, <3>2
  <2> HIDE DEF pds2
  <2>8. Good(h1) /\ h1.tun = d.h.tun /\ h1.ports = d.h.ports /\ Calm(h1, d.h)
    BY <1>2, <2>7, PendingSet
  <2> HIDE DEF h1
  <2>9. Handled(h1, hub)
    BY <1>2, <2>8, FewerTunnels
  <2>10. hub' = IF d.from_seq = NoPort THEN map_seq(h1, d.from, d.to, p.seq) ELSE h1
    BY <2>6 DEF Forward
  <2>11. d.from \in DOMAIN h1.ports /\ d.to \in DOMAIN h1.ports
    BY <1>1, <1>2, <2>8
  <2>12. Handled(hub', hub)
    BY <1>2, <2>9, <2>10, <2>11, Forwarded
  <2> QED
    BY <1>1, <2>12, HandledStep
<1> QED
  BY <1>3, <1>4

\* A Delete Response.
LEMMA RxDeleteRspStep ==
  ASSUME Inv, NEW p \in Setups[setup].packets, RxDeleteRsp(p) PROVE Preserved
<1> DEFINE d == packet_desc(p)
           pds == d.h.pending_deletes
           I == {j \in DOMAIN pds : pds[j].tun = d.tun}
           i == First(I)
           pds2 == Kept(pds, Range(pds) \ {pds[i]})
           h1 == [d.h EXCEPT !.pending_deletes = pds2]
           h2 == tunnels_del(h1, {d.tun})
<1>1. /\ Received(p) /\ d.to # NoPort /\ UNCHANGED <<queries, status>>
      /\ IF i = 0 THEN hub' = d.h ELSE IF ~p.cause THEN hub' = h1 ELSE Forward(h2, d, p)
  BY DEF RxDeleteRsp, Routable, Routed
<1>2. /\ p \in PacketType /\ Handled(d.h, hub) /\ Good(d.h) /\ d.tun \in DOMAIN d.h.tun \cup {NoTun}
      /\ d.from \in DOMAIN d.h.ports /\ d.to \in DOMAIN d.h.ports \cup {NoPort}
  BY <1>1, Routing
<1> HIDE DEF d
<1>3. CASE i = 0
  BY <1>1, <1>2, <1>3, HandledStep
<1>4. CASE i # 0
  <2>1. pds \in Seq(PendingType)
    BY <1>2, GoodFacts
  <2>2. I \in SUBSET (Nat \ {0}) /\ \A j \in I : j \in DOMAIN pds /\ pds[j].tun = d.tun
    BY <2>1
  <2>3. i \in DOMAIN pds /\ pds[i].tun = d.tun
    <3> HIDE DEF I
    <3> QED
      BY <1>4, <2>2, FirstOf
  <2>4. d.tun # NoTun
    <3> HIDE DEF i, pds
    <3>1. pds[i] \in PendingType
      BY <2>1, <2>3
    <3> QED
      BY <2>3, <3>1, HubAssumption DEF PendingType
  <2>5. pds2 \in Seq(PendingType)
    BY <2>1, KeptProperties
  <2>6. IF ~p.cause THEN hub' = h1 ELSE Forward(h2, d, p)
    BY <1>1, <1>4
  <2> HIDE DEF i, I, pds, pds2
  <2>7. Good(h1) /\ h1.tun = d.h.tun /\ h1.ports = d.h.ports /\ Calm(h1, d.h)
    BY <1>2, <2>5, PendingSet
  <2> HIDE DEF h1
  <2>8. Handled(h1, hub)
    BY <1>2, <2>7, FewerTunnels
  <2>9. {d.tun} \in SUBSET DOMAIN h1.tun
    BY <1>2, <2>4, <2>7
  <2>10. /\ Good(h2) /\ Calm(h2, h1) /\ DOMAIN h2.tun = DOMAIN h1.tun \ {d.tun} /\ DOMAIN h2.ports = DOMAIN h1.ports
         /\ \A u \in DOMAIN h1.tun \ {d.tun} : h2.tun[u] = h1.tun[u]
    BY <2>7, <2>9, TunnelsDel
  <2> HIDE DEF h2
  <2>11. Handled(h2, hub)
    BY <2>8, <2>10, FewerTunnels
  <2>12. CASE ~p.cause
    BY <1>1, <2>6, <2>8, <2>12, HandledStep
  <2>13. CASE p.cause
    <3>1. hub' = IF d.from_seq = NoPort THEN map_seq(h2, d.from, d.to, p.seq) ELSE h2
      BY <2>6, <2>13 DEF Forward
    <3>2. d.from \in DOMAIN h2.ports /\ d.to \in DOMAIN h2.ports
      BY <1>1, <1>2, <2>7, <2>10
    <3>3. Handled(hub', hub)
      BY <1>2, <2>11, <3>1, <3>2, Forwarded
    <3> QED
      BY <1>1, <3>3, HandledStep
  <2> QED
    BY <2>12, <2>13
<1> QED
  BY <1>3, <1>4

\* Every other message.
LEMMA RxOtherStep ==
  ASSUME Inv, NEW p \in Setups[setup].packets, RxOther(p) PROVE Preserved
<1> DEFINE d == packet_desc(p)
<1>1. /\ Received(p) /\ d.to # NoPort
      /\ IF d.tun = NoTun THEN Die("assert tunnel") ELSE Forward(d.h, d, p) /\ UNCHANGED <<queries, status>>
  BY DEF RxOther, Routable, Routed
<1>2. /\ p \in PacketType /\ Handled(d.h, hub)
      /\ d.from \in DOMAIN d.h.ports /\ d.to \in DOMAIN d.h.ports \cup {NoPort}
  BY <1>1, Routing
<1> HIDE DEF d
<1>3. CASE d.tun = NoTun
  <2>1. Die("assert tunnel") /\ "assert tunnel" \in Statuses
    BY <1>1, <1>3 DEF Statuses
  <2> QED
    BY <2>1, DieStep
<1>4. CASE d.tun # NoTun
  <2>1. hub' = IF d.from_seq = NoPort THEN map_seq(d.h, d.from, d.to, p.seq) ELSE d.h
    BY <1>1, <1>4 DEF Forward
  <2>2. d.to \in DOMAIN d.h.ports
    BY <1>1, <1>2
  <2>3. Handled(hub', hub)
    BY <1>2, <2>1, <2>2, Forwarded
  <2> QED
    BY <1>1, <1>4, <2>3, HandledStep
<1> QED
  BY <1>3, <1>4

\* The handlers.
LEMMA HandleBuf ==
  ASSUME Inv, NEW p \in Setups[setup].packets, handle_buf(p) PROVE Preserved
<1>1. ASSUME RxVersion0(p) PROVE Preserved
  <2>1. Die("assert version") /\ "assert version" \in Statuses
    BY <1>1 DEF RxVersion0, Statuses
  <2> QED
    BY <2>1, DieStep
<1>2. ASSUME NEW t \in TunIds, RxCreateReq(p, t) PROVE Preserved
  BY <1>2, RxCreateReqStep
<1> QED
  BY <1>1, <1>2, RxDroppedStep, RxDeleteRspInvalidatedStep, RxCreateRspStep, RxCreateRefusedStep,
     RxDeleteReqStep, RxDeleteRspStep, RxOtherStep DEF handle_buf
\* An answer puts the APN into the cache, with a reference to the GGSN's port.
Answered(g, h, apn) ==
  /\ Good(g) /\ g.tun = h.tun /\ g.lookups = h.lookups
  /\ \E r \in ResolvedType : r.apn = apn /\ g.resolved = <<r>> \o h.resolved
LEMMA ResolvedGgsn ==
  ASSUME NEW h, Good(h), NEW apn \in Apns, NEW a \in Addrs, NEW g, g = resolved_ggsn(h, apn, a)
  PROVE  Answered(g, h, apn)
<1> DEFINE pp == PortOf("ggsn", "ctrl", a, 2123)
           r == [apn |-> apn, peer |-> pp, ttl |-> Slow]
           h1 == port_have(h, pp)
           h2 == ref_count_inc(h1, pp)
           resolved == <<r>> \o h2.resolved
<1>1. g = [h2 EXCEPT !.resolved = resolved]
  BY DEF resolved_ggsn
<1>2. pp \in PortIds
  BY HubAssumption DEF PortOf, PortIds, Sides, Planes
<1> HIDE DEF pp
<1>3. r \in ResolvedType /\ r.peer = pp /\ r.apn = apn
  <2>1. Slow \in 0..Slow
    BY HubAssumption
  <2> QED
    BY <1>2, <2>1 DEF ResolvedType
<1> HIDE DEF r
<1>4. Good(h1) /\ pp \in DOMAIN h1.ports /\ h1.tun = h.tun /\ Calm(h1, h)
  BY <1>2, PortHave
<1> HIDE DEF h1
<1>5. /\ h1 \in HubType /\ h1.resolved \in Seq(ResolvedType) /\ Range(h1.tunnels) = DOMAIN h1.tun
      /\ DOMAIN h1.ports \subseteq PortIds /\ (\A x \in DOMAIN h1.ports : h1.ports[x].ref_count \in Int)
      /\ (\A x : Sum(h1, x) \in Nat)
  BY <1>4, GoodFacts
<1>6. /\ h2 \in HubType /\ h2.seq_pool = h1.seq_pool /\ h2.seq_map = h1.seq_map /\ h2.tunnels = h1.tunnels
      /\ h2.tun = h1.tun /\ h2.resolved = h1.resolved /\ h2.lookups = h1.lookups
      /\ DOMAIN h2.ports = DOMAIN h1.ports
      /\ \A x \in DOMAIN h1.ports : h2.ports[x].ref_count = h1.ports[x].ref_count + (IF x = pp THEN 1 ELSE 0)
  BY <1>4, <1>5, RefInc
<1> HIDE DEF h2
<1>7. resolved \in Seq(ResolvedType)
  BY <1>3, <1>5, <1>6, ConsProperties
<1>8. resolved = <<r>> \o h1.resolved
  BY <1>6
<1> HIDE DEF resolved
<1>9. /\ g \in HubType /\ g.ports = h2.ports /\ g.seq_pool = h1.seq_pool /\ g.seq_map = h1.seq_map
      /\ g.tunnels = h1.tunnels /\ g.tun = h1.tun /\ g.resolved = resolved /\ g.lookups = h1.lookups
  BY <1>1, <1>6, <1>7 DEF HubType
<1>10. ASSUME NEW x PROVE Sum(g, x) = Sum(h1, x) + (IF x = pp THEN 1 ELSE 0)
  <2>1. RR(resolved, x) = RR(h1.resolved, x) + (IF r \in At(x) THEN 1 ELSE 0)
    BY <1>3, <1>5, <1>8, CountCons DEF RR
  <2>2. r \in At(x) <=> x = pp
    BY <1>3 DEF At
  <2>3. RT(h1.tun, x) \in Nat /\ RM(h1.seq_map, x) \in Nat /\ RR(h1.resolved, x) \in Nat /\ RP(x) \in Nat
    BY <1>5, RefTypes
  <2> QED
    BY <1>9, <2>1, <2>2, <2>3 DEF Sum
<1>11. Exact(g)
  <2>1. SUFFICES ASSUME NEW x \in PortIds
                 PROVE IF x \in DOMAIN g.ports THEN g.ports[x].ref_count = Sum(g, x) ELSE Sum(g, x) = 0
    BY DEF Exact
  <2>2. IF x \in DOMAIN h1.ports THEN h1.ports[x].ref_count = Sum(h1, x) ELSE Sum(h1, x) = 0
    BY <1>4 DEF Good, Exact
  <2>3. Sum(g, x) = Sum(h1, x) + (IF x = pp THEN 1 ELSE 0)
    BY <1>10
  <2> QED
    BY <1>4, <1>5, <1>6, <1>9, <2>2, <2>3
<1>12. Good(g)
  BY <1>4, <1>5, <1>6, <1>9, <1>11 DEF Good
<1> QED
  BY <1>3, <1>4, <1>8, <1>9, <1>12 DEF Calm, Answered

\* A lookup ends.
Ended(g, h, apn) ==
  /\ Good(g) /\ g.tun = h.tun /\ g.resolved = h.resolved
  /\ \A a : pending(g, a) <=> pending(h, a) /\ a # apn
LEMMA LookupDel ==
  ASSUME NEW h, Good(h), NEW q, NEW g, g = lookup_del(h, q)
  PROVE  Ended(g, h, q.apn)
<1> DEFINE lookups == {l \in h.lookups : l.apn # q.apn}
<1>1. h \in HubType /\ h.lookups \subseteq LookupType
  BY GoodFacts
<1>2. g = [h EXCEPT !.lookups = lookups]
  BY DEF lookup_del
<1>3. lookups \subseteq LookupType
  BY <1>1
<1>4. /\ g \in HubType /\ g.ports = h.ports /\ g.seq_pool = h.seq_pool /\ g.seq_map = h.seq_map
      /\ g.tunnels = h.tunnels /\ g.tun = h.tun /\ g.resolved = h.resolved /\ g.lookups = lookups
  <2> HIDE DEF lookups
  <2> QED
    BY <1>1, <1>2, <1>3 DEF HubType
<1>5. Good(g)
  BY <1>4 DEF Good, Exact, Sum
<1>6. \A a : pending(g, a) <=> pending(h, a) /\ a # q.apn
  BY <1>4 DEF pending
<1> QED
  BY <1>4, <1>5, <1>6 DEF Ended

\* The same tunnels: nothing to show about them.
LEMMA SameTunnels ==
  ASSUME NEW g, NEW h, Settled(h), Good(g), g.tun = h.tun
  PROVE  Settled(g) /\ StaysVoid(g.tun, h.tun)
  BY DEF Settled, StaysVoid

\* What a live query says about the cache and the other queries.
LEMMA LiveQuery ==
  ASSUME Inv, NEW q \in queries, q.live
  PROVE  /\ q \in QueryType /\ q.apn \in Apns
         /\ Count(hub.resolved, Of(q.apn)) = 0
         /\ \A r \in queries : r.apn = q.apn /\ r.live => r = q
<1>1. q \in QueryType /\ q.apn \in Apns
  BY DEF Inv, QueryType
<1>2. pending(hub, q.apn)
  BY <1>1 DEF Inv, Supervised
<1> QED
  BY <1>1, <1>2 DEF Inv, Supervised

\* The query is repeated.
LEMMA LookupRetryStep ==
  ASSUME Inv, NEW q \in queries, LookupRetry(q) PROVE Preserved
<1> DEFINE q2 == [q EXCEPT !.have_3dig_mnc = TRUE]
<1>1. q.live /\ hub' = hub /\ status' = status /\ queries' = (queries \ {q}) \cup {q2}
  BY DEF LookupRetry, Resolving
<1>2. q \in QueryType /\ q.apn \in Apns /\ \A r \in queries : r.apn = q.apn /\ r.live => r = q
  BY <1>1, LiveQuery
<1>3. q2 \in QueryType /\ q2.apn = q.apn /\ q2.live = q.live
  BY <1>2 DEF QueryType
<1> HIDE DEF q2
<1>4. Settled(hub') /\ StaysVoid(hub'.tun, hub.tun) /\ queries' \subseteq QueryType /\ status' \in Statuses
  BY <1>1, <1>3 DEF Inv, StaysVoid
<1>5. Supervised(hub, queries)
  BY DEF Inv
<1>6. Supervised(hub', queries')
  <2>1. \A a \in Apns : pending(hub', a) <=> \E r \in queries' : r.apn = a /\ r.live
    <3>1. SUFFICES ASSUME NEW a \in Apns
                   PROVE  (\E r \in queries : r.apn = a /\ r.live) <=> (\E r \in queries' : r.apn = a /\ r.live)
      BY <1>1, <1>5 DEF Supervised
    <3>2. ASSUME NEW r \in queries, r.apn = a, r.live PROVE \E s \in queries' : s.apn = a /\ s.live
      BY <1>1, <1>3, <3>2
    <3>3. ASSUME NEW r \in queries', r.apn = a, r.live PROVE \E s \in queries : s.apn = a /\ s.live
      BY <1>1, <1>3, <3>3
    <3> QED
      BY <3>2, <3>3
  <2>2. \A r, s \in queries' : r.apn = s.apn /\ r.live /\ s.live => r = s
    BY <1>1, <1>2, <1>3, <1>5 DEF Supervised
  <2>3. \A a \in Apns : Count(hub'.resolved, Of(a)) <= 1 /\ (pending(hub', a) => Count(hub'.resolved, Of(a)) = 0)
    BY <1>1, <1>5 DEF Supervised
  <2> QED
    BY <2>1, <2>2, <2>3 DEF Supervised
<1> QED
  BY <1>4, <1>6 DEF Preserved

\* The queries once a lookup has ended.
LEMMA QueryDone ==
  ASSUME Inv, NEW q \in queries, q.live, NEW h, \A a : pending(h, a) <=> pending(hub, a) /\ a # q.apn,
         NEW Q, Q = queries \ {q},
         \A a \in Apns : Count(h.resolved, Of(a)) <= 1 /\ (a # q.apn => Count(h.resolved, Of(a)) = Count(hub.resolved, Of(a)))
  PROVE  Supervised(h, Q) /\ Q \subseteq QueryType
<1>1. q.apn \in Apns /\ \A r \in queries : r.apn = q.apn /\ r.live => r = q
  BY LiveQuery
<1>2. Supervised(hub, queries)
  BY DEF Inv
<1>3. \A a \in Apns : pending(h, a) <=> \E r \in Q : r.apn = a /\ r.live
  BY <1>1, <1>2 DEF Supervised
<1>4. \A r, s \in Q : r.apn = s.apn /\ r.live /\ s.live => r = s
  BY <1>2 DEF Supervised
<1>5. \A a \in Apns : pending(h, a) => Count(h.resolved, Of(a)) = 0
  BY <1>2 DEF Supervised
<1> QED
  BY <1>3, <1>4, <1>5 DEF Supervised, Inv

\* The query failed.
LEMMA LookupFailedStep ==
  ASSUME Inv, NEW q \in queries, LookupFailed(q) PROVE Preserved
<1>1. q.live /\ hub' = lookup_del(hub, q) /\ status' = status /\ queries' = queries \ {q}
  BY DEF LookupFailed, Resolving
<1>2. Good(hub) /\ Settled(hub) /\ Supervised(hub, queries) /\ status \in Statuses
  BY DEF Inv, Settled
<1>3. /\ Good(hub') /\ hub'.tun = hub.tun /\ hub'.resolved = hub.resolved
      /\ \A a : pending(hub', a) <=> pending(hub, a) /\ a # q.apn
  BY <1>1, <1>2, LookupDel DEF Ended
<1>4. Supervised(hub', queries') /\ queries' \subseteq QueryType
  <2>1. \A a \in Apns : Count(hub'.resolved, Of(a)) <= 1
                        /\ (a # q.apn => Count(hub'.resolved, Of(a)) = Count(hub.resolved, Of(a)))
    BY <1>2, <1>3 DEF Supervised
  <2> QED
    BY <1>1, <1>3, <2>1, QueryDone
<1>5. Settled(hub') /\ StaysVoid(hub'.tun, hub.tun)
  BY <1>2, <1>3, SameTunnels
<1> QED
  BY <1>1, <1>2, <1>4, <1>5 DEF Preserved

\* The query was answered.
LEMMA LookupResolvedStep ==
  ASSUME Inv, NEW q \in queries, NEW a \in Answers, LookupResolved(q, a) PROVE Preserved
<1> DEFINE h == resolved_ggsn(hub, q.apn, a)
<1>1. q.live /\ hub' = lookup_del(h, q) /\ status' = status /\ queries' = queries \ {q}
  BY DEF LookupResolved, Resolving
<1>2. Good(hub) /\ Settled(hub) /\ Supervised(hub, queries) /\ status \in Statuses /\ a \in Addrs
  BY HubAssumption DEF Inv, Settled
<1>3. q.apn \in Apns /\ Count(hub.resolved, Of(q.apn)) = 0
  BY <1>1, LiveQuery
<1>4. /\ Good(h) /\ h.tun = hub.tun /\ h.lookups = hub.lookups
      /\ \E r \in ResolvedType : r.apn = q.apn /\ h.resolved = <<r>> \o hub.resolved
  <2>1. Answered(h, hub, q.apn)
    BY <1>2, <1>3, ResolvedGgsn
  <2> HIDE DEF h
  <2> QED
    BY <2>1 DEF Answered
<1> HIDE DEF h
<1>5. /\ Good(hub') /\ hub'.tun = h.tun /\ hub'.resolved = h.resolved
      /\ \A b : pending(hub', b) <=> pending(h, b) /\ b # q.apn
  <2>1. Ended(hub', h, q.apn)
    BY <1>1, <1>4, LookupDel
  <2> QED
    BY <2>1 DEF Ended
<1>6. \A b : pending(hub', b) <=> pending(hub, b) /\ b # q.apn
  BY <1>4, <1>5 DEF pending
<1>7. PICK r \in ResolvedType : r.apn = q.apn /\ hub'.resolved = <<r>> \o hub.resolved
  BY <1>4, <1>5
<1>8. \A b \in Apns : Count(hub'.resolved, Of(b)) <= 1
                      /\ (b # q.apn => Count(hub'.resolved, Of(b)) = Count(hub.resolved, Of(b)))
  <2>1. SUFFICES ASSUME NEW b \in Apns
                 PROVE  Count(hub'.resolved, Of(b)) <= 1
                        /\ (b # q.apn => Count(hub'.resolved, Of(b)) = Count(hub.resolved, Of(b)))
    OBVIOUS
  <2>2. hub.resolved \in Seq(ResolvedType)
    BY <1>2, GoodFacts
  <2>3. Count(hub'.resolved, Of(b)) = Count(hub.resolved, Of(b)) + (IF r \in Of(b) THEN 1 ELSE 0)
    BY <1>7, <2>2, CountCons
  <2>4. r \in Of(b) <=> b = q.apn
    BY <1>7 DEF Of
  <2>5. Count(hub.resolved, Of(b)) \in Nat /\ Count(hub.resolved, Of(b)) <= 1
    BY <1>2, <2>2, CountType DEF Supervised
  <2> QED
    BY <1>3, <2>3, <2>4, <2>5
<1>9. Supervised(hub', queries') /\ queries' \subseteq QueryType
  BY <1>1, <1>6, <1>8, QueryDone
<1>10. Settled(hub') /\ StaysVoid(hub'.tun, hub.tun)
  BY <1>2, <1>4, <1>5, SameTunnels
<1> QED
  BY <1>1, <1>2, <1>9, <1>10 DEF Preserved
\* The clock.
LEMMA TickStep ==
  ASSUME Inv, Tick PROVE Preserved
<1>1. hub' = Aging(hub) /\ queries' = queries /\ status' = status
  BY DEF Tick
<1>2. Good(hub) /\ Settled(hub) /\ Supervised(hub, queries)
  BY DEF Inv, Settled
<1>3. /\ Good(hub') /\ DOMAIN hub'.tun = DOMAIN hub.tun
      /\ \A u \in DOMAIN hub.tun : hub'.tun[u].endpoint = hub.tun[u].endpoint /\ hub'.tun[u].tei_repl = hub.tun[u].tei_repl
      /\ DOMAIN hub'.resolved = DOMAIN hub.resolved
      /\ \A i \in DOMAIN hub.resolved : hub'.resolved[i].apn = hub.resolved[i].apn
      /\ \A a : pending(hub', a) <=> pending(hub, a)
  BY <1>1, <1>2, AgingGood
<1>4. ReplUnique(hub'.tun)
  <2>1. \A u \in DOMAIN hub.tun : Announced(hub'.tun, u) <=> Announced(hub.tun, u)
    BY <1>3 DEF Announced
  <2> QED
    BY <1>2, <1>3, <2>1 DEF ReplUnique, Settled
<1>5. AnnouncesTeis => PeersUnique(hub'.tun)
  BY <1>2, <1>3, ReusedSame DEF PeersUnique, Settled
<1>6. StaysVoid(hub'.tun, hub.tun)
  BY <1>3 DEF StaysVoid
<1>7. \A a : Count(hub'.resolved, Of(a)) = Count(hub.resolved, Of(a))
  <2>1. SUFFICES ASSUME NEW a PROVE Count(hub'.resolved, Of(a)) = Count(hub.resolved, Of(a))
    OBVIOUS
  <2>2. hub.resolved \in Seq(ResolvedType) /\ hub'.resolved \in Seq(ResolvedType)
    BY <1>2, <1>3, GoodFacts
  <2>3. \A i \in DOMAIN hub'.resolved : hub'.resolved[i] \in ResolvedType /\ hub.resolved[i] \in ResolvedType
    BY <1>3, <2>2
  <2>4. \A i \in DOMAIN hub'.resolved : hub'.resolved[i] \in Of(a) <=> hub.resolved[i] \in Of(a)
    BY <1>3, <2>3 DEF Of
  <2> QED
    BY <1>3, <2>4, CountSame
<1>8. Supervised(hub', queries')
  BY <1>1, <1>2, <1>3, <1>7 DEF Supervised
<1> QED
  BY <1>1, <1>3, <1>4, <1>5, <1>6, <1>8 DEF Inv, Preserved, Settled

\* Garbage collection.
LEMMA GcStep ==
  ASSUME Inv, gc PROVE Preserved
<1> DEFINE h == expiry_tick(hub)
           After(q) == [q EXCEPT !.live = @ /\ pending(h, q.apn)]
<1>1. hub' = gc_binds(h) /\ queries' = {After(q) : q \in queries} /\ status' = status
  BY DEF gc
<1>2. Good(hub) /\ Settled(hub) /\ Supervised(hub, queries) /\ queries \subseteq QueryType
  BY DEF Inv, Settled
<1>3. /\ Good(h) /\ DOMAIN h.tun \subseteq DOMAIN hub.tun
      /\ \A u \in DOMAIN h.tun : h.tun[u] = hub.tun[u]
      /\ h.lookups = {l \in hub.lookups : Unexpired(l)}
      /\ h.resolved = Kept(hub.resolved, Alive(hub.resolved))
  BY <1>2, ExpiryTick
<1> HIDE DEF h
<1>4. Good(hub') /\ hub'.tun = h.tun /\ Calm(hub', h)
  BY <1>1, <1>3, GcBinds
<1>5. Settled(hub') /\ StaysVoid(hub'.tun, hub.tun)
  BY <1>2, <1>3, <1>4, FewerSettled
<1>6. \A a : (pending(hub', a) <=> pending(h, a)) /\ (pending(h, a) => pending(hub, a))
  BY <1>3, <1>4 DEF Calm, pending
<1>7. ASSUME NEW q \in queries
      PROVE  /\ After(q) \in QueryType /\ After(q).apn = q.apn
             /\ After(q).live <=> q.live /\ pending(h, q.apn)
  <2>1. q \in QueryType
    BY <1>2
  <2> DEFINE b == q.live /\ pending(h, q.apn)
  <2>2. b \in BOOLEAN
    OBVIOUS
  <2>3. After(q) = [q EXCEPT !.live = b]
    OBVIOUS
  <2> HIDE DEF b, After
  <2>4. After(q) \in QueryType /\ After(q).apn = q.apn /\ After(q).live = b
    BY <2>1, <2>2, <2>3 DEF QueryType
  <2> QED
    BY <2>4 DEF b
<1> HIDE DEF After
<1>8. Supervised(hub', queries')
  <2>1. ASSUME NEW a \in Apns PROVE pending(hub', a) <=> \E r \in queries' : r.apn = a /\ r.live
    <3>1. ASSUME pending(hub', a) PROVE \E r \in queries' : r.apn = a /\ r.live
      <4>1. PICK q \in queries : q.apn = a /\ q.live
        BY <1>2, <1>6, <3>1 DEF Supervised
      <4>2. After(q).apn = a /\ After(q).live /\ After(q) \in queries'
        BY <1>1, <1>6, <1>7, <3>1, <4>1
      <4> QED
        BY <4>2
    <3>2. ASSUME NEW r \in queries', r.apn = a, r.live PROVE pending(hub', a)
      <4>1. PICK q \in queries : r = After(q)
        BY <1>1
      <4> QED
        BY <1>6, <1>7, <3>2, <4>1
    <3> QED
      BY <3>1, <3>2
  <2>2. ASSUME NEW r \in queries', NEW s \in queries', r.apn = s.apn, r.live, s.live PROVE r = s
    <3>1. PICK q \in queries : r = After(q)
      BY <1>1
    <3>2. PICK q2 \in queries : s = After(q2)
      BY <1>1
    <3>3. q.apn = q2.apn /\ q.live /\ q2.live
      BY <1>7, <2>2, <3>1, <3>2
    <3>4. q = q2
      BY <1>2, <3>3 DEF Supervised
    <3> QED
      BY <3>1, <3>2, <3>4
  <2>3. ASSUME NEW a \in Apns
        PROVE  Count(hub'.resolved, Of(a)) <= 1 /\ (pending(hub', a) => Count(hub'.resolved, Of(a)) = 0)
    <3> DEFINE S == Alive(hub.resolved)
    <3>1. hub.resolved \in Seq(ResolvedType) /\ hub'.resolved = Kept(hub.resolved, S)
      BY <1>2, <1>3, <1>4, GoodFacts DEF Calm
    <3> HIDE DEF S
    <3>2. Count(hub'.resolved, Of(a)) = CountIn(hub.resolved, Of(a), S)
      BY <3>1, CountKept DEF CountIn
    <3>3. Count(hub.resolved, Of(a)) = CountIn(hub.resolved, Of(a), S) + CountOut(hub.resolved, Of(a), S)
      BY <3>1, CountSplit
    <3>4. CountIn(hub.resolved, Of(a), S) \in Nat /\ CountOut(hub.resolved, Of(a), S) \in Nat
      BY <3>1, CountType DEF CountIn, CountOut
    <3>5. Count(hub.resolved, Of(a)) <= 1 /\ (pending(hub, a) => Count(hub.resolved, Of(a)) = 0)
      BY <1>2 DEF Supervised
    <3> QED
      BY <1>6, <3>2, <3>3, <3>4, <3>5
  <2> QED
    BY <2>1, <2>2, <2>3 DEF Supervised
<1>9. queries' \subseteq QueryType
  BY <1>1, <1>7
<1> QED
  BY <1>1, <1>5, <1>8, <1>9 DEF Inv, Preserved

\* Every step.
LEMMA NextStep ==
  ASSUME Inv, Next PROVE Preserved /\ setup' = setup
<1>1. ASSUME NEW p \in Setups[setup].packets, handle_buf(p) PROVE Preserved
  BY <1>1, HandleBuf
<1>2. ASSUME NEW q \in queries, ggsn_lookup_cb(q) PROVE Preserved
  <2>1. ASSUME NEW a \in Answers, LookupResolved(q, a) PROVE Preserved
    BY <2>1, LookupResolvedStep
  <2>2. ASSUME LookupStale(q) PROVE Preserved
    <3>1. Die("use after free") /\ "use after free" \in Statuses
      BY <2>2 DEF LookupStale, Statuses
    <3> QED
      BY <3>1, DieStep
  <2> QED
    BY <1>2, <2>1, <2>2, LookupRetryStep, LookupFailedStep DEF ggsn_lookup_cb
<1>3. ASSUME Restart PROVE Preserved
  <2>1. hub' = hub /\ queries' = queries /\ status' \in Statuses
    BY <1>3 DEF Restart, Statuses
  <2> QED
    BY <2>1 DEF Inv, Preserved, StaysVoid
<1> QED
  BY <1>1, <1>2, <1>3, TickStep, GcStep DEF Next

\* The invariant, in the next state.
LEMMA InvPrime ==
  ASSUME Inv, Preserved, setup' = setup PROVE Inv'
<1>1. AnnouncesTeis' <=> AnnouncesTeis
  BY DEF AnnouncesTeis
<1>2. Proxies' = Proxies
  BY DEF Proxies
<1>3. Good(hub)' <=> Good(hub')
  BY <1>2 DEF Good, Exact, Sum, RP
<1>4. Settled(hub)'
  BY <1>1, <1>3 DEF Settled, Preserved
<1> QED
  BY <1>4 DEF Inv, Preserved

\* The hub is in order in every reachable state.
THEOREM Invariance == Spec => []Inv
<1>1. Init => Inv
  <2>1. ASSUME Init PROVE Inv
    BY <2>1, StartGood DEF Init, Inv, Statuses
  <2> QED
    BY <2>1
<1>2. Inv /\ [Next]_vars => Inv'
  <2>1. ASSUME Inv, Next PROVE Inv'
    BY <2>1, NextStep, InvPrime
  <2>2. ASSUME Inv, UNCHANGED vars PROVE Inv'
    <3>1. Preserved /\ setup' = setup
      BY <2>2 DEF Inv, Preserved, StaysVoid, vars
    <3> QED
      BY <2>2, <3>1, InvPrime
  <2> QED
    BY <2>1, <2>2
<1> QED
  BY <1>1, <1>2, PTL DEF Spec
-----------------------------------------------------------------------------
(* What follows.                                                           *)

\* The variables keep their types; in particular a peer is known just while it has a port,
\* the list holds tunnels in memory only, and no reference count falls below zero.
THEOREM TypeCorrect == Spec => []TypeOK
<1>1. ASSUME Inv PROVE TypeOK
  <2>1. Good(hub) /\ setup \in DOMAIN Setups /\ queries \subseteq QueryType /\ status \in Statuses
    BY <1>1 DEF Inv, Settled
  <2>2. /\ hub.ports \in [DOMAIN hub.ports -> PortRec] /\ DOMAIN hub.ports \subseteq PortIds
        /\ hub.tun \in [DOMAIN hub.tun -> TunnelType] /\ DOMAIN hub.tun \subseteq TunIds
        /\ hub.seq_pool \in [DOMAIN hub.seq_pool -> 0..SeqMax]
        /\ hub.seq_map \in Seq(MappingType) /\ hub.resolved \in Seq(ResolvedType)
        /\ hub.tunnels \in Seq(TunIds) /\ hub.pending_deletes \in Seq(PendingType)
        /\ hub.lookups \subseteq LookupType /\ hub.tei_pool \in 1..TeiMax
        /\ Range(hub.tunnels) = DOMAIN hub.tun
        /\ \A x : Sum(hub, x) \in Nat
    BY <2>1, GoodFacts
  <2>3. DOMAIN hub.seq_pool = {PeerOf(pp) : pp \in DOMAIN hub.ports}
    BY <2>1 DEF Good
  <2>4. hub.ports \in [DOMAIN hub.ports -> [ref_count : Nat, last_restart_count : {-1} \cup 0..255]]
    <3>1. ASSUME NEW pp \in DOMAIN hub.ports
          PROVE  hub.ports[pp] \in [ref_count : Nat, last_restart_count : {-1} \cup 0..255]
      <4>1. hub.ports[pp].ref_count \in Nat
        BY <2>1, <2>2 DEF Good, Exact
      <4> QED
        BY <2>2, <4>1 DEF PortRec
    <3> QED
      BY <2>2, <3>1
  <2>5. hub.tunnels \in Seq(DOMAIN hub.tun)
    <3>1. hub.tunnels \in Seq(TunIds) /\ Range(hub.tunnels) = DOMAIN hub.tun
      BY <2>2
    <3>2. hub.tunnels \in [1..Len(hub.tunnels) -> DOMAIN hub.tun] /\ Len(hub.tunnels) \in Nat
      BY <3>1 DEF Range
    <3> QED
      BY <3>2
  <2> QED
    BY <2>1, <2>2, <2>3, <2>4, <2>5 DEF TypeOK
<1> QED
  BY <1>1, Invariance, PTL

\* A port's ref_count is the number of tunnels' endpoints, mappings, cache entries and proxy
\* settings that refer to it, and none of these refers to a freed port.
THEOREM RefCounts == Spec => []RefCountsExact
<1>1. ASSUME Inv PROVE RefCountsExact
  <2>1. Good(hub) /\ hub \in HubType
    BY <1>1, GoodFacts DEF Inv, Settled
  <2>2. \A pp : References(hub, pp) = Sum(hub, pp)
    BY <2>1, RefSum DEF Sum
  <2> QED
    BY <2>1, <2>2 DEF RefCountsExact, Good, Exact
<1> QED
  BY <1>1, Invariance, PTL

\* gtphub_check_mapped_tei never leaves two tunnels with announced TEIs and the same mapped
\* TEI, however often tei_pool wraps around.
THEOREM MappedTeisUnique == Spec => []TeiReplUnique
<1>1. ASSUME Inv PROVE TeiReplUnique
  BY <1>1 DEF Inv, Settled, ReplUnique, Announced, TeiReplUnique
<1> QED
  BY <1>1, Invariance, PTL

\* gtphub_check_reused_teis frees every tunnel with the TEI that a GSN announces again.
THEOREM PeerTeisUnique == Spec => []PeerTeiUnique
<1>1. ASSUME Inv PROVE PeerTeiUnique
  BY <1>1, ReusedDef DEF Inv, Settled, PeersUnique, PeerTeiUnique
<1> QED
  BY <1>1, Invariance, PTL

\* A lookup has one live query as long as it lasts, and an APN one cache entry or lookup.
THEOREM Lookups == Spec => []LookupsSupervised
<1>1. ASSUME Inv PROVE LookupsSupervised
  <2>1. SUFFICES ASSUME NEW a \in Apns
                 PROVE  LET live == {q \in queries : q.apn = a /\ q.live}
                            entries == {i \in DOMAIN hub.resolved : hub.resolved[i].apn = a}
                        IN  /\ Cardinality(live) = IF pending(hub, a) THEN 1 ELSE 0
                            /\ Cardinality(entries) + Cardinality(live) <= 1
    BY DEF LookupsSupervised
  <2> DEFINE live == {q \in queries : q.apn = a /\ q.live}
             entries == {i \in DOMAIN hub.resolved : hub.resolved[i].apn = a}
  <2>2. hub.resolved \in Seq(ResolvedType) /\ Supervised(hub, queries)
    BY <1>1, GoodFacts DEF Inv, Settled
  <2>3. Cardinality(entries) = Count(hub.resolved, Of(a)) /\ Cardinality(entries) \in Nat
    <3>1. entries = {i \in DOMAIN hub.resolved : hub.resolved[i] \in Of(a)}
      BY <2>2 DEF Of
    <3>2. Count(hub.resolved, Of(a)) \in Nat
      BY <2>2, CountType
    <3> HIDE DEF entries
    <3> QED
      BY <3>1, <3>2 DEF Count
  <2>4. CASE pending(hub, a)
    <3>1. PICK q \in queries : q.apn = a /\ q.live
      BY <2>2, <2>4 DEF Supervised
    <3>2. live = {q}
      BY <2>2, <3>1 DEF Supervised
    <3> HIDE DEF live, entries
    <3>3. Cardinality(live) = 1
      BY <3>2, FS_Singleton
    <3>4. Cardinality(entries) = 0
      BY <2>2, <2>3, <2>4 DEF Supervised
    <3> QED
      BY <2>4, <3>3, <3>4 DEF live, entries
  <2>5. CASE ~pending(hub, a)
    <3>1. live = {}
      BY <2>2, <2>5 DEF Supervised
    <3> HIDE DEF live, entries
    <3>2. Cardinality(live) = 0
      BY <3>1, FS_EmptySet
    <3>3. Cardinality(entries) <= 1
      BY <2>2, <2>3 DEF Supervised
    <3>4. Cardinality(entries) + Cardinality(live) <= 1
      BY <2>3, <3>2, <3>3
    <3> QED
      BY <2>5, <3>2, <3>4 DEF live, entries
  <2> QED
    BY <2>4, <2>5
<1> QED
  BY <1>1, Invariance, PTL

\* What a restart has voided gets no peer again: the only handler that sets the peers of a
\* tunnel on the list needs the sender to be the tunnel's peer.
THEOREM InvalidatedStays == Spec => InvalidatedForGood
<1>1. Inv /\ [Next]_vars =>
        [\A t \in (DOMAIN hub.tun) \cap (DOMAIN hub'.tun), s \in Sides :
           hub.tun[t].endpoint[s]["ctrl"].peer = NoPort
             => hub'.tun[t].endpoint[s] = hub.tun[t].endpoint[s]]_vars
  <2>1. ASSUME Inv, Next
        PROVE  \A t \in (DOMAIN hub.tun) \cap (DOMAIN hub'.tun), s \in Sides :
                 hub.tun[t].endpoint[s]["ctrl"].peer = NoPort
                   => hub'.tun[t].endpoint[s] = hub.tun[t].endpoint[s]
    <3>1. StaysVoid(hub'.tun, hub.tun)
      BY <2>1, NextStep DEF Preserved
    <3> QED
      BY <3>1 DEF StaysVoid
  <2> QED
    BY <2>1
<1> QED
  BY <1>1, Invariance, PTL DEF Spec, InvalidatedForGood
====
