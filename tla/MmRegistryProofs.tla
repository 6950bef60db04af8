-------------------------- MODULE MmRegistryProofs --------------------------
(***************************************************************************)
(* MmRegistry keeps its safety properties for all subscribers, P-TMSIs,    *)
(* TLLIs and connections, every amount of memory and any messages.         *)
(*                                                                         *)
(* The handlers are functions from registry to registry, so the invariant  *)
(* is a predicate Good(r, X) of a registry: the lists and hashes hold what *)
(* exists (Exact), identities are not shared, and every context outside X  *)
(* is settled.  X is the context a handler is dealing with: empty between  *)
(* two handlers, at most one context within one.  A change of that context *)
(* is Turned; the lemmas follow the order in which the handlers call each  *)
(* other, and those named ...Good end in a registry that is good again.    *)
(***************************************************************************)
EXTENDS MmRegistry, ListsProofs

-----------------------------------------------------------------------------
(* Lists and hashes.                                                       *)

\* What is left of a list without x.
LEMMA DropProperties ==
  ASSUME NEW X, NEW s \in Seq(X), NEW x
  PROVE  /\ Drop(s, x) \in Seq(X)
         /\ \A y : y \in Range(Drop(s, x)) <=> y \in Range(s) /\ y # x
         /\ IsInjective(s) => IsInjective(Drop(s, x))
<1> DEFINE S == Range(s) \ {x}
<1>1. Drop(s, x) = Kept(s, S)
  BY DEF Drop
<1>2. \A y : y \in S <=> y \in Range(s) /\ y # x
  OBVIOUS
<1> HIDE DEF S
<1> QED
  BY <1>1, <1>2, KeptProperties

\* A search finds an element when there is one.
LEMMA FirstProperties ==
  ASSUME NEW X, NEW s \in Seq(X), NEW S, None \notin X
  PROVE  /\ First(s, S) = None => \A y : ~(y \in Range(s) /\ y \in S)
         /\ First(s, S) # None => First(s, S) \in Range(s) /\ First(s, S) \in S /\ First(s, S) \in X
<1> DEFINE found == {n \in DOMAIN s : s[n] \in S}
<1>0. First(s, S) = IF found = {} THEN None ELSE s[Min(found)]
  BY DEF First
<1>1. CASE found = {}
  <2>1. First(s, S) = None
    BY <1>0, <1>1
  <2>2. \A y : ~(y \in Range(s) /\ y \in S)
    BY <1>1 DEF Range
  <2> QED
    BY <2>1, <2>2
<1>2. CASE found # {}
  <2>1. found \in SUBSET Nat
    OBVIOUS
  <2>2. \E n \in found : \A k \in found : n <= k
    BY <1>2, <2>1, NatMinimum
  <2>3. Min(found) \in found
    BY <2>2 DEF Min
  <2> HIDE DEF found
  <2>4. First(s, S) = s[Min(found)]
    BY <1>0, <1>2
  <2>5. Min(found) \in DOMAIN s /\ s[Min(found)] \in S
    BY <2>3 DEF found
  <2> DEFINE n == Min(found)
  <2> HIDE DEF n
  <2>6. n \in DOMAIN s /\ s[n] \in S /\ First(s, S) = s[n]
    BY <2>4, <2>5 DEF n
  <2> QED
    BY <2>6 DEF Range
<1> QED
  BY <1>1, <1>2

\* A hash over the keys K lists, under each of them, the contexts that have it.
HashOf(h, K, key) ==
  /\ h \in [K -> Seq(Ctxs)]
  /\ \A k \in K : IsInjective(h[k]) /\ \A c : c \in Range(h[k]) <=> c \in DOMAIN key /\ key[c] = k

\* A context that is removed from a hash is in none of its buckets; the others stay.
LEMMA HashDel ==
  ASSUME NEW h, NEW K, NEW key, HashOf(h, K, key), NEW c, NEW new,
         DOMAIN new = DOMAIN key \ {c}, \A d \in DOMAIN new : new[d] = key[d]
  PROVE  HashOf(hash_del(h, c), K, new)
<1> DEFINE g == hash_del(h, c)
<1>1. DOMAIN h = K /\ \A k \in K : h[k] \in Seq(Ctxs)
  BY DEF HashOf
<1>2. g = [k \in K |-> Drop(h[k], c)]
  BY <1>1 DEF hash_del
<1>3. ASSUME NEW k \in K
      PROVE  /\ g[k] \in Seq(Ctxs) /\ IsInjective(g[k])
             /\ \A d : d \in Range(g[k]) <=> d \in DOMAIN new /\ new[d] = k
  <2>1. g[k] = Drop(h[k], c)
    BY <1>2
  <2>2. IsInjective(h[k]) /\ \A d : d \in Range(h[k]) <=> d \in DOMAIN key /\ key[d] = k
    BY DEF HashOf
  <2>3. /\ Drop(h[k], c) \in Seq(Ctxs) /\ IsInjective(Drop(h[k], c))
        /\ \A d : d \in Range(Drop(h[k], c)) <=> d \in Range(h[k]) /\ d # c
    BY <1>1, <2>2, DropProperties
  <2> HIDE DEF g
  <2> QED
    BY <2>1, <2>2, <2>3
<1>4. g \in [K -> Seq(Ctxs)]
  BY <1>2, <1>3
<1> HIDE DEF g
<1> QED
  BY <1>3, <1>4 DEF HashOf, g

\* A context that is added to a hash is in the bucket of its new key only.
LEMMA HashAdd ==
  ASSUME NEW h, NEW K, NEW key, HashOf(h, K, key), NEW c \in Ctxs, NEW x, NEW new,
         DOMAIN new = DOMAIN key \cup {c}, new[c] = x, \A d \in DOMAIN key : d # c => new[d] = key[d]
  PROVE  HashOf(hash_add(h, c, x), K, new)
<1> DEFINE g == hash_add(h, c, x)
<1>1. DOMAIN h = K /\ \A k \in K : h[k] \in Seq(Ctxs)
  BY DEF HashOf
<1>2. g = [k \in K |-> IF k = x THEN <<c>> \o Drop(h[k], c) ELSE Drop(h[k], c)]
  BY <1>1 DEF hash_add
<1>3. ASSUME NEW k \in K
      PROVE  /\ g[k] \in Seq(Ctxs) /\ IsInjective(g[k])
             /\ \A d : d \in Range(g[k]) <=> d \in DOMAIN new /\ new[d] = k
  <2> DEFINE s == Drop(h[k], c)
  <2>1. g[k] = IF k = x THEN <<c>> \o s ELSE s
    BY <1>2
  <2>2. IsInjective(h[k]) /\ \A d : d \in Range(h[k]) <=> d \in DOMAIN key /\ key[d] = k
    BY DEF HashOf
  <2>3. s \in Seq(Ctxs) /\ IsInjective(s) /\ \A d : d \in Range(s) <=> d \in Range(h[k]) /\ d # c
    BY <1>1, <2>2, DropProperties
  <2> HIDE DEF s, g
  <2>4. CASE k = x
    <3> DEFINE t == <<c>> \o s
    <3>1. t \in Seq(Ctxs) /\ IsInjective(t) /\ \A d : d \in Range(t) <=> d = c \/ d \in Range(s)
      BY <2>3, ConsProperties
    <3>2. g[k] = t
      BY <2>1, <2>4
    <3> HIDE DEF t
    <3> QED
      BY <2>2, <2>3, <2>4, <3>1, <3>2
  <2>5. CASE k # x
    BY <2>1, <2>2, <2>3, <2>5
  <2> QED
    BY <2>4, <2>5
<1>4. g \in [K -> Seq(Ctxs)]
  BY <1>2, <1>3
<1> HIDE DEF g
<1> QED
  BY <1>3, <1>4 DEF HashOf, g

-----------------------------------------------------------------------------
(* The registry as a record.                                               *)

\* The functions from some elements of D to T.
Maps(D, T) == UNION {[S -> T] : S \in SUBSET D}

\* The type of the registry.
RegSet ==
  [status : Statuses, renamed : SUBSET Imsis, mm_list : Seq(Ctxs), mm : Maps(Ctxs, MmType),
   by_imsi : [Imsis -> Seq(Ctxs)],
   by_ptmsi : [Ptmsis -> Seq(Ctxs)], by_ptmsi_old : [Ptmsis -> Seq(Ctxs)],
   by_tlli : [Tllis -> Seq(Ctxs)], by_tlli_new : [Tllis -> Seq(Ctxs)],
   llmes : Seq(Llmes), llme : Maps(Llmes, LlmeType)]

\* The fields of the registry have their types.
LEMMA RegFields ==
  ASSUME NEW r \in RegSet
  PROVE  /\ r.status \in Statuses /\ r.renamed \in SUBSET Imsis /\ r.mm_list \in Seq(Ctxs)
         /\ r.mm \in Maps(Ctxs, MmType) /\ r.llmes \in Seq(Llmes) /\ r.llme \in Maps(Llmes, LlmeType)
         /\ r.by_imsi \in [Imsis -> Seq(Ctxs)]
         /\ r.by_ptmsi \in [Ptmsis -> Seq(Ctxs)] /\ r.by_ptmsi_old \in [Ptmsis -> Seq(Ctxs)]
         /\ r.by_tlli \in [Tllis -> Seq(Ctxs)] /\ r.by_tlli_new \in [Tllis -> Seq(Ctxs)]
  BY DEF RegSet

\* What it means to be a map from some of D to T.
LEMMA MapFacts ==
  ASSUME NEW D, NEW T, NEW f \in Maps(D, T)
  PROVE  DOMAIN f \subseteq D /\ f \in [DOMAIN f -> T] /\ \A x \in DOMAIN f : x \in D /\ f[x] \in T
  BY DEF Maps

\* A function on part of D is such a map.
LEMMA MapOf ==
  ASSUME NEW D, NEW T, NEW f, NEW S, f \in [S -> T], S \subseteq D
  PROVE  f \in Maps(D, T)
  BY DEF Maps

\* Every context is a context record at an address of Ctxs.
LEMMA MmMap ==
  ASSUME NEW r \in RegSet
  PROVE  DOMAIN r.mm \subseteq Ctxs /\ \A c \in DOMAIN r.mm : c \in Ctxs /\ r.mm[c] \in MmType
  BY RegFields, MapFacts

\* One context is replaced.
LEMMA SetMm ==
  ASSUME NEW r \in RegSet, NEW c \in DOMAIN r.mm, NEW m \in MmType
  PROVE  LET q == [r EXCEPT !.mm[c] = m]
         IN  /\ q \in RegSet
             /\ DOMAIN q.mm = DOMAIN r.mm /\ q.mm[c] = m
             /\ \A d \in DOMAIN r.mm : d # c => q.mm[d] = r.mm[d]
             /\ q.status = r.status /\ q.renamed = r.renamed /\ q.mm_list = r.mm_list
             /\ q.llmes = r.llmes /\ q.llme = r.llme
             /\ q.by_imsi = r.by_imsi /\ q.by_ptmsi = r.by_ptmsi /\ q.by_ptmsi_old = r.by_ptmsi_old
             /\ q.by_tlli = r.by_tlli /\ q.by_tlli_new = r.by_tlli_new
<1> DEFINE f == [r.mm EXCEPT ![c] = m]
<1>1. DOMAIN f = DOMAIN r.mm /\ f[c] = m /\ \A d \in DOMAIN r.mm : d # c => f[d] = r.mm[d]
  OBVIOUS
<1>2. f \in Maps(Ctxs, MmType)
  <2>1. r.mm \in [DOMAIN r.mm -> MmType] /\ DOMAIN r.mm \subseteq Ctxs
    BY RegFields, MapFacts
  <2>2. f \in [DOMAIN r.mm -> MmType]
    BY <2>1
  <2> QED
    BY <2>1, <2>2, MapOf
<1> DEFINE q == [r EXCEPT !.mm = f]
<1> HIDE DEF f
<1>3. /\ q \in RegSet /\ q.mm = f
      /\ q.status = r.status /\ q.renamed = r.renamed /\ q.mm_list = r.mm_list
      /\ q.llmes = r.llmes /\ q.llme = r.llme
      /\ q.by_imsi = r.by_imsi /\ q.by_ptmsi = r.by_ptmsi /\ q.by_ptmsi_old = r.by_ptmsi_old
      /\ q.by_tlli = r.by_tlli /\ q.by_tlli_new = r.by_tlli_new
  BY <1>2 DEF RegSet
<1>4. q = [r EXCEPT !.mm[c] = m]
  BY DEF f
<1> HIDE DEF q
<1> QED
  BY <1>1, <1>3, <1>4

\* The key under which a hash lists the contexts of f.
ImsiOf(f) == [c \in DOMAIN f |-> f[c].imsi]
PtmsiOf(f) == [c \in DOMAIN f |-> f[c].p_tmsi]
OldPtmsiOf(f) == [c \in DOMAIN f |-> f[c].p_tmsi_old]
TlliOf(f) == [c \in DOMAIN f |-> f[c].tlli]
NewTlliOf(f) == [c \in DOMAIN f |-> f[c].tlli_new]

\* The lists and the hashes hold the contexts and LLMEs that exist, and no others.
ListsExact(r) ==
  /\ IsInjective(r.mm_list) /\ \A c : c \in Range(r.mm_list) <=> c \in DOMAIN r.mm
  /\ \A l : l \in Range(r.llmes) <=> l \in DOMAIN r.llme
HashesExact(r) ==
  /\ HashOf(r.by_imsi, Imsis, ImsiOf(r.mm))
  /\ HashOf(r.by_ptmsi, Ptmsis, PtmsiOf(r.mm)) /\ HashOf(r.by_ptmsi_old, Ptmsis, OldPtmsiOf(r.mm))
  /\ HashOf(r.by_tlli, Tllis, TlliOf(r.mm)) /\ HashOf(r.by_tlli_new, Tllis, NewTlliOf(r.mm))
Exact(r) == r \in RegSet /\ ListsExact(r) /\ HashesExact(r)

\* f and g are the contexts before and after context c has become m.
Becomes(f, g, c, m) ==
  /\ DOMAIN g = DOMAIN f \cup {c} /\ g[c] = m
  /\ \A d \in DOMAIN f : d # c => g[d] = f[d]

\* Nothing moves when the key stays, and a key of no bucket adds nothing.
LEMMA HashStay ==
  ASSUME NEW h, NEW K, NEW key, HashOf(h, K, key), NEW c, NEW new,
         DOMAIN new = DOMAIN key \cup {c}, \A d \in DOMAIN key : d # c => new[d] = key[d],
         c \in DOMAIN key => new[c] = key[c],
         c \notin DOMAIN key => new[c] \notin K
  PROVE  HashOf(h, K, new)
  BY DEF HashOf

\* The hash h of the keys K has become k: c is added under the key x, or stays
\* under it, or is new and has no key.
Rehashed(h, k, K, c, D, x, y) ==
  \/ k = hash_add(h, c, y)
  \/ k = h /\ c \in D /\ x = y
  \/ k = h /\ c \notin D /\ y \notin K

\* Only the key of c changes.
Rekeyed(key, new, c) ==
  DOMAIN new = DOMAIN key \cup {c} /\ \A d \in DOMAIN key : d # c => new[d] = key[d]

\* A hash stays exact when one context changes its key and is rehashed.
LEMMA RehashedHash ==
  ASSUME NEW h, NEW k, NEW K, NEW key, NEW knew, NEW c \in Ctxs, HashOf(h, K, key),
         Rekeyed(key, knew, c), Rehashed(h, k, K, c, DOMAIN key, key[c], knew[c])
  PROVE  HashOf(k, K, knew)
<1>1. CASE k = hash_add(h, c, knew[c])
  BY <1>1, HashAdd DEF Rekeyed
<1>2. CASE k = h /\ c \in DOMAIN key /\ key[c] = knew[c]
  BY <1>2, HashStay DEF Rekeyed
<1>3. CASE k = h /\ c \notin DOMAIN key /\ knew[c] \notin K
  BY <1>3, HashStay DEF Rekeyed
<1> QED
  BY <1>1, <1>2, <1>3 DEF Rehashed

\* A context changes or is new, and the hashes follow.
LEMMA Reindexed ==
  ASSUME NEW r, Exact(r), NEW q \in RegSet, NEW c \in Ctxs, NEW m, Becomes(r.mm, q.mm, c, m),
         q.mm_list = IF c \in DOMAIN r.mm THEN r.mm_list ELSE <<c>> \o r.mm_list,
         q.llmes = r.llmes, DOMAIN q.llme = DOMAIN r.llme,
         Rehashed(r.by_imsi, q.by_imsi, Imsis, c, DOMAIN r.mm, r.mm[c].imsi, m.imsi),
         Rehashed(r.by_ptmsi, q.by_ptmsi, Ptmsis, c, DOMAIN r.mm, r.mm[c].p_tmsi, m.p_tmsi),
         Rehashed(r.by_ptmsi_old, q.by_ptmsi_old, Ptmsis, c, DOMAIN r.mm, r.mm[c].p_tmsi_old, m.p_tmsi_old),
         Rehashed(r.by_tlli, q.by_tlli, Tllis, c, DOMAIN r.mm, r.mm[c].tlli, m.tlli),
         Rehashed(r.by_tlli_new, q.by_tlli_new, Tllis, c, DOMAIN r.mm, r.mm[c].tlli_new, m.tlli_new)
  PROVE  Exact(q)
<1>1. ListsExact(q)
  <2>0. r \in RegSet /\ ListsExact(r)
    BY DEF Exact
  <2>1. r.mm_list \in Seq(Ctxs) /\ DOMAIN q.mm = DOMAIN r.mm \cup {c}
    BY <2>0, RegFields DEF Becomes
  <2>2. CASE c \notin DOMAIN r.mm
    <3> DEFINE t == <<c>> \o r.mm_list
    <3>0. q.mm_list = t
      BY <2>2
    <3>1. c \notin Range(r.mm_list) /\ IsInjective(r.mm_list)
      BY <2>0, <2>2 DEF ListsExact
    <3>2. IsInjective(t) /\ \A x : x \in Range(t) <=> x = c \/ x \in Range(r.mm_list)
      BY <2>1, <3>1, ConsProperties
    <3> HIDE DEF t
    <3> QED
      BY <2>0, <2>1, <3>0, <3>2 DEF ListsExact
  <2>3. CASE c \in DOMAIN r.mm
    BY <2>0, <2>1, <2>3 DEF ListsExact
  <2> QED
    BY <2>2, <2>3
<1>2. HashOf(q.by_imsi, Imsis, ImsiOf(q.mm))
  <2> DEFINE a == ImsiOf(r.mm)
             b == ImsiOf(q.mm)
  <2>1. DOMAIN a = DOMAIN r.mm /\ DOMAIN b = DOMAIN a \cup {c} /\ b[c] = m.imsi
    BY DEF Becomes, ImsiOf
  <2>2. Rekeyed(a, b, c)
    BY DEF Becomes, ImsiOf, Rekeyed
  <2>3. HashOf(r.by_imsi, Imsis, a)
    BY DEF Exact, HashesExact
  <2>4. c \in DOMAIN r.mm => a[c] = r.mm[c].imsi
    BY DEF ImsiOf
  <2>5. Rehashed(r.by_imsi, q.by_imsi, Imsis, c, DOMAIN a, a[c], b[c])
    BY <2>1, <2>4 DEF Rehashed
  <2> HIDE DEF a, b
  <2>6. HashOf(q.by_imsi, Imsis, b)
    BY <2>1, <2>2, <2>3, <2>5, RehashedHash
  <2> QED
    BY <2>6 DEF b
<1>3. HashOf(q.by_ptmsi, Ptmsis, PtmsiOf(q.mm))
  <2> DEFINE a == PtmsiOf(r.mm)
             b == PtmsiOf(q.mm)
  <2>1. DOMAIN a = DOMAIN r.mm /\ DOMAIN b = DOMAIN a \cup {c} /\ b[c] = m.p_tmsi
    BY DEF Becomes, PtmsiOf
  <2>2. Rekeyed(a, b, c)
    BY DEF Becomes, PtmsiOf, Rekeyed
  <2>3. HashOf(r.by_ptmsi, Ptmsis, a)
    BY DEF Exact, HashesExact
  <2>4. c \in DOMAIN r.mm => a[c] = r.mm[c].p_tmsi
    BY DEF PtmsiOf
  <2>5. Rehashed(r.by_ptmsi, q.by_ptmsi, Ptmsis, c, DOMAIN a, a[c], b[c])
    BY <2>1, <2>4 DEF Rehashed
  <2> HIDE DEF a, b
  <2>6. HashOf(q.by_ptmsi, Ptmsis, b)
    BY <2>1, <2>2, <2>3, <2>5, RehashedHash
  <2> QED
    BY <2>6 DEF b
<1>4. HashOf(q.by_ptmsi_old, Ptmsis, OldPtmsiOf(q.mm))
  <2> DEFINE a == OldPtmsiOf(r.mm)
             b == OldPtmsiOf(q.mm)
  <2>1. DOMAIN a = DOMAIN r.mm /\ DOMAIN b = DOMAIN a \cup {c} /\ b[c] = m.p_tmsi_old
    BY DEF Becomes, OldPtmsiOf
  <2>2. Rekeyed(a, b, c)
    BY DEF Becomes, OldPtmsiOf, Rekeyed
  <2>3. HashOf(r.by_ptmsi_old, Ptmsis, a)
    BY DEF Exact, HashesExact
  <2>4. c \in DOMAIN r.mm => a[c] = r.mm[c].p_tmsi_old
    BY DEF OldPtmsiOf
  <2>5. Rehashed(r.by_ptmsi_old, q.by_ptmsi_old, Ptmsis, c, DOMAIN a, a[c], b[c])
    BY <2>1, <2>4 DEF Rehashed
  <2> HIDE DEF a, b
  <2>6. HashOf(q.by_ptmsi_old, Ptmsis, b)
    BY <2>1, <2>2, <2>3, <2>5, RehashedHash
  <2> QED
    BY <2>6 DEF b
<1>5. HashOf(q.by_tlli, Tllis, TlliOf(q.mm))
  <2> DEFINE a == TlliOf(r.mm)
             b == TlliOf(q.mm)
  <2>1. DOMAIN a = DOMAIN r.mm /\ DOMAIN b = DOMAIN a \cup {c} /\ b[c] = m.tlli
    BY DEF Becomes, TlliOf
  <2>2. Rekeyed(a, b, c)
    BY DEF Becomes, TlliOf, Rekeyed
  <2>3. HashOf(r.by_tlli, Tllis, a)
    BY DEF Exact, HashesExact
  <2>4. c \in DOMAIN r.mm => a[c] = r.mm[c].tlli
    BY DEF TlliOf
  <2>5. Rehashed(r.by_tlli, q.by_tlli, Tllis, c, DOMAIN a, a[c], b[c])
    BY <2>1, <2>4 DEF Rehashed
  <2> HIDE DEF a, b
  <2>6. HashOf(q.by_tlli, Tllis, b)
    BY <2>1, <2>2, <2>3, <2>5, RehashedHash
  <2> QED
    BY <2>6 DEF b
<1>6. HashOf(q.by_tlli_new, Tllis, NewTlliOf(q.mm))
  <2> DEFINE a == NewTlliOf(r.mm)
             b == NewTlliOf(q.mm)
  <2>1. DOMAIN a = DOMAIN r.mm /\ DOMAIN b = DOMAIN a \cup {c} /\ b[c] = m.tlli_new
    BY DEF Becomes, NewTlliOf
  <2>2. Rekeyed(a, b, c)
    BY DEF Becomes, NewTlliOf, Rekeyed
  <2>3. HashOf(r.by_tlli_new, Tllis, a)
    BY DEF Exact, HashesExact
  <2>4. c \in DOMAIN r.mm => a[c] = r.mm[c].tlli_new
    BY DEF NewTlliOf
  <2>5. Rehashed(r.by_tlli_new, q.by_tlli_new, Tllis, c, DOMAIN a, a[c], b[c])
    BY <2>1, <2>4 DEF Rehashed
  <2> HIDE DEF a, b
  <2>6. HashOf(q.by_tlli_new, Tllis, b)
    BY <2>1, <2>2, <2>3, <2>5, RehashedHash
  <2> QED
    BY <2>6 DEF b
<1> QED
  BY <1>1, <1>2, <1>3, <1>4, <1>5, <1>6 DEF Exact, HashesExact

-----------------------------------------------------------------------------
(* The invariant.                                                          *)

\* Contexts share no P-TMSI, and an IMSI only if it is one of named.
PtmsiAlone(f) ==
  \A c, d \in DOMAIN f : c # d =>
    {f[c].p_tmsi, f[c].p_tmsi_old} \cap {f[d].p_tmsi, f[d].p_tmsi_old} \subseteq {None}
ImsiAlone(f, named) ==
  \A c, d \in DOMAIN f : c # d /\ f[c].imsi = f[d].imsi => f[c].imsi \in named \cup {None}
\* The contexts outside X share no Iu connection.
UeAlone(f, X) ==
  \A c, d \in DOMAIN f \ X :
    c # d /\ f[c].ran = "Iu" /\ f[d].ran = "Iu" /\ f[c].ue # None => f[d].ue # f[c].ue

\* A context between two handlers.
Settled(m) ==
  /\ m.ran = "Gb" => m.llme # None /\ m.tlli_new # None
  /\ m.ran = "Iu" => m.ue # Gone

\* The registry while a handler has still to settle the contexts X.
Good(r, X) ==
  /\ Exact(r) /\ PtmsiAlone(r.mm) /\ ImsiAlone(r.mm, r.renamed) /\ r.status # "null llme"
  /\ UeAlone(r.mm, X) /\ \A c \in DOMAIN r.mm \ X : Settled(r.mm[c])

Inv == arrived \in 0..MaxMessages /\ Good(reg, {})

\* What a context c may become without sharing an identity or a connection.
Fits(f, named, c, m) ==
  \A d \in DOMAIN f : d # c =>
    /\ {m.p_tmsi, m.p_tmsi_old} \cap {f[d].p_tmsi, f[d].p_tmsi_old} \subseteq {None}
    /\ f[d].imsi = m.imsi => m.imsi \in named \cup {None}
UeFits(f, c, m) ==
  \A d \in DOMAIN f : d # c /\ m.ran = "Iu" /\ f[d].ran = "Iu" /\ m.ue # None => f[d].ue # m.ue

\* What a good registry says of its parts.
LEMMA GoodFacts ==
  ASSUME NEW r, NEW X, Good(r, X)
  PROVE  /\ r \in RegSet /\ Exact(r) /\ DOMAIN r.mm \subseteq Ctxs
         /\ \A c \in DOMAIN r.mm : c \in Ctxs /\ r.mm[c] \in MmType
  BY MmMap DEF Good, Exact

\* The same identities as before fit.
LEMMA SameFits ==
  ASSUME NEW r, NEW X, Good(r, X), NEW c \in DOMAIN r.mm, NEW m,
         m.imsi = r.mm[c].imsi,
         {m.p_tmsi, m.p_tmsi_old} \subseteq {r.mm[c].p_tmsi, r.mm[c].p_tmsi_old, None}
  PROVE  Fits(r.mm, r.renamed, c, m)
  BY DEF Good, PtmsiAlone, ImsiAlone, Fits

\* A context changes, or is new, while a handler deals with it.
LEMMA GoodBecomes ==
  ASSUME NEW r, NEW X, Good(r, X), NEW c, X \subseteq {c}, NEW q, Exact(q), NEW m,
         Becomes(r.mm, q.mm, c, m), q.status = r.status, r.renamed \subseteq q.renamed,
         Fits(r.mm, q.renamed, c, m)
  PROVE  Good(q, {c})
<1> DEFINE f == r.mm
           g == q.mm
<1>1. DOMAIN g = DOMAIN f \cup {c} /\ g[c] = m /\ \A d \in DOMAIN f : d # c => g[d] = f[d]
  BY DEF Becomes
<1>2. PtmsiAlone(f) /\ ImsiAlone(f, r.renamed) /\ UeAlone(f, X) /\ \A d \in DOMAIN f \ X : Settled(f[d])
  BY DEF Good
<1>3. Fits(f, q.renamed, c, m)
  OBVIOUS
<1> HIDE DEF f, g
<1>4. PtmsiAlone(g)
  BY <1>1, <1>2, <1>3 DEF PtmsiAlone, Fits
<1>5. ImsiAlone(g, q.renamed)
  BY <1>1, <1>2, <1>3 DEF ImsiAlone, Fits
<1>6. UeAlone(g, {c})
  BY <1>1, <1>2 DEF UeAlone
<1>7. \A d \in DOMAIN g \ {c} : Settled(g[d])
  BY <1>1, <1>2
<1>8. q.status # "null llme"
  BY DEF Good
<1> QED
  BY <1>4, <1>5, <1>6, <1>7, <1>8 DEF Good, g

\* The handler is done with the context.
LEMMA GoodSettled ==
  ASSUME NEW r, NEW c, Good(r, {c}),
         c \in DOMAIN r.mm => Settled(r.mm[c]) /\ UeFits(r.mm, c, r.mm[c])
  PROVE  Good(r, {})
<1>1. UeAlone(r.mm, {})
  BY DEF Good, UeAlone, UeFits
<1>2. \A d \in DOMAIN r.mm \ {} : Settled(r.mm[d])
  BY DEF Good
<1> QED
  BY <1>1, <1>2 DEF Good

\* A handler starts to deal with a context, which is settled at that point.
LEMMA GoodWeaken ==
  ASSUME NEW r, NEW c, Good(r, {})
  PROVE  Good(r, {c}) /\ (c \in DOMAIN r.mm => Settled(r.mm[c]) /\ UeFits(r.mm, c, r.mm[c]))
  BY DEF Good, UeAlone, UeFits

\* A context that differs at most in the LLME, which has not become NULL.
Relinked(m, n) ==
  /\ n.imsi = m.imsi /\ n.p_tmsi = m.p_tmsi /\ n.p_tmsi_old = m.p_tmsi_old
  /\ n.tlli = m.tlli /\ n.tlli_new = m.tlli_new /\ n.ran = m.ran /\ n.ue = m.ue
  /\ n.llme = None => m.llme = None
Shrinks(f, g) == DOMAIN g \subseteq DOMAIN f /\ \A c \in DOMAIN g : Relinked(f[c], g[c])

\* A good registry stays good when contexts go or only their LLMEs change.
LEMMA GoodShrinks ==
  ASSUME NEW r, NEW X, Good(r, X), NEW q, Exact(q), Shrinks(r.mm, q.mm),
         q.status = r.status, q.renamed = r.renamed
  PROVE  Good(q, X)
<1> DEFINE f == r.mm
           g == q.mm
<1>1. DOMAIN g \subseteq DOMAIN f /\ \A c \in DOMAIN g : Relinked(f[c], g[c])
  BY DEF Shrinks
<1>2. PtmsiAlone(f) /\ ImsiAlone(f, r.renamed) /\ UeAlone(f, X) /\ \A d \in DOMAIN f \ X : Settled(f[d])
  BY DEF Good
<1> HIDE DEF f, g
<1>3. PtmsiAlone(g)
  BY <1>1, <1>2 DEF PtmsiAlone, Relinked
<1>4. ImsiAlone(g, q.renamed)
  BY <1>1, <1>2 DEF ImsiAlone, Relinked
<1>5. UeAlone(g, X)
  BY <1>1, <1>2 DEF UeAlone, Relinked
<1>6. \A d \in DOMAIN g \ X : Settled(g[d])
  BY <1>1, <1>2 DEF Settled, Relinked
<1>7. q.status # "null llme"
  BY DEF Good
<1> QED
  BY <1>3, <1>4, <1>5, <1>6, <1>7 DEF Good, g

\* The special values are different from one another and from everything else.
LEMMA Special ==
  /\ None \notin {Stray, Shared, Gone} /\ Stray # Shared /\ None \notin Tllis
  /\ None \notin Ctxs /\ None \notin Llmes /\ None \notin Imsis /\ None \notin Ptmsis
  /\ None \notin Ues /\ Gone \notin Ues /\ Stray \notin Llmes /\ Shared \notin Llmes
  BY RegistryAssumption

-----------------------------------------------------------------------------
(* Start and end of the process.                                           *)

\* The empty list.
LEMMA Nil ==
  ASSUME NEW S
  PROVE  <<>> \in Seq(S) /\ IsInjective(<<>>) /\ \A c : c \notin Range(<<>>)
  BY DEF IsInjective, Range

\* The hashes of no contexts.
LEMMA NoHash ==
  ASSUME NEW K, NEW key, DOMAIN key = {}
  PROVE  HashOf([k \in K |-> <<>>], K, key)
<1>1. <<>> \in Seq(Ctxs) /\ IsInjective(<<>>) /\ \A c : c \notin Range(<<>>)
  BY Nil
<1> QED
  BY <1>1 DEF HashOf

\* A process that has ended, for any reason but a NULL LLME, leaves a good registry.
LEMMA EmptyGood ==
  ASSUME NEW why \in Statuses, why # "null llme", NEW X
  PROVE  Good(Dead(why), X) /\ Dead(why).status = why
<1> DEFINE q == Dead(why)
           f == [c \in {} |-> 0]
           e1 == [i \in Imsis |-> <<>>]
           e2 == [p \in Ptmsis |-> <<>>]
           e3 == [t \in Tllis |-> <<>>]
<1>1. f \in Maps(Ctxs, MmType) /\ f \in Maps(Llmes, LlmeType) /\ DOMAIN f = {}
  <2>1. f \in [{} -> MmType] /\ f \in [{} -> LlmeType]
    OBVIOUS
  <2> QED
    BY <2>1, MapOf
<1>2. IsInjective(<<>>) /\ \A c : c \notin Range(<<>>)
  BY Nil
<1>3. <<>> \in Seq(Ctxs) /\ <<>> \in Seq(Llmes)
  BY Nil
<1>10. e1 \in [Imsis -> Seq(Ctxs)] /\ e2 \in [Ptmsis -> Seq(Ctxs)] /\ e3 \in [Tllis -> Seq(Ctxs)]
  BY <1>3
<1>11. Boot = [status |-> "up", renamed |-> {}, mm_list |-> <<>>, mm |-> f, by_imsi |-> e1,
               by_ptmsi |-> e2, by_ptmsi_old |-> e2, by_tlli |-> e3, by_tlli_new |-> e3,
               llmes |-> <<>>, llme |-> f]
  BY DEF Boot
<1>12. q = [Boot EXCEPT !.status = why]
  BY DEF Dead
<1> HIDE DEF f, q, e1, e2, e3
<1>4. /\ q \in RegSet /\ q.mm = f /\ q.llme = f /\ q.mm_list = <<>> /\ q.llmes = <<>> /\ q.status = why
      /\ q.by_imsi = e1 /\ q.by_ptmsi = e2 /\ q.by_ptmsi_old = e2 /\ q.by_tlli = e3 /\ q.by_tlli_new = e3
  BY <1>1, <1>3, <1>10, <1>11, <1>12 DEF RegSet, Statuses
<1>5. ListsExact(q)
  BY <1>1, <1>2, <1>4 DEF ListsExact
<1>6. /\ DOMAIN ImsiOf(f) = {} /\ DOMAIN PtmsiOf(f) = {} /\ DOMAIN OldPtmsiOf(f) = {}
      /\ DOMAIN TlliOf(f) = {} /\ DOMAIN NewTlliOf(f) = {}
  BY <1>1 DEF ImsiOf, PtmsiOf, OldPtmsiOf, TlliOf, NewTlliOf
<1>8. HashesExact(q)
  <2>1. HashOf(e1, Imsis, ImsiOf(f)) /\ HashOf(e2, Ptmsis, PtmsiOf(f)) /\ HashOf(e2, Ptmsis, OldPtmsiOf(f))
        /\ HashOf(e3, Tllis, TlliOf(f)) /\ HashOf(e3, Tllis, NewTlliOf(f))
    BY <1>6, NoHash DEF e1, e2, e3
  <2> QED
    BY <1>4, <2>1 DEF HashesExact
<1>9. PtmsiAlone(q.mm) /\ ImsiAlone(q.mm, q.renamed) /\ UeAlone(q.mm, X) /\ \A c \in DOMAIN q.mm \ X : Settled(q.mm[c])
  BY <1>1, <1>4 DEF PtmsiAlone, ImsiAlone, UeAlone
<1> QED
  BY <1>4, <1>5, <1>8, <1>9 DEF Good, Exact, q

\* So does one that has just been started.
LEMMA BootGood == Good(Boot, {}) /\ Boot.status = "up"
<1>1. Dead("up") = Boot
  <2>1. \A a, b, c, d, e, f, g, h, i, j : 
     LET r == [status |-> "up", renamed |-> a, mm_list |-> b, mm |-> c, by_imsi |-> d,
               by_ptmsi |-> e, by_ptmsi_old |-> f, by_tlli |-> g, by_tlli_new |-> h,
               llmes |-> i, llme |-> j]
     IN [r EXCEPT !.status = "up"] = r
    OBVIOUS
  <2> QED BY <2>1 DEF Boot, Dead
<1>2. "up" \in Statuses /\ "up" # "null llme"
  BY DEF Statuses
<1>3. Good(Dead("up"), {}) /\ Dead("up").status = "up"
  BY <1>2, EmptyGood
<1> QED
  BY <1>1, <1>3

-----------------------------------------------------------------------------
(* Freeing contexts and LLMEs.                                             *)

\* sgsn_mm_ctx_unlink: the context leaves the list and the five hashes, and nothing else changes.
LEMMA Unlinked ==
  ASSUME NEW r, Exact(r), NEW c \in DOMAIN r.mm
  PROVE  LET q == sgsn_mm_ctx_unlink(r, c)
         IN  /\ Exact(q) /\ q.status = r.status /\ q.renamed = r.renamed /\ q.llme = r.llme
             /\ DOMAIN q.mm = DOMAIN r.mm \ {c} /\ \A d \in DOMAIN q.mm : q.mm[d] = r.mm[d]
<1> DEFINE q == sgsn_mm_ctx_unlink(r, c)
           f == [d \in DOMAIN r.mm \ {c} |-> r.mm[d]]
           s == Drop(r.mm_list, c)
<1>0. r \in RegSet /\ ListsExact(r) /\ HashesExact(r)
  BY DEF Exact
<1>1. f \in Maps(Ctxs, MmType) /\ DOMAIN f = DOMAIN r.mm \ {c} /\ \A d \in DOMAIN f : f[d] = r.mm[d]
  <2>1. \A d \in DOMAIN r.mm : d \in Ctxs /\ r.mm[d] \in MmType
    BY <1>0, MmMap
  <2>2. f \in [DOMAIN r.mm \ {c} -> MmType] /\ DOMAIN r.mm \ {c} \subseteq Ctxs
    BY <2>1
  <2>3. f \in Maps(Ctxs, MmType)
    BY <2>2, MapOf
  <2> QED
    BY <2>3
<1>2. s \in Seq(Ctxs) /\ IsInjective(s) /\ \A x : x \in Range(s) <=> x \in Range(r.mm_list) /\ x # c
  BY <1>0, RegFields, DropProperties DEF ListsExact
<1> DEFINE a1 == hash_del(r.by_imsi, c)
           a2 == hash_del(r.by_ptmsi, c)
           a3 == hash_del(r.by_ptmsi_old, c)
           a4 == hash_del(r.by_tlli, c)
           a5 == hash_del(r.by_tlli_new, c)
<1>3. q = [r EXCEPT !.by_imsi = a1, !.by_ptmsi = a2, !.by_ptmsi_old = a3, !.by_tlli = a4,
                    !.by_tlli_new = a5, !.mm_list = s, !.mm = f]
  BY DEF sgsn_mm_ctx_unlink
<1>4. HashOf(a1, Imsis, ImsiOf(f))
  <2>1. HashOf(r.by_imsi, Imsis, ImsiOf(r.mm)) /\ DOMAIN ImsiOf(f) = DOMAIN ImsiOf(r.mm) \ {c}
        /\ \A d \in DOMAIN ImsiOf(f) : ImsiOf(f)[d] = ImsiOf(r.mm)[d]
    BY <1>0, <1>1 DEF HashesExact, ImsiOf
  <2> QED
    BY <2>1, HashDel
<1>5. HashOf(a2, Ptmsis, PtmsiOf(f))
  <2>1. HashOf(r.by_ptmsi, Ptmsis, PtmsiOf(r.mm)) /\ DOMAIN PtmsiOf(f) = DOMAIN PtmsiOf(r.mm) \ {c}
        /\ \A d \in DOMAIN PtmsiOf(f) : PtmsiOf(f)[d] = PtmsiOf(r.mm)[d]
    BY <1>0, <1>1 DEF HashesExact, PtmsiOf
  <2> QED
    BY <2>1, HashDel
<1>6. HashOf(a3, Ptmsis, OldPtmsiOf(f))
  <2>1. HashOf(r.by_ptmsi_old, Ptmsis, OldPtmsiOf(r.mm)) /\ DOMAIN OldPtmsiOf(f) = DOMAIN OldPtmsiOf(r.mm) \ {c}
        /\ \A d \in DOMAIN OldPtmsiOf(f) : OldPtmsiOf(f)[d] = OldPtmsiOf(r.mm)[d]
    BY <1>0, <1>1 DEF HashesExact, OldPtmsiOf
  <2> QED
    BY <2>1, HashDel
<1>7. HashOf(a4, Tllis, TlliOf(f))
  <2>1. HashOf(r.by_tlli, Tllis, TlliOf(r.mm)) /\ DOMAIN TlliOf(f) = DOMAIN TlliOf(r.mm) \ {c}
        /\ \A d \in DOMAIN TlliOf(f) : TlliOf(f)[d] = TlliOf(r.mm)[d]
    BY <1>0, <1>1 DEF HashesExact, TlliOf
  <2> QED
    BY <2>1, HashDel
<1>8. HashOf(a5, Tllis, NewTlliOf(f))
  <2>1. HashOf(r.by_tlli_new, Tllis, NewTlliOf(r.mm)) /\ DOMAIN NewTlliOf(f) = DOMAIN NewTlliOf(r.mm) \ {c}
        /\ \A d \in DOMAIN NewTlliOf(f) : NewTlliOf(f)[d] = NewTlliOf(r.mm)[d]
    BY <1>0, <1>1 DEF HashesExact, NewTlliOf
  <2> QED
    BY <2>1, HashDel
<1>9. /\ a1 \in [Imsis -> Seq(Ctxs)] /\ a2 \in [Ptmsis -> Seq(Ctxs)] /\ a3 \in [Ptmsis -> Seq(Ctxs)]
      /\ a4 \in [Tllis -> Seq(Ctxs)] /\ a5 \in [Tllis -> Seq(Ctxs)]
  BY <1>4, <1>5, <1>6, <1>7, <1>8 DEF HashOf
<1> HIDE DEF a1, a2, a3, a4, a5, s, f, q
<1>10. /\ q \in RegSet /\ q.status = r.status /\ q.renamed = r.renamed /\ q.llme = r.llme
       /\ q.llmes = r.llmes /\ q.mm = f /\ q.mm_list = s
       /\ q.by_imsi = a1 /\ q.by_ptmsi = a2 /\ q.by_ptmsi_old = a3 /\ q.by_tlli = a4 /\ q.by_tlli_new = a5
  BY <1>0, <1>1, <1>2, <1>3, <1>9 DEF RegSet
<1>11. ListsExact(q)
  BY <1>0, <1>1, <1>2, <1>10 DEF ListsExact
<1>12. HashesExact(q)
  BY <1>4, <1>5, <1>6, <1>7, <1>8, <1>10 DEF HashesExact
<1> QED
  BY <1>1, <1>10, <1>11, <1>12 DEF Exact, q

\* The fields of a context have their types, and may be set within them.
LEMMA MmFields == \A m \in MmType :
  /\ m.imsi \in Imsis \cup {None} /\ m.p_tmsi \in Ptmsis \cup {None} /\ m.p_tmsi_old \in Ptmsis \cup {None}
  /\ m.tlli \in Tllis \cup {None} /\ m.tlli_new \in Tllis \cup {None} /\ m.ra \in Ras /\ m.ran \in {"Gb", "Iu"}
  /\ m.llme \in Llmes \cup {None, Stray, Shared} /\ m.ue \in Ues \cup {None, Gone}
  BY DEF MmType

\* The states of a context have their types.
LEMMA MmStates == \A m \in MmType :
  /\ m.gmm \in {"deregistered", "common_proc_init", "registered"} /\ m.asked \in BOOLEAN
  /\ m.mm \in {"idle", "ready"} /\ m.pmm \in {"detached", "connected", "idle"}
  BY DEF MmType

\* A field of a context may be set to any value of its type.
LEMMA MmSet == \A m \in MmType :
  /\ \A x \in {"Gb", "Iu"} : [m EXCEPT !.ran = x] \in MmType
  /\ \A x \in Ras : [m EXCEPT !.ra = x] \in MmType
  /\ \A x \in Llmes \cup {None, Stray, Shared} : [m EXCEPT !.llme = x] \in MmType
  /\ \A x \in Ues \cup {None, Gone} : [m EXCEPT !.ue = x] \in MmType
  /\ \A x \in Tllis \cup {None} : [m EXCEPT !.tlli = x] \in MmType
  /\ \A x \in Ptmsis \cup {None} : [m EXCEPT !.p_tmsi = x] \in MmType
  /\ \A x \in Ptmsis \cup {None} : [m EXCEPT !.p_tmsi_old = x] \in MmType
  /\ \A x \in Imsis \cup {None} : [m EXCEPT !.imsi = x] \in MmType
  /\ \A x \in {"deregistered", "common_proc_init", "registered"} : [m EXCEPT !.gmm = x] \in MmType
  /\ \A x \in {"idle", "ready"} : [m EXCEPT !.mm = x] \in MmType
  /\ \A x \in {"detached", "connected", "idle"} : [m EXCEPT !.pmm = x] \in MmType
  /\ \A x \in BOOLEAN : [m EXCEPT !.asked = x] \in MmType
  BY SMTT(30) DEF MmType

\* Two sets of contexts with the same keys.
SameKeys(f, g) ==
  /\ DOMAIN g = DOMAIN f
  /\ \A c \in DOMAIN f :
       /\ g[c].imsi = f[c].imsi /\ g[c].p_tmsi = f[c].p_tmsi /\ g[c].p_tmsi_old = f[c].p_tmsi_old
       /\ g[c].tlli = f[c].tlli /\ g[c].tlli_new = f[c].tlli_new

\* The hashes stay exact when no key changes.
LEMMA ExactSameKeys ==
  ASSUME NEW r, Exact(r), NEW q \in RegSet, SameKeys(r.mm, q.mm), q.mm_list = r.mm_list,
         \A l : l \in Range(q.llmes) <=> l \in DOMAIN q.llme,
         q.by_imsi = r.by_imsi, q.by_ptmsi = r.by_ptmsi, q.by_ptmsi_old = r.by_ptmsi_old,
         q.by_tlli = r.by_tlli, q.by_tlli_new = r.by_tlli_new
  PROVE  Exact(q)
<1> DEFINE f == r.mm
           g == q.mm
<1>0. SameKeys(f, g)
  OBVIOUS
<1> HIDE DEF f, g
<1>1. ImsiOf(g) = ImsiOf(f) /\ PtmsiOf(g) = PtmsiOf(f) /\ OldPtmsiOf(g) = OldPtmsiOf(f)
  BY <1>0 DEF SameKeys, ImsiOf, PtmsiOf, OldPtmsiOf
<1>2. TlliOf(g) = TlliOf(f) /\ NewTlliOf(g) = NewTlliOf(f)
  BY <1>0 DEF SameKeys, TlliOf, NewTlliOf
<1>3. DOMAIN q.mm = DOMAIN r.mm
  BY DEF SameKeys
<1>4. ListsExact(q)
  BY <1>3 DEF Exact, ListsExact
<1>5. HashesExact(q)
  BY <1>1, <1>2 DEF Exact, HashesExact, f, g
<1> QED
  BY <1>4, <1>5 DEF Exact

\* An LLME is freed.
LEMMA LlmeFreed ==
  ASSUME NEW r, Exact(r), NEW l \in DOMAIN r.llme, NEW how \in {Stray, Shared}
  PROVE  LET q == llme_free(r, l, how)
         IN  /\ Exact(q) /\ q.status = r.status /\ q.renamed = r.renamed
             /\ DOMAIN q.mm = DOMAIN r.mm /\ Shrinks(r.mm, q.mm)
             /\ \A c \in DOMAIN r.mm : r.mm[c].llme # l => q.mm[c] = r.mm[c]
<1> DEFINE q == llme_free(r, l, how)
           f == [c \in DOMAIN r.mm |-> IF r.mm[c].llme = l THEN [r.mm[c] EXCEPT !.llme = how] ELSE r.mm[c]]
           g == [k \in DOMAIN r.llme \ {l} |-> r.llme[k]]
           s == Drop(r.llmes, l)
<1>0. r \in RegSet /\ ListsExact(r) /\ HashesExact(r)
  BY DEF Exact
<1>1. q = [r EXCEPT !.llmes = s, !.llme = g, !.mm = f]
  BY DEF llme_free
<1>2. s \in Seq(Llmes) /\ \A x : x \in Range(s) <=> x \in Range(r.llmes) /\ x # l
  BY <1>0, RegFields, DropProperties
<1>3. g \in Maps(Llmes, LlmeType) /\ DOMAIN g = DOMAIN r.llme \ {l}
  <2>1. r.llme \in [DOMAIN r.llme -> LlmeType] /\ DOMAIN r.llme \subseteq Llmes
    BY <1>0, RegFields, MapFacts
  <2>2. g \in [DOMAIN r.llme \ {l} -> LlmeType] /\ DOMAIN r.llme \ {l} \subseteq Llmes
    BY <2>1
  <2>3. g \in Maps(Llmes, LlmeType)
    BY <2>2, MapOf
  <2> QED
    BY <2>3
<1>4. ASSUME NEW c \in DOMAIN r.mm
      PROVE  f[c] \in MmType /\ Relinked(r.mm[c], f[c]) /\ (r.mm[c].llme # l => f[c] = r.mm[c])
  <2> DEFINE m == r.mm[c]
             n == [m EXCEPT !.llme = how]
  <2>1. m \in MmType
    BY <1>0, MmMap
  <2>2. f[c] = IF m.llme = l THEN n ELSE m
    OBVIOUS
  <2> HIDE DEF m
  <2>3. n \in MmType /\ Relinked(m, n)
    BY <2>1, Special DEF MmType, Relinked
  <2>4. Relinked(m, m)
    BY DEF Relinked
  <2> HIDE DEF n, f
  <2>5. f[c] \in MmType /\ Relinked(m, f[c]) /\ (m.llme # l => f[c] = m)
    BY <2>1, <2>2, <2>3, <2>4
  <2> QED
    BY <2>5 DEF m
<1>5. DOMAIN f = DOMAIN r.mm
  OBVIOUS
<1>6. f \in Maps(Ctxs, MmType)
  <2>1. f \in [DOMAIN r.mm -> MmType] /\ DOMAIN r.mm \subseteq Ctxs
    BY <1>0, <1>4, MmMap
  <2> QED
    BY <2>1, MapOf
<1> HIDE DEF f, g, s, q
<1>7. /\ q \in RegSet /\ q.status = r.status /\ q.renamed = r.renamed /\ q.mm_list = r.mm_list
      /\ q.llmes = s /\ q.llme = g /\ q.mm = f
      /\ q.by_imsi = r.by_imsi /\ q.by_ptmsi = r.by_ptmsi /\ q.by_ptmsi_old = r.by_ptmsi_old
      /\ q.by_tlli = r.by_tlli /\ q.by_tlli_new = r.by_tlli_new
  BY <1>0, <1>1, <1>2, <1>3, <1>6 DEF RegSet
<1>8. SameKeys(r.mm, f) /\ Shrinks(r.mm, f)
  BY <1>4, <1>5 DEF SameKeys, Shrinks, Relinked
<1>9. \A x : x \in Range(q.llmes) <=> x \in DOMAIN q.llme
  BY <1>0, <1>2, <1>3, <1>7 DEF ListsExact
<1>10. Exact(q)
  BY <1>7, <1>8, <1>9, ExactSameKeys
<1> QED
  BY <1>4, <1>5, <1>7, <1>8, <1>10 DEF q

\* What using an LLME pointer that is not NULL comes to.
LEMMA WithLlmeGood ==
  ASSUME NEW r, NEW l, l # None, NEW used, NEW X, l \in DOMAIN r.llme => Good(used, X)
  PROVE  Good(WithLlme(r, l, used), X)
<1>1. "use after free" \in Statuses /\ "use after free" # "null llme"
  BY DEF Statuses
<1>2. Good(Dead("use after free"), X)
  BY <1>1, EmptyGood
<1> QED
  BY <1>2 DEF WithLlme

\* LLGMM-UNASSIGN keeps the invariant.
LEMMA UnassignGood ==
  ASSUME NEW r, NEW X, Good(r, X), NEW l, l # None, NEW how \in {Stray, Shared}
  PROVE  Good(gprs_llgmm_unassign(r, l, how), X)
<1>1. ASSUME l \in DOMAIN r.llme PROVE Good(llme_free(r, l, how), X)
  <2> DEFINE q == llme_free(r, l, how)
  <2>1. Exact(q) /\ q.status = r.status /\ q.renamed = r.renamed /\ Shrinks(r.mm, q.mm)
    BY <1>1, LlmeFreed DEF Good
  <2> HIDE DEF q
  <2>2. Good(q, X)
    BY <2>1, GoodShrinks
  <2> QED
    BY <2>2 DEF q
<1> QED
  BY <1>1, WithLlmeGood DEF gprs_llgmm_unassign

\* Freeing a context keeps the invariant; a context that is not settled may go as well.
LEMMA CleanupGood ==
  ASSUME NEW r, NEW c \in DOMAIN r.mm, NEW X, Good(r, X), X \subseteq {c}
  PROVE  Good(cleanup_free(r, c), {})
<1> DEFINE m == r.mm[c]
           q == sgsn_mm_ctx_unlink(r, c)
<1>1. Good(q, {})
  <2>1. Exact(q) /\ q.status = r.status /\ q.renamed = r.renamed
        /\ DOMAIN q.mm = DOMAIN r.mm \ {c} /\ \A d \in DOMAIN q.mm : q.mm[d] = r.mm[d]
    BY Unlinked DEF Good
  <2> HIDE DEF q
  <2>2. Shrinks(r.mm, q.mm)
    BY <2>1 DEF Shrinks, Relinked
  <2>3. Good(q, X)
    BY <2>1, <2>2, GoodShrinks
  <2>4. DOMAIN q.mm \ X = DOMAIN q.mm
    BY <2>1
  <2> QED
    BY <2>3, <2>4 DEF Good, UeAlone
<1>2. Good(Dead("assert llme"), {})
  BY EmptyGood DEF Statuses
<1>3. m.llme # None => Good(gprs_llgmm_unassign(q, m.llme, Shared), {})
  BY <1>1, UnassignGood
<1> QED
  BY <1>1, <1>2, <1>3 DEF cleanup_free

\* So does the rejection of a request.
LEMMA RejectedGood ==
  ASSUME NEW r, Good(r, {}), NEW c, c # None => c \in DOMAIN r.mm, NEW l
  PROVE  Good(Rejected(r, c, l), {})
<1>1. c # None => Good(cleanup_free(r, c), {})
  BY CleanupGood
<1>2. l # None => Good(gprs_llgmm_unassign(r, l, Stray), {})
  BY UnassignGood
<1> QED
  BY <1>1, <1>2 DEF Rejected

-----------------------------------------------------------------------------
(* Looking a context up.                                                   *)

\* The first match in a bucket is a context with its key, and there is one if a context has it.
LEMMA Bucket ==
  ASSUME NEW h, NEW K, NEW key, HashOf(h, K, key), NEW k \in K, NEW S,
         \A c \in DOMAIN key : key[c] = k => c \in S
  PROVE  /\ First(h[k], S) # None => First(h[k], S) \in DOMAIN key /\ key[First(h[k], S)] = k
                                     /\ First(h[k], S) \in S
         /\ First(h[k], S) = None => \A c \in DOMAIN key : key[c] # k
<1>1. h[k] \in Seq(Ctxs) /\ \A c : c \in Range(h[k]) <=> c \in DOMAIN key /\ key[c] = k
  BY DEF HashOf
<1>2. None \notin Ctxs
  BY Special
<1>3. /\ First(h[k], S) = None => \A y : ~(y \in Range(h[k]) /\ y \in S)
      /\ First(h[k], S) # None => First(h[k], S) \in Range(h[k]) /\ First(h[k], S) \in S
  BY <1>1, <1>2, FirstProperties
<1> DEFINE x == First(h[k], S)
<1> HIDE DEF x
<1>4. /\ x = None => \A y : ~(y \in Range(h[k]) /\ y \in S)
      /\ x # None => x \in Range(h[k]) /\ x \in S
  BY <1>3 DEF x
<1>5. /\ x # None => x \in DOMAIN key /\ key[x] = k /\ x \in S
      /\ x = None => \A c \in DOMAIN key : key[c] # k
  BY <1>1, <1>4
<1> QED
  BY <1>5 DEF x

\* sgsn_mm_ctx_by_imsi finds a context of the subscriber if there is one.
LEMMA ByImsi ==
  ASSUME NEW r, Exact(r), NEW i \in Imsis
  PROVE  LET c == by_imsi(r, i)
         IN  /\ c # None => c \in DOMAIN r.mm /\ r.mm[c].imsi = i
             /\ c = None => \A d \in DOMAIN r.mm : r.mm[d].imsi # i
<1> DEFINE S == {c \in DOMAIN r.mm : r.mm[c].imsi = i}
           key == ImsiOf(r.mm)
<1>1. HashOf(r.by_imsi, Imsis, key)
  BY DEF Exact, HashesExact
<1>2. DOMAIN key = DOMAIN r.mm /\ \A c \in DOMAIN r.mm : key[c] = r.mm[c].imsi
  BY DEF ImsiOf
<1>3. \A c \in DOMAIN key : key[c] = i => c \in S
  BY <1>2
<1> DEFINE c == by_imsi(r, i)
<1>4. c = First(r.by_imsi[i], S)
  BY DEF by_imsi
<1> HIDE DEF S, key, c
<1>5. /\ c # None => c \in DOMAIN key /\ key[c] = i
      /\ c = None => \A d \in DOMAIN key : key[d] # i
  BY <1>1, <1>3, <1>4, Bucket
<1> QED
  BY <1>2, <1>5 DEF c

\* sgsn_mm_ctx_by_ptmsi finds nothing only if no context has the P-TMSI, as new or old one.
LEMMA ByPtmsi ==
  ASSUME NEW r, Exact(r), NEW p \in Ptmsis
  PROVE  LET c == by_ptmsi(r, p)
         IN  /\ c # None => c \in DOMAIN r.mm
             /\ c = None => \A d \in DOMAIN r.mm : r.mm[d].p_tmsi # p /\ r.mm[d].p_tmsi_old # p
<1> DEFINE S == {c \in DOMAIN r.mm : r.mm[c].p_tmsi = p}
           T == {c \in DOMAIN r.mm : r.mm[c].p_tmsi_old = p}
           key == PtmsiOf(r.mm)
           old == OldPtmsiOf(r.mm)
<1>1. HashOf(r.by_ptmsi, Ptmsis, key) /\ HashOf(r.by_ptmsi_old, Ptmsis, old)
  BY DEF Exact, HashesExact
<1>2. /\ DOMAIN key = DOMAIN r.mm /\ \A c \in DOMAIN r.mm : key[c] = r.mm[c].p_tmsi
      /\ DOMAIN old = DOMAIN r.mm /\ \A c \in DOMAIN r.mm : old[c] = r.mm[c].p_tmsi_old
  BY DEF PtmsiOf, OldPtmsiOf
<1>3. /\ \A c \in DOMAIN key : key[c] = p => c \in S
      /\ \A c \in DOMAIN old : old[c] = p => c \in T
  BY <1>2
<1> DEFINE x == First(r.by_ptmsi[p], S)
           y == First(r.by_ptmsi_old[p], T)
<1>4. by_ptmsi(r, p) = OrElse(x, y)
  BY DEF by_ptmsi
<1> HIDE DEF S, T, key, old
<1>5. /\ x # None => x \in DOMAIN key
      /\ x = None => \A d \in DOMAIN key : key[d] # p
  BY <1>1, <1>3, Bucket
<1>6. /\ y # None => y \in DOMAIN old
      /\ y = None => \A d \in DOMAIN old : old[d] # p
  BY <1>1, <1>3, Bucket
<1> HIDE DEF x, y
<1> QED
  BY <1>2, <1>4, <1>5, <1>6 DEF OrElse

\* The same for a mobile identity of either kind.
LEMMA ByMi ==
  ASSUME NEW r, Exact(r), NEW mi \in Imsis \cup Ptmsis
  PROVE  LET c == by_mi(r, mi)
         IN  /\ c # None => c \in DOMAIN r.mm
             /\ c = None /\ mi \in Imsis => \A d \in DOMAIN r.mm : r.mm[d].imsi # mi
             /\ c = None /\ mi \notin Imsis =>
                  \A d \in DOMAIN r.mm : r.mm[d].p_tmsi # mi /\ r.mm[d].p_tmsi_old # mi
<1>1. CASE mi \in Imsis
  BY <1>1, ByImsi DEF by_mi
<1>2. CASE mi \notin Imsis
  BY <1>2, ByPtmsi DEF by_mi
<1> QED
  BY <1>1, <1>2

\* A search through the list of contexts.
LEMMA Searched ==
  ASSUME NEW r, Exact(r), NEW S
  PROVE  /\ First(r.mm_list, S) # None => First(r.mm_list, S) \in DOMAIN r.mm /\ First(r.mm_list, S) \in S
         /\ First(r.mm_list, S) = None => \A d \in DOMAIN r.mm : d \notin S
<1>1. r.mm_list \in Seq(Ctxs) /\ \A c : c \in Range(r.mm_list) <=> c \in DOMAIN r.mm
  BY RegFields DEF Exact, ListsExact
<1>2. None \notin Ctxs
  BY Special
<1> DEFINE x == First(r.mm_list, S)
<1>3. /\ x = None => \A y : ~(y \in Range(r.mm_list) /\ y \in S)
      /\ x # None => x \in Range(r.mm_list) /\ x \in S
  BY <1>1, <1>2, FirstProperties
<1> HIDE DEF x
<1>4. (x # None => x \in DOMAIN r.mm /\ x \in S) /\ (x = None => \A d \in DOMAIN r.mm : d \notin S)
  BY <1>1, <1>3
<1> QED
  BY <1>4 DEF x

\* sgsn_mm_ctx_by_ue_ctx finds a context on the connection if there is one.
LEMMA ByUe ==
  ASSUME NEW r, Exact(r), NEW u
  PROVE  LET c == by_ue_ctx(r, u)
         IN  /\ c # None => c \in DOMAIN r.mm /\ r.mm[c].ran = "Iu" /\ r.mm[c].ue = u
             /\ c = None => \A d \in DOMAIN r.mm : r.mm[d].ran = "Iu" => r.mm[d].ue # u
<1> DEFINE S == {c \in DOMAIN r.mm : r.mm[c].ran = "Iu" /\ r.mm[c].ue = u}
           c == by_ue_ctx(r, u)
<1>1. \A d : d \in S <=> d \in DOMAIN r.mm /\ r.mm[d].ran = "Iu" /\ r.mm[d].ue = u
  OBVIOUS
<1>2. c = First(r.mm_list, S)
  BY DEF by_ue_ctx
<1> HIDE DEF S, c
<1>3. (c # None => c \in DOMAIN r.mm /\ c \in S) /\ (c = None => \A d \in DOMAIN r.mm : d \notin S)
  BY <1>2, Searched
<1> QED
  BY <1>1, <1>3 DEF c

\* The other look-ups give contexts that exist.
LEMMA ByOthers ==
  ASSUME NEW r, Exact(r), NEW t \in Tllis, NEW ra, NEW l
  PROVE  /\ by_llme(r, l) # None => by_llme(r, l) \in DOMAIN r.mm
         /\ by_tlli_and_ptmsi(r, t, ra) # None => by_tlli_and_ptmsi(r, t, ra) \in DOMAIN r.mm
         /\ by_tlli(r, t, ra) # None => by_tlli(r, t, ra) \in DOMAIN r.mm
<1>1. by_llme(r, l) # None => by_llme(r, l) \in DOMAIN r.mm
  BY Searched DEF by_llme
<1>2. by_tlli_and_ptmsi(r, t, ra) # None => by_tlli_and_ptmsi(r, t, ra) \in DOMAIN r.mm
  BY Searched DEF by_tlli_and_ptmsi
<1>3. by_tlli(r, t, ra) # None => by_tlli(r, t, ra) \in DOMAIN r.mm
  <2> DEFINE here == {c \in DOMAIN r.mm : r.mm[c].ra = ra /\ t \in {r.mm[c].tlli, r.mm[c].tlli_new}}
             x == First(r.by_tlli[t], here)
             y == First(r.by_tlli_new[t], here)
  <2>1. \A c \in here : c \in DOMAIN r.mm
    OBVIOUS
  <2>2. by_tlli(r, t, ra) = OrElse(x, y)
    BY DEF by_tlli
  <2>3. r.by_tlli[t] \in Seq(Ctxs) /\ r.by_tlli_new[t] \in Seq(Ctxs) /\ None \notin Ctxs
    BY RegFields, Special DEF Exact
  <2> HIDE DEF here
  <2>4. (x # None => x \in here) /\ (y # None => y \in here)
    BY <2>3, FirstProperties
  <2> HIDE DEF x, y
  <2> QED
    BY <2>1, <2>2, <2>4 DEF OrElse
<1> QED
  BY <1>1, <1>2, <1>3

-----------------------------------------------------------------------------
(* Changing a context.                                                     *)

\* Registry q is registry r after context c has become m, and a handler that
\* deals with c goes on.
Turned(r, q, c, m) ==
  /\ Good(q, {c}) /\ Becomes(r.mm, q.mm, c, m) /\ c \in DOMAIN q.mm
  /\ q.status = r.status /\ r.renamed \subseteq q.renamed

\* The same identities.
LEMMA TurnSame ==
  ASSUME NEW r, NEW X, Good(r, X), NEW c \in DOMAIN r.mm, X \subseteq {c}, NEW m \in MmType,
         m.imsi = r.mm[c].imsi, m.p_tmsi = r.mm[c].p_tmsi, m.p_tmsi_old = r.mm[c].p_tmsi_old,
         m.tlli = r.mm[c].tlli, m.tlli_new = r.mm[c].tlli_new
  PROVE  Turned(r, [r EXCEPT !.mm[c] = m], c, m)
<1> DEFINE q == [r EXCEPT !.mm[c] = m]
<1>0. Exact(r) /\ r \in RegSet /\ c \in Ctxs
  BY GoodFacts
<1>1. /\ q \in RegSet
      /\ DOMAIN q.mm = DOMAIN r.mm /\ q.mm[c] = m
      /\ \A d \in DOMAIN r.mm : d # c => q.mm[d] = r.mm[d]
      /\ q.status = r.status /\ q.renamed = r.renamed /\ q.mm_list = r.mm_list
      /\ q.llmes = r.llmes /\ q.llme = r.llme
      /\ q.by_imsi = r.by_imsi /\ q.by_ptmsi = r.by_ptmsi /\ q.by_ptmsi_old = r.by_ptmsi_old
      /\ q.by_tlli = r.by_tlli /\ q.by_tlli_new = r.by_tlli_new
  BY <1>0, SetMm
<1> HIDE DEF q
<1>2. Becomes(r.mm, q.mm, c, m)
  BY <1>1 DEF Becomes
<1>3. Exact(q)
  <2>1. SameKeys(r.mm, q.mm)
    BY <1>1 DEF SameKeys
  <2>2. \A l : l \in Range(q.llmes) <=> l \in DOMAIN q.llme
    BY <1>0, <1>1 DEF Exact, ListsExact
  <2> QED
    BY <1>0, <1>1, <2>1, <2>2, ExactSameKeys
<1>4. Fits(r.mm, q.renamed, c, m)
  BY <1>1, SameFits
<1>5. Good(q, {c})
  BY <1>1, <1>2, <1>3, <1>4, GoodBecomes
<1> QED
  BY <1>1, <1>2, <1>5 DEF Turned, q

\* The context of a hash with a new key for it.
LEMMA AddType ==
  ASSUME NEW h, NEW K, h \in [K -> Seq(Ctxs)], NEW c \in Ctxs, NEW x
  PROVE  hash_add(h, c, x) \in [K -> Seq(Ctxs)]
<1>1. DOMAIN h = K /\ \A k \in K : h[k] \in Seq(Ctxs)
  OBVIOUS
<1>2. ASSUME NEW k \in K PROVE Drop(h[k], c) \in Seq(Ctxs) /\ <<c>> \o Drop(h[k], c) \in Seq(Ctxs)
  <2> DEFINE s == Drop(h[k], c)
  <2>1. s \in Seq(Ctxs)
    BY <1>1, DropProperties
  <2> HIDE DEF s
  <2>2. <<c>> \o s \in Seq(Ctxs)
    BY <2>1, ConsProperties
  <2> QED
    BY <2>1, <2>2 DEF s
<1> QED
  BY <1>1, <1>2 DEF hash_add

\* What rehashing by IMSI leaves alone.
LEMMA RehashImsi ==
  ASSUME NEW r \in RegSet, NEW c \in DOMAIN r.mm
  PROVE  LET q == rehash_imsi(r, c)
         IN  /\ q \in RegSet /\ q.mm = r.mm
             /\ q.status = r.status /\ q.renamed = r.renamed /\ q.mm_list = r.mm_list
             /\ q.llmes = r.llmes /\ q.llme = r.llme
             /\ q.by_imsi = hash_add(r.by_imsi, c, r.mm[c].imsi)
             /\ q.by_ptmsi = r.by_ptmsi /\ q.by_ptmsi_old = r.by_ptmsi_old
             /\ q.by_tlli = r.by_tlli /\ q.by_tlli_new = r.by_tlli_new
<1> DEFINE a == hash_add(r.by_imsi, c, r.mm[c].imsi)
<1>1. a \in [Imsis -> Seq(Ctxs)]
  BY AddType, RegFields, MmMap
<1>2. rehash_imsi(r, c) = [r EXCEPT !.by_imsi = a]
  BY DEF rehash_imsi
<1> HIDE DEF a
<1>3. LET q == [r EXCEPT !.by_imsi = a]
      IN  /\ q \in RegSet /\ q.mm = r.mm
          /\ q.status = r.status /\ q.renamed = r.renamed /\ q.mm_list = r.mm_list
          /\ q.llmes = r.llmes /\ q.llme = r.llme /\ q.by_imsi = a
          /\ q.by_ptmsi = r.by_ptmsi /\ q.by_ptmsi_old = r.by_ptmsi_old
          /\ q.by_tlli = r.by_tlli /\ q.by_tlli_new = r.by_tlli_new
  BY <1>1 DEF RegSet
<1> QED
  BY <1>2, <1>3 DEF a

\* What rehashing by P-TMSI leaves alone.
LEMMA RehashPtmsi ==
  ASSUME NEW r \in RegSet, NEW c \in DOMAIN r.mm
  PROVE  LET q == rehash_ptmsi(r, c)
         IN  /\ q \in RegSet /\ q.mm = r.mm
             /\ q.status = r.status /\ q.renamed = r.renamed /\ q.mm_list = r.mm_list
             /\ q.llmes = r.llmes /\ q.llme = r.llme /\ q.by_imsi = r.by_imsi
             /\ q.by_ptmsi = hash_add(r.by_ptmsi, c, r.mm[c].p_tmsi)
             /\ q.by_ptmsi_old = hash_add(r.by_ptmsi_old, c, r.mm[c].p_tmsi_old)
             /\ q.by_tlli = r.by_tlli /\ q.by_tlli_new = r.by_tlli_new
<1> DEFINE a == hash_add(r.by_ptmsi, c, r.mm[c].p_tmsi)
           b == hash_add(r.by_ptmsi_old, c, r.mm[c].p_tmsi_old)
<1>1. a \in [Ptmsis -> Seq(Ctxs)] /\ b \in [Ptmsis -> Seq(Ctxs)]
  BY AddType, RegFields, MmMap
<1>2. rehash_ptmsi(r, c) = [r EXCEPT !.by_ptmsi = a, !.by_ptmsi_old = b]
  BY DEF rehash_ptmsi
<1> HIDE DEF a, b
<1>3. LET q == [r EXCEPT !.by_ptmsi = a, !.by_ptmsi_old = b]
      IN  /\ q \in RegSet /\ q.mm = r.mm
          /\ q.status = r.status /\ q.renamed = r.renamed /\ q.mm_list = r.mm_list
          /\ q.llmes = r.llmes /\ q.llme = r.llme /\ q.by_imsi = r.by_imsi
          /\ q.by_ptmsi = a /\ q.by_ptmsi_old = b
          /\ q.by_tlli = r.by_tlli /\ q.by_tlli_new = r.by_tlli_new
  BY <1>1 DEF RegSet
<1> QED
  BY <1>2, <1>3 DEF a, b

\* What rehashing by TLLI leaves alone.
LEMMA RehashTlli ==
  ASSUME NEW r \in RegSet, NEW c \in DOMAIN r.mm
  PROVE  LET q == rehash_tlli(r, c)
         IN  /\ q \in RegSet /\ q.mm = r.mm
             /\ q.status = r.status /\ q.renamed = r.renamed /\ q.mm_list = r.mm_list
             /\ q.llmes = r.llmes /\ q.llme = r.llme /\ q.by_imsi = r.by_imsi
             /\ q.by_ptmsi = r.by_ptmsi /\ q.by_ptmsi_old = r.by_ptmsi_old
             /\ q.by_tlli = hash_add(r.by_tlli, c, r.mm[c].tlli)
             /\ q.by_tlli_new = hash_add(r.by_tlli_new, c, r.mm[c].tlli_new)
<1> DEFINE a == hash_add(r.by_tlli, c, r.mm[c].tlli)
           b == hash_add(r.by_tlli_new, c, r.mm[c].tlli_new)
<1>1. a \in [Tllis -> Seq(Ctxs)] /\ b \in [Tllis -> Seq(Ctxs)]
  BY AddType, RegFields, MmMap
<1>2. rehash_tlli(r, c) = [r EXCEPT !.by_tlli = a, !.by_tlli_new = b]
  BY DEF rehash_tlli
<1> HIDE DEF a, b
<1>3. LET q == [r EXCEPT !.by_tlli = a, !.by_tlli_new = b]
      IN  /\ q \in RegSet /\ q.mm = r.mm
          /\ q.status = r.status /\ q.renamed = r.renamed /\ q.mm_list = r.mm_list
          /\ q.llmes = r.llmes /\ q.llme = r.llme /\ q.by_imsi = r.by_imsi
          /\ q.by_ptmsi = r.by_ptmsi /\ q.by_ptmsi_old = r.by_ptmsi_old
          /\ q.by_tlli = a /\ q.by_tlli_new = b
  BY <1>1 DEF RegSet
<1> QED
  BY <1>2, <1>3 DEF a, b

\* New TLLIs.
LEMMA TurnTlli ==
  ASSUME NEW r, NEW X, Good(r, X), NEW c \in DOMAIN r.mm, X \subseteq {c}, NEW m \in MmType,
         m.imsi = r.mm[c].imsi, m.p_tmsi = r.mm[c].p_tmsi, m.p_tmsi_old = r.mm[c].p_tmsi_old
  PROVE  Turned(r, rehash_tlli([r EXCEPT !.mm[c] = m], c), c, m)
<1> DEFINE p == [r EXCEPT !.mm[c] = m]
           q == rehash_tlli(p, c)
<1>0. Exact(r) /\ r \in RegSet /\ c \in Ctxs
  BY GoodFacts
<1>1. /\ p \in RegSet
      /\ DOMAIN p.mm = DOMAIN r.mm /\ p.mm[c] = m
      /\ \A d \in DOMAIN r.mm : d # c => p.mm[d] = r.mm[d]
      /\ p.status = r.status /\ p.renamed = r.renamed /\ p.mm_list = r.mm_list
      /\ p.llmes = r.llmes /\ p.llme = r.llme
      /\ p.by_imsi = r.by_imsi /\ p.by_ptmsi = r.by_ptmsi /\ p.by_ptmsi_old = r.by_ptmsi_old
      /\ p.by_tlli = r.by_tlli /\ p.by_tlli_new = r.by_tlli_new
  BY <1>0, SetMm
<1> HIDE DEF p
<1>2. /\ q \in RegSet /\ q.mm = p.mm
      /\ q.status = p.status /\ q.renamed = p.renamed /\ q.mm_list = p.mm_list
      /\ q.llmes = p.llmes /\ q.llme = p.llme /\ q.by_imsi = p.by_imsi
      /\ q.by_ptmsi = p.by_ptmsi /\ q.by_ptmsi_old = p.by_ptmsi_old
      /\ q.by_tlli = hash_add(p.by_tlli, c, p.mm[c].tlli)
      /\ q.by_tlli_new = hash_add(p.by_tlli_new, c, p.mm[c].tlli_new)
  BY <1>1, RehashTlli
<1> HIDE DEF q
<1>3. Becomes(r.mm, q.mm, c, m)
  BY <1>1, <1>2 DEF Becomes
<1>4. /\ Rehashed(r.by_imsi, q.by_imsi, Imsis, c, DOMAIN r.mm, r.mm[c].imsi, m.imsi)
      /\ Rehashed(r.by_ptmsi, q.by_ptmsi, Ptmsis, c, DOMAIN r.mm, r.mm[c].p_tmsi, m.p_tmsi)
      /\ Rehashed(r.by_ptmsi_old, q.by_ptmsi_old, Ptmsis, c, DOMAIN r.mm, r.mm[c].p_tmsi_old, m.p_tmsi_old)
      /\ Rehashed(r.by_tlli, q.by_tlli, Tllis, c, DOMAIN r.mm, r.mm[c].tlli, m.tlli)
      /\ Rehashed(r.by_tlli_new, q.by_tlli_new, Tllis, c, DOMAIN r.mm, r.mm[c].tlli_new, m.tlli_new)
  BY <1>1, <1>2 DEF Rehashed
<1>5. Exact(q)
  BY <1>0, <1>1, <1>2, <1>3, <1>4, Reindexed
<1>6. Fits(r.mm, q.renamed, c, m)
  BY <1>1, <1>2, SameFits
<1>7. Good(q, {c})
  BY <1>1, <1>2, <1>3, <1>5, <1>6, GoodBecomes
<1> QED
  BY <1>1, <1>2, <1>3, <1>7 DEF Turned, p, q

\* New P-TMSIs.
LEMMA TurnPtmsi ==
  ASSUME NEW r, NEW X, Good(r, X), NEW c \in DOMAIN r.mm, X \subseteq {c}, NEW m \in MmType,
         m.imsi = r.mm[c].imsi, m.tlli = r.mm[c].tlli, m.tlli_new = r.mm[c].tlli_new,
         Fits(r.mm, r.renamed, c, m)
  PROVE  Turned(r, rehash_ptmsi([r EXCEPT !.mm[c] = m], c), c, m)
<1> DEFINE p == [r EXCEPT !.mm[c] = m]
           q == rehash_ptmsi(p, c)
<1>0. Exact(r) /\ r \in RegSet /\ c \in Ctxs
  BY GoodFacts
<1>1. /\ p \in RegSet
      /\ DOMAIN p.mm = DOMAIN r.mm /\ p.mm[c] = m
      /\ \A d \in DOMAIN r.mm : d # c => p.mm[d] = r.mm[d]
      /\ p.status = r.status /\ p.renamed = r.renamed /\ p.mm_list = r.mm_list
      /\ p.llmes = r.llmes /\ p.llme = r.llme
      /\ p.by_imsi = r.by_imsi /\ p.by_ptmsi = r.by_ptmsi /\ p.by_ptmsi_old = r.by_ptmsi_old
      /\ p.by_tlli = r.by_tlli /\ p.by_tlli_new = r.by_tlli_new
  BY <1>0, SetMm
<1> HIDE DEF p
<1>2. /\ q \in RegSet /\ q.mm = p.mm
      /\ q.status = p.status /\ q.renamed = p.renamed /\ q.mm_list = p.mm_list
      /\ q.llmes = p.llmes /\ q.llme = p.llme /\ q.by_imsi = p.by_imsi
      /\ q.by_ptmsi = hash_add(p.by_ptmsi, c, p.mm[c].p_tmsi)
      /\ q.by_ptmsi_old = hash_add(p.by_ptmsi_old, c, p.mm[c].p_tmsi_old)
      /\ q.by_tlli = p.by_tlli /\ q.by_tlli_new = p.by_tlli_new
  BY <1>1, RehashPtmsi
<1> HIDE DEF q
<1>3. Becomes(r.mm, q.mm, c, m)
  BY <1>1, <1>2 DEF Becomes
<1>4. /\ Rehashed(r.by_imsi, q.by_imsi, Imsis, c, DOMAIN r.mm, r.mm[c].imsi, m.imsi)
      /\ Rehashed(r.by_ptmsi, q.by_ptmsi, Ptmsis, c, DOMAIN r.mm, r.mm[c].p_tmsi, m.p_tmsi)
      /\ Rehashed(r.by_ptmsi_old, q.by_ptmsi_old, Ptmsis, c, DOMAIN r.mm, r.mm[c].p_tmsi_old, m.p_tmsi_old)
      /\ Rehashed(r.by_tlli, q.by_tlli, Tllis, c, DOMAIN r.mm, r.mm[c].tlli, m.tlli)
      /\ Rehashed(r.by_tlli_new, q.by_tlli_new, Tllis, c, DOMAIN r.mm, r.mm[c].tlli_new, m.tlli_new)
  BY <1>1, <1>2 DEF Rehashed
<1>5. Exact(q)
  BY <1>0, <1>1, <1>2, <1>3, <1>4, Reindexed
<1>6. Fits(r.mm, q.renamed, c, m)
  BY <1>1, <1>2
<1>7. Good(q, {c})
  BY <1>1, <1>2, <1>3, <1>5, <1>6, GoodBecomes
<1> QED
  BY <1>1, <1>2, <1>3, <1>7 DEF Turned, p, q

\* The handler has put context c where the message came from: it has the LLME or
\* the connection to answer on.
Placed(r, c) ==
  /\ c \in DOMAIN r.mm /\ UeFits(r.mm, c, r.mm[c])
  /\ r.mm[c].ran = "Gb" => r.mm[c].llme # None
  /\ r.mm[c].ran = "Iu" => r.mm[c].ue # Gone

\* A context that keeps its RAN, LLME and connection stays placed.
LEMMA TurnedPlaced ==
  ASSUME NEW r, NEW q, NEW c, NEW m, Turned(r, q, c, m), Placed(r, c),
         m.ran = r.mm[c].ran, m.llme = r.mm[c].llme, m.ue = r.mm[c].ue
  PROVE  Placed(q, c)
  BY DEF Turned, Becomes, Placed, UeFits

\* A placed context that has a new TLLI, if on Gb, is settled.
LEMMA PlacedSettled ==
  ASSUME NEW r, NEW c, Good(r, {c}), Placed(r, c), r.mm[c].ran = "Gb" => r.mm[c].tlli_new # None
  PROVE  Good(r, {})
  BY GoodSettled DEF Placed, Settled

\* A settled context is placed.
LEMMA GoodPlaced ==
  ASSUME NEW r, Good(r, {}), NEW c \in DOMAIN r.mm
  PROVE  Good(r, {c}) /\ Placed(r, c) /\ (r.mm[c].ran = "Gb" => r.mm[c].tlli_new # None)
  BY GoodWeaken DEF Placed, Settled

\* No other context uses connection u.
Mine(r, c, u) == \A d \in DOMAIN r.mm : d # c /\ r.mm[d].ran = "Iu" => r.mm[d].ue # u

\* No context other than c has moved.
OthersStay(r, q, c) ==
  \A d \in DOMAIN q.mm : d # c =>
    d \in DOMAIN r.mm /\ q.mm[d].ran = r.mm[d].ran /\ q.mm[d].ue = r.mm[d].ue

\* When no other context moves, the connection stays free of them.
LEMMA StayMine ==
  ASSUME NEW r, NEW q, NEW c, OthersStay(r, q, c), NEW u, Mine(r, c, u)
  PROVE  Mine(q, c, u)
  BY DEF OthersStay, Mine

\* When one context changes, no other one moves.
LEMMA BecomesStay ==
  ASSUME NEW r, NEW q, NEW c, NEW m, Becomes(r.mm, q.mm, c, m)
  PROVE  OthersStay(r, q, c)
  BY DEF OthersStay, Becomes

\* Asking for the identity, or ceasing to, changes nothing else.
LEMMA TurnAsked ==
  ASSUME NEW r, NEW X, Good(r, X), NEW c \in DOMAIN r.mm, X \subseteq {c}, NEW a \in BOOLEAN
  PROVE  LET q == [r EXCEPT !.mm[c].asked = a]
         IN  Good(q, {c}) /\ (Placed(r, c) => Placed(q, c)) /\ q.mm[c].tlli_new = r.mm[c].tlli_new
             /\ q.mm[c].ran = r.mm[c].ran
<1> DEFINE m == [r.mm[c] EXCEPT !.asked = a]
           q == [r EXCEPT !.mm[c] = m]
<1>1. r.mm[c] \in MmType
  BY GoodFacts
<1>2. /\ m \in MmType /\ m.imsi = r.mm[c].imsi /\ m.p_tmsi = r.mm[c].p_tmsi /\ m.p_tmsi_old = r.mm[c].p_tmsi_old
      /\ m.tlli = r.mm[c].tlli /\ m.tlli_new = r.mm[c].tlli_new
      /\ m.ran = r.mm[c].ran /\ m.llme = r.mm[c].llme /\ m.ue = r.mm[c].ue
  BY <1>1 DEF MmType
<1>3. q = [r EXCEPT !.mm[c].asked = a]
  OBVIOUS
<1> HIDE DEF m
<1>4. Turned(r, q, c, m)
  BY <1>2, TurnSame
<1> HIDE DEF q
<1>5. Good(q, {c}) /\ (Placed(r, c) => Placed(q, c)) /\ q.mm[c] = m
  BY <1>2, <1>4, TurnedPlaced DEF Turned, Becomes
<1> QED
  BY <1>2, <1>3, <1>5

\* The common procedure is started.
Common(r, c) == [r EXCEPT !.mm[c].gmm = "common_proc_init"]

\* Starting the common procedure changes nothing else.
LEMMA CommonGood ==
  ASSUME NEW r, NEW c, Good(r, {c}), c \in DOMAIN r.mm
  PROVE  /\ Good(Common(r, c), {c}) /\ (Placed(r, c) => Placed(Common(r, c), c))
         /\ Common(r, c).mm[c].ran = r.mm[c].ran /\ Common(r, c).mm[c].llme = r.mm[c].llme
         /\ Common(r, c).mm[c].tlli_new = r.mm[c].tlli_new /\ Common(r, c).status = r.status
         /\ c \in DOMAIN Common(r, c).mm /\ OthersStay(r, Common(r, c), c)
<1> DEFINE o == r.mm[c]
           m == [o EXCEPT !.gmm = "common_proc_init"]
           q == [r EXCEPT !.mm[c] = m]
<1>1. o \in MmType
  BY GoodFacts
<1>2. Common(r, c) = q
  BY DEF Common
<1> HIDE DEF o
<1>3. /\ m \in MmType /\ m.imsi = o.imsi /\ m.p_tmsi = o.p_tmsi /\ m.p_tmsi_old = o.p_tmsi_old
      /\ m.tlli = o.tlli /\ m.tlli_new = o.tlli_new /\ m.ran = o.ran /\ m.llme = o.llme /\ m.ue = o.ue
  BY <1>1 DEF MmType
<1> HIDE DEF m
<1>4. Turned(r, q, c, m)
  BY <1>3, TurnSame DEF o
<1> HIDE DEF q
<1>5. Good(q, {c}) /\ c \in DOMAIN q.mm /\ q.mm[c] = m /\ q.status = r.status /\ OthersStay(r, q, c)
  BY <1>4, BecomesStay DEF Turned, Becomes
<1>6. Placed(r, c) => Placed(q, c)
  BY <1>3, <1>4, TurnedPlaced DEF o
<1> QED
  BY <1>2, <1>3, <1>5, <1>6 DEF o

\* LLGMM-ASSIGN with an LLME that is not NULL.
LEMMA AssignGood ==
  ASSUME NEW r, NEW X, Good(r, X), NEW l, l # None, NEW new \in Tllis, NEW old \in Tllis \cup {None}
  PROVE  Good(gprs_llgmm_assign(r, l, old, new), X)
<1> DEFINE e == [tlli |-> new, old_tlli |-> old]
           g == [r.llme EXCEPT ![l] = e]
           q == [r EXCEPT !.llme = g]
<1>1. ASSUME l \in DOMAIN r.llme PROVE Good(q, X)
  <2>0. r \in RegSet /\ Exact(r)
    BY GoodFacts
  <2>1. e \in LlmeType
    BY DEF LlmeType
  <2>2. r.llme \in [DOMAIN r.llme -> LlmeType] /\ DOMAIN r.llme \subseteq Llmes
    BY <2>0, RegFields, MapFacts
  <2> HIDE DEF e
  <2>3. g \in [DOMAIN r.llme -> LlmeType] /\ DOMAIN g = DOMAIN r.llme
    BY <2>1, <2>2, <1>1
  <2>4. g \in Maps(Llmes, LlmeType)
    BY <2>2, <2>3, MapOf
  <2> HIDE DEF g
  <2>5. /\ q \in RegSet /\ q.status = r.status /\ q.renamed = r.renamed /\ q.mm_list = r.mm_list
        /\ q.llmes = r.llmes /\ q.llme = g /\ q.mm = r.mm
        /\ q.by_imsi = r.by_imsi /\ q.by_ptmsi = r.by_ptmsi /\ q.by_ptmsi_old = r.by_ptmsi_old
        /\ q.by_tlli = r.by_tlli /\ q.by_tlli_new = r.by_tlli_new
    BY <2>0, <2>4 DEF RegSet
  <2> HIDE DEF q
  <2>6. SameKeys(r.mm, q.mm) /\ Shrinks(r.mm, q.mm)
    BY <2>5 DEF SameKeys, Shrinks, Relinked
  <2>7. \A k : k \in Range(q.llmes) <=> k \in DOMAIN q.llme
    BY <2>0, <2>3, <2>5 DEF Exact, ListsExact
  <2>8. Exact(q)
    BY <2>0, <2>5, <2>6, <2>7, ExactSameKeys
  <2> QED
    BY <2>5, <2>6, <2>8, GoodShrinks
<1>2. gprs_llgmm_assign(r, l, old, new) = WithLlme(r, l, q)
  BY DEF gprs_llgmm_assign
<1> HIDE DEF q
<1> QED
  BY <1>1, <1>2, WithLlmeGood

\* The local TLLI of a P-TMSI is a TLLI, and not None.
LEMMA LocalTlli ==
  ASSUME NEW p \in Ptmsis \cup {None}
  PROVE  gprs_tmsi2tlli(p, "local") \in Tllis /\ gprs_tmsi2tlli(p, "local") # None
<1>1. gprs_tmsi2tlli(p, "local") \in Tllis
  BY DEF gprs_tmsi2tlli, Tllis
<1> QED
  BY <1>1, Special

\* The MS gets a new TLLI, and the context is settled.
LEMMA NewTlliGood ==
  ASSUME NEW r, NEW c, Good(r, {c}), Placed(r, c)
  PROVE  Good(new_tlli(r, c), {})
<1>0. c \in DOMAIN r.mm /\ r.mm[c] \in MmType
  BY GoodFacts DEF Placed
<1>1. CASE r.mm[c].ran = "Iu"
  BY <1>1, PlacedSettled DEF new_tlli
<1>2. CASE r.mm[c].ran # "Iu"
  <2> DEFINE t == gprs_tmsi2tlli(r.mm[c].p_tmsi, "local")
             m == [r.mm[c] EXCEPT !.tlli_new = t]
             p == [r EXCEPT !.mm[c] = m]
             q == rehash_tlli(p, c)
  <2>1. t \in Tllis /\ t # None
    BY <1>0, MmFields, LocalTlli
  <2>2. new_tlli(r, c) = gprs_llgmm_assign(q, r.mm[c].llme, r.mm[c].tlli, t)
    BY <1>2 DEF new_tlli
  <2> HIDE DEF t
  <2>3. /\ m \in MmType /\ m.imsi = r.mm[c].imsi /\ m.p_tmsi = r.mm[c].p_tmsi /\ m.p_tmsi_old = r.mm[c].p_tmsi_old
        /\ m.ran = r.mm[c].ran /\ m.llme = r.mm[c].llme /\ m.ue = r.mm[c].ue /\ m.tlli_new = t
    BY <1>0, <2>1 DEF MmType
  <2> HIDE DEF m
  <2>4. Turned(r, q, c, m)
    BY <1>0, <2>3, TurnTlli
  <2> HIDE DEF q
  <2>5. Good(q, {c}) /\ Placed(q, c) /\ q.mm[c] = m
    BY <2>3, <2>4, TurnedPlaced DEF Turned, Becomes
  <2>6. Good(q, {})
    BY <2>1, <2>3, <2>5, PlacedSettled
  <2>7. r.mm[c].llme # None /\ r.mm[c].tlli \in Tllis \cup {None}
    BY <1>0, <1>2, MmFields DEF Placed
  <2> QED
    BY <2>1, <2>2, <2>6, <2>7, AssignGood
<1> QED
  BY <1>1, <1>2

\* A P-TMSI is given out that no context has.
LEMMA AllocPtmsi ==
  ASSUME NEW r, Exact(r), NEW p \in sgsn_alloc_ptmsi(r), p # None
  PROVE  p \in Ptmsis /\ \A d \in DOMAIN r.mm : r.mm[d].p_tmsi # p /\ r.mm[d].p_tmsi_old # p
<1>1. p \in Ptmsis /\ by_ptmsi(r, p) = None
  BY DEF sgsn_alloc_ptmsi
<1> QED
  BY <1>1, ByPtmsi

\* ptmsi_update: the new P-TMSI is no other context's, so it fits.
LEMMA PtmsiUpdateGood ==
  ASSUME NEW r, NEW c, Good(r, {c}), Placed(r, c), NEW q \in ptmsi_update(r, c)
  PROVE  Good(q, {c}) /\ Placed(q, c)
<1>0. c \in DOMAIN r.mm /\ r.mm[c] \in MmType /\ Exact(r)
  BY GoodFacts DEF Placed
<1>1. CASE r.mm[c].gmm = "common_proc_init"
  BY <1>1 DEF ptmsi_update
<1>2. CASE r.mm[c].gmm # "common_proc_init"
  <2> DEFINE Moved(p) == [r EXCEPT !.mm[c].p_tmsi_old = r.mm[c].p_tmsi, !.mm[c].p_tmsi = p]
             Kp(p) == IF p = None THEN r ELSE rehash_ptmsi(Moved(p), c)
  <2>1. PICK p \in sgsn_alloc_ptmsi(r) : q = [Kp(p) EXCEPT !.mm[c].gmm = "common_proc_init"]
    BY <1>2 DEF ptmsi_update
  <2>2. Good(Kp(p), {c}) /\ Placed(Kp(p), c)
    <3>1. CASE p = None
      BY <3>1
    <3>2. CASE p # None
      <4> DEFINE m == [r.mm[c] EXCEPT !.p_tmsi_old = r.mm[c].p_tmsi, !.p_tmsi = p]
                 s == rehash_ptmsi([r EXCEPT !.mm[c] = m], c)
      <4>1. p \in Ptmsis /\ \A d \in DOMAIN r.mm : r.mm[d].p_tmsi # p /\ r.mm[d].p_tmsi_old # p
        BY <1>0, <3>2, AllocPtmsi
      <4>2. Kp(p) = s
        <5>1. r \in RegSet
          BY GoodFacts
        <5>2. Moved(p) = [r EXCEPT !.mm[c] = m]
          BY <1>0, <5>1 DEF RegSet
        <5> QED
          BY <3>2, <5>2
      <4>3. /\ m \in MmType /\ m.imsi = r.mm[c].imsi /\ m.p_tmsi = p /\ m.p_tmsi_old = r.mm[c].p_tmsi
            /\ m.tlli = r.mm[c].tlli /\ m.tlli_new = r.mm[c].tlli_new
            /\ m.ran = r.mm[c].ran /\ m.llme = r.mm[c].llme /\ m.ue = r.mm[c].ue
        BY <1>0, <4>1 DEF MmType
      <4> HIDE DEF m
      <4>4. Fits(r.mm, r.renamed, c, m)
        BY <1>0, <4>1, <4>3 DEF Good, Fits, PtmsiAlone, ImsiAlone
      <4>5. Turned(r, s, c, m)
        BY <1>0, <4>3, <4>4, TurnPtmsi
      <4> HIDE DEF s
      <4>6. Good(s, {c}) /\ Placed(s, c)
        BY <4>3, <4>5, TurnedPlaced DEF Turned
      <4> QED
        BY <4>2, <4>6
    <3> QED
      BY <3>1, <3>2
  <2>3. c \in DOMAIN Kp(p).mm
    BY <2>2 DEF Placed
  <2> DEFINE s == Kp(p)
  <2>4. q = [s EXCEPT !.mm[c].gmm = "common_proc_init"] /\ Good(s, {c}) /\ Placed(s, c) /\ c \in DOMAIN s.mm
    BY <2>1, <2>2, <2>3
  <2> HIDE DEF s
  <2> QED
    BY <2>4, CommonGood DEF Common
<1> QED
  BY <1>1, <1>2

-----------------------------------------------------------------------------
(* A change of the radio access network.                                   *)

\* What is left when the LLME could be freed.
LEMMA UnassignUp ==
  ASSUME NEW r, Exact(r), NEW l, NEW how \in {Stray, Shared}, gprs_llgmm_unassign(r, l, how).status = "up"
  PROVE  LET q == gprs_llgmm_unassign(r, l, how)
         IN  /\ r.status = "up" /\ DOMAIN q.mm = DOMAIN r.mm /\ \A c : OthersStay(r, q, c)
             /\ Shrinks(r.mm, q.mm) /\ q.renamed = r.renamed
             /\ \A c \in DOMAIN r.mm : r.mm[c].llme # l => q.mm[c] = r.mm[c]
<1>1. Dead("use after free").status # "up" /\ Dead("null llme").status # "up"
  BY DEF Dead, Boot
<1> DEFINE q == llme_free(r, l, how)
<1>2. l \in DOMAIN r.llme /\ gprs_llgmm_unassign(r, l, how) = q
  BY <1>1 DEF gprs_llgmm_unassign, WithLlme
<1>3. /\ q.status = r.status /\ q.renamed = r.renamed /\ DOMAIN q.mm = DOMAIN r.mm /\ Shrinks(r.mm, q.mm)
      /\ \A c \in DOMAIN r.mm : r.mm[c].llme # l => q.mm[c] = r.mm[c]
  BY <1>2, LlmeFreed
<1> HIDE DEF q
<1>4. \A c : OthersStay(r, q, c)
  BY <1>3 DEF OthersStay, Shrinks, Relinked
<1> QED
  BY <1>2, <1>3, <1>4

\* What is left when it could not: the process has ended.
LEMMA UnassignDown ==
  ASSUME NEW r, Exact(r), r.status = "up", NEW l, l # None, NEW how \in {Stray, Shared},
         gprs_llgmm_unassign(r, l, how).status # "up"
  PROVE  Good(gprs_llgmm_unassign(r, l, how), {})
<1>1. l \in DOMAIN r.llme => llme_free(r, l, how).status = "up"
  BY LlmeFreed
<1>2. gprs_llgmm_unassign(r, l, how) = Dead("use after free")
  BY <1>1 DEF gprs_llgmm_unassign, WithLlme
<1>3. "use after free" \in Statuses /\ "use after free" # "null llme"
  BY DEF Statuses
<1> QED
  BY <1>2, <1>3, EmptyGood

\* A change of the RAN gives up the old LLME or connection; the context is on the new RAN.
LEMMA RatChangeGood ==
  ASSUME NEW r, NEW X, Good(r, X), NEW c \in DOMAIN r.mm, X \subseteq {c}, NEW ran \in {"Gb", "Iu"},
         ran # r.mm[c].ran, NEW l, ran = "Gb" => l \in Llmes
  PROVE  LET q == rat_change(r, c, ran, l)
         IN  /\ Good(q, {c})
             /\ r.status = "up" /\ q.status # "up" => Good(q, {})
             /\ q.status = "up" =>
                  /\ c \in DOMAIN q.mm /\ q.mm[c].ran = ran /\ (ran = "Gb" => q.mm[c].llme = l)
                  /\ OthersStay(r, q, c)
<1> DEFINE m == r.mm[c]
           left == [m EXCEPT !.ran = ran, !.gmm = "deregistered"]
           q == rat_change(r, c, ran, l)
<1>0. m \in MmType
  BY GoodFacts
<1>1. CASE m.ran = "Iu"
  <2> DEFINE n == [left EXCEPT !.llme = l, !.pmm = "detached",
                               !.ue = IF m.pmm = "connected" THEN None ELSE m.ue]
             p == [r EXCEPT !.mm[c] = n]
  <2>1. q = p
    BY <1>1 DEF rat_change
  <2>2. ran = "Gb" /\ l \in Llmes
    BY <1>1
  <2> HIDE DEF m
  <2>3. /\ left \in MmType /\ left.imsi = m.imsi /\ left.p_tmsi = m.p_tmsi /\ left.p_tmsi_old = m.p_tmsi_old
        /\ left.tlli = m.tlli /\ left.tlli_new = m.tlli_new /\ left.ran = ran
    <3>1. left \in MmType
      BY <1>0, MmSet
    <3> QED
      BY <1>0, <3>1 DEF MmType
  <2>4. m.ue \in Ues \cup {None, Gone}
    BY <1>0, MmFields
  <2> HIDE DEF left
  <2>5. /\ n \in MmType /\ n.imsi = left.imsi /\ n.p_tmsi = left.p_tmsi /\ n.p_tmsi_old = left.p_tmsi_old
        /\ n.tlli = left.tlli /\ n.tlli_new = left.tlli_new /\ n.ran = left.ran /\ n.llme = l
    <3>1. n \in MmType
      BY <2>2, <2>3, <2>4, MmSet
    <3> QED
      BY <2>3, <3>1 DEF MmType
  <2> HIDE DEF n
  <2>6. Turned(r, p, c, n)
    BY <2>3, <2>5, TurnSame DEF m
  <2> HIDE DEF p
  <2>7. Good(p, {c}) /\ c \in DOMAIN p.mm /\ p.mm[c] = n /\ OthersStay(r, p, c) /\ p.status = r.status
    BY <2>6, BecomesStay DEF Turned, Becomes
  <2> QED
    BY <2>1, <2>3, <2>5, <2>7 DEF q
<1>2. CASE m.ran # "Iu"
  <2>0. ran = "Iu"
    BY <1>0, <1>2, MmFields
  <2> DEFINE n == [left EXCEPT !.mm = "idle", !.llme = None]
             k == [left EXCEPT !.mm = "idle"]
             p == [r EXCEPT !.mm[c] = n]
             s == [r EXCEPT !.mm[c] = k]
  <2>1. q = IF m.mm = "ready" /\ m.llme # None THEN gprs_llgmm_unassign(p, m.llme, Shared) ELSE s
    BY <1>2 DEF rat_change
  <2> HIDE DEF m
  <2>3. /\ left \in MmType /\ left.imsi = m.imsi /\ left.p_tmsi = m.p_tmsi /\ left.p_tmsi_old = m.p_tmsi_old
        /\ left.tlli = m.tlli /\ left.tlli_new = m.tlli_new /\ left.ran = ran
    <3>1. left \in MmType
      BY <1>0, MmSet
    <3> QED
      BY <1>0, <3>1 DEF MmType
  <2> HIDE DEF left
  <2>4. /\ n \in MmType /\ n.imsi = left.imsi /\ n.p_tmsi = left.p_tmsi /\ n.p_tmsi_old = left.p_tmsi_old
        /\ n.tlli = left.tlli /\ n.tlli_new = left.tlli_new /\ n.ran = left.ran /\ n.llme = None
    BY <2>3, ZenonT(30) DEF MmType
  <2>5. /\ k \in MmType /\ k.imsi = left.imsi /\ k.p_tmsi = left.p_tmsi /\ k.p_tmsi_old = left.p_tmsi_old
        /\ k.tlli = left.tlli /\ k.tlli_new = left.tlli_new /\ k.ran = left.ran
    BY <2>3 DEF MmType
  <2> HIDE DEF n, k
  <2>6. Turned(r, p, c, n) /\ Turned(r, s, c, k)
    BY <2>3, <2>4, <2>5, TurnSame DEF m
  <2> HIDE DEF p, s
  <2>7. /\ p.status = r.status /\ s.status = r.status
        /\ Good(p, {c}) /\ c \in DOMAIN p.mm /\ p.mm[c] = n /\ OthersStay(r, p, c)
        /\ Good(s, {c}) /\ c \in DOMAIN s.mm /\ s.mm[c] = k /\ OthersStay(r, s, c)
    BY <2>6, BecomesStay DEF Turned, Becomes
  <2>8. CASE m.mm = "ready" /\ m.llme # None
    <3>1. q = gprs_llgmm_unassign(p, m.llme, Shared)
      BY <2>1, <2>8
    <3>2. Good(q, {c})
      BY <2>7, <2>8, <3>1, UnassignGood
    <3>3. ASSUME q.status = "up" PROVE c \in DOMAIN q.mm /\ q.mm[c] = n /\ OthersStay(p, q, c)
      <4>1. Exact(p) /\ p.mm[c].llme # m.llme /\ gprs_llgmm_unassign(p, m.llme, Shared).status = "up"
        BY <2>4, <2>7, <2>8, <3>1, <3>3 DEF Good
      <4>2. /\ DOMAIN q.mm = DOMAIN p.mm /\ OthersStay(p, q, c)
            /\ \A d \in DOMAIN p.mm : p.mm[d].llme # m.llme => q.mm[d] = p.mm[d]
        BY <3>1, <4>1, UnassignUp
      <4> QED
        BY <2>7, <4>1, <4>2
    <3>5. r.status = "up" /\ q.status # "up" => Good(q, {})
      BY <2>7, <2>8, <3>1, UnassignDown DEF Good
    <3>4. q.status = "up" => OthersStay(r, q, c)
      BY <2>7, <3>3 DEF OthersStay
    <3> QED
      BY <2>0, <2>3, <2>4, <3>2, <3>3, <3>4, <3>5 DEF q
  <2>9. CASE ~(m.mm = "ready" /\ m.llme # None)
    BY <2>0, <2>1, <2>3, <2>5, <2>7, <2>9 DEF q
  <2> QED
    BY <2>8, <2>9
<1> QED
  BY <1>1, <1>2

-----------------------------------------------------------------------------
(* The handlers.                                                           *)

\* The fields of a message.
LEMMA MsgFields ==
  ASSUME NEW m \in Messages
  PROVE  /\ m.ran \in {"Gb", "Iu"} /\ m.ra \in Ras /\ m.mi \in Imsis \cup Ptmsis \cup {None}
         /\ m.ran = "Gb" => m.tlli \in Tllis
         /\ m.ran = "Iu" => m.ue \in Ues
         /\ m.type = "service_req" => m.ran = "Iu"
  BY RegistryAssumption DEF MessageType

\* The same when the RAN may have stayed.
LEMMA RatChangedGood ==
  ASSUME NEW r, NEW X, Good(r, X), NEW c \in DOMAIN r.mm, X \subseteq {c}, NEW m \in Messages,
         NEW l, m.ran = "Gb" => l \in Llmes
  PROVE  LET q == RatChanged(r, c, m, l)
         IN  /\ Good(q, {c})
             /\ r.status = "up" /\ q.status # "up" => Good(q, {})
             /\ q.status = "up" =>
                  /\ c \in DOMAIN q.mm /\ q.mm[c].ran = m.ran /\ OthersStay(r, q, c)
                  /\ m.ran = "Gb" /\ (r.mm[c].ran = "Gb" => r.mm[c].llme # None) => q.mm[c].llme # None
<1>1. CASE r.mm[c].ran = m.ran
  <2>1. RatChanged(r, c, m, l) = r
    BY <1>1 DEF RatChanged
  <2>2. Good(r, {c}) /\ OthersStay(r, r, c)
    BY DEF Good, UeAlone, OthersStay
  <2> QED
    BY <1>1, <2>1, <2>2
<1>2. CASE r.mm[c].ran # m.ran
  <2> DEFINE q == rat_change(r, c, m.ran, l)
  <2>1. RatChanged(r, c, m, l) = q
    BY <1>2 DEF RatChanged
  <2>2. m.ran \in {"Gb", "Iu"}
    BY MsgFields
  <2>3. /\ Good(q, {c})
        /\ r.status = "up" /\ q.status # "up" => Good(q, {})
        /\ q.status = "up" =>
             /\ c \in DOMAIN q.mm /\ q.mm[c].ran = m.ran /\ (m.ran = "Gb" => q.mm[c].llme = l)
             /\ OthersStay(r, q, c)
    BY <1>2, <2>2, RatChangeGood, ZenonT(30)
  <2> HIDE DEF q
  <2> QED
    BY <2>1, <2>3, Special
<1> QED
  BY <1>1, <1>2

\* The context is put where the message came from.
LEMMA LocatedGood ==
  ASSUME NEW r, NEW c, Good(r, {c}), c \in DOMAIN r.mm, NEW m \in Messages, r.mm[c].ran = m.ran,
         NEW l, m.ran = "Gb" => l \in Llmes, m.ran = "Iu" => Mine(r, c, m.ue)
  PROVE  Good(Located(r, c, m, l), {c}) /\ Placed(Located(r, c, m, l), c)
         /\ Located(r, c, m, l).status = r.status
<1> DEFINE o == r.mm[c]
<1>0. o \in MmType /\ r \in RegSet /\ m.ra \in Ras
  BY GoodFacts, MsgFields
<1>1. CASE m.ran = "Iu"
  <2> DEFINE n == [o EXCEPT !.ue = m.ue, !.ra = m.ra]
             q == [r EXCEPT !.mm[c] = n]
  <2>1. Located(r, c, m, l) = q
    BY <1>0, <1>1 DEF Located, RegSet
  <2>2. m.ue \in Ues
    BY <1>1, MsgFields
  <2> HIDE DEF o
  <2>3. n \in MmType
    BY <1>0, <2>2, MmSet
  <2>4. /\ n.imsi = o.imsi /\ n.p_tmsi = o.p_tmsi /\ n.p_tmsi_old = o.p_tmsi_old
        /\ n.tlli = o.tlli /\ n.tlli_new = o.tlli_new /\ n.ran = o.ran /\ n.ue = m.ue
    BY <1>0 DEF MmType
  <2> HIDE DEF n
  <2>5. Turned(r, q, c, n)
    BY <2>3, <2>4, TurnSame DEF o
  <2> HIDE DEF q
  <2>6. Good(q, {c}) /\ q.status = r.status /\ c \in DOMAIN q.mm /\ q.mm[c] = n /\ Becomes(r.mm, q.mm, c, n)
    BY <2>5 DEF Turned, Becomes
  <2>7. UeFits(q.mm, c, n)
    BY <1>1, <2>4, <2>6 DEF UeFits, Mine, Becomes
  <2>8. Placed(q, c)
    BY <1>1, <2>2, <2>4, <2>6, <2>7, Special DEF Placed, o
  <2> QED
    BY <2>1, <2>6, <2>8
<1>2. CASE m.ran # "Iu"
  <2> DEFINE n == [o EXCEPT !.tlli = m.tlli, !.llme = l, !.ra = m.ra]
             q == rehash_tlli([r EXCEPT !.mm[c] = n], c)
  <2>1. Located(r, c, m, l) = q
    BY <1>0, <1>2 DEF Located, RegSet
  <2>2. m.ran = "Gb" /\ m.tlli \in Tllis /\ l \in Llmes
    BY <1>2, MsgFields
  <2> HIDE DEF o
  <2>3. n \in MmType
    BY <1>0, <2>2, MmSet
  <2>4. /\ n.imsi = o.imsi /\ n.p_tmsi = o.p_tmsi /\ n.p_tmsi_old = o.p_tmsi_old
        /\ n.ran = o.ran /\ n.llme = l
    BY <1>0 DEF MmType
  <2> HIDE DEF n
  <2>5. Turned(r, q, c, n)
    BY <2>3, <2>4, TurnTlli DEF o
  <2> HIDE DEF q
  <2>6. Good(q, {c}) /\ q.status = r.status /\ c \in DOMAIN q.mm /\ q.mm[c] = n
    BY <2>5 DEF Turned, Becomes
  <2>7. n.ran = "Gb" /\ UeFits(q.mm, c, n)
    BY <2>2, <2>4 DEF UeFits, o
  <2>8. Placed(q, c)
    BY <2>2, <2>4, <2>6, <2>7, Special DEF Placed
  <2> QED
    BY <2>1, <2>6, <2>8
<1> QED
  BY <1>1, <1>2

\* Memory that is handed out is free.
LEMMA FreeCtx ==
  ASSUME NEW D, Free(Ctxs, D) # None
  PROVE  Free(Ctxs, D) \in Ctxs /\ Free(Ctxs, D) \notin D
<1> DEFINE S == Ctxs \ D
<1>1. Free(Ctxs, D) = Min(S) /\ S # {} /\ S \in SUBSET Nat
  BY RegistryAssumption DEF Free, Ctxs
<1>2. \E n \in S : \A k \in S : n <= k
  BY <1>1, NatMinimum
<1>3. Min(S) \in S
  BY <1>2 DEF Min
<1> QED
  BY <1>1, <1>3

\* Free memory for an LLME is not in use.
LEMMA FreeLlme ==
  ASSUME NEW D, Free(Llmes, D) # None
  PROVE  Free(Llmes, D) \in Llmes /\ Free(Llmes, D) \notin D
<1> DEFINE S == Llmes \ D
<1>1. Free(Llmes, D) = Min(S) /\ S # {} /\ S \in SUBSET Nat
  BY RegistryAssumption DEF Free, Llmes
<1>2. \E n \in S : \A k \in S : n <= k
  BY <1>1, NatMinimum
<1>3. Min(S) \in S
  BY <1>2 DEF Min
<1> QED
  BY <1>1, <1>3

\* A new context.
NewMm(ran, tlli, ue, ra) ==
  [imsi |-> None, p_tmsi |-> None, p_tmsi_old |-> None, tlli |-> tlli, tlli_new |-> None,
   ra |-> ra, ran |-> ran, llme |-> None, ue |-> ue, gmm |-> "deregistered",
   mm |-> "idle", pmm |-> "detached", asked |-> FALSE]

\* A new context has the type of a context, and no identity.
LEMMA NewMmType ==
  ASSUME NEW ran \in {"Gb", "Iu"}, NEW tlli \in Tllis \cup {None}, NEW ue \in Ues \cup {None, Gone},
         NEW ra \in Ras
  PROVE  LET m == NewMm(ran, tlli, ue, ra)
         IN  /\ m \in MmType /\ m.imsi = None /\ m.p_tmsi = None /\ m.p_tmsi_old = None
             /\ m.tlli = tlli /\ m.tlli_new = None /\ m.ran = ran /\ m.ue = ue
  BY DEF NewMm, MmType

\* Registry q is r with a new context m that is in no hash yet.
Alloced(r, q, c, m) ==
  /\ q \in RegSet /\ Becomes(r.mm, q.mm, c, m)
  /\ q.status = r.status /\ q.renamed = r.renamed /\ q.mm_list = <<c>> \o r.mm_list
  /\ q.llmes = r.llmes /\ q.llme = r.llme
  /\ q.by_imsi = r.by_imsi /\ q.by_ptmsi = r.by_ptmsi /\ q.by_ptmsi_old = r.by_ptmsi_old
  /\ q.by_tlli = r.by_tlli /\ q.by_tlli_new = r.by_tlli_new

\* sgsn_mm_ctx_alloc puts a new context on the list.
LEMMA AllocFields ==
  ASSUME NEW r \in RegSet, NEW c \in Ctxs, c \notin DOMAIN r.mm,
         NEW ran \in {"Gb", "Iu"}, NEW tlli \in Tllis \cup {None}, NEW ue \in Ues \cup {None, Gone},
         NEW ra \in Ras
  PROVE  Alloced(r, sgsn_mm_ctx_alloc(r, c, ran, tlli, ue, ra), c, NewMm(ran, tlli, ue, ra))
<1> DEFINE n == NewMm(ran, tlli, ue, ra)
           f == [d \in DOMAIN r.mm \cup {c} |-> IF d # c THEN r.mm[d] ELSE n]
           s == <<c>> \o r.mm_list
           q == sgsn_mm_ctx_alloc(r, c, ran, tlli, ue, ra)
<1>1. q = [r EXCEPT !.mm_list = s, !.mm = f]
  BY DEF sgsn_mm_ctx_alloc, NewMm
<1>2. n \in MmType
  BY NewMmType
<1>3. s \in Seq(Ctxs)
  BY RegFields, ConsProperties
<1> HIDE DEF n, s, q
<1>4. f \in Maps(Ctxs, MmType)
  <2>1. \A d \in DOMAIN r.mm : d \in Ctxs /\ r.mm[d] \in MmType
    BY MmMap
  <2>2. f \in [DOMAIN r.mm \cup {c} -> MmType] /\ DOMAIN r.mm \cup {c} \subseteq Ctxs
    BY <1>2, <2>1
  <2> QED
    BY <2>2, MapOf
<1>5. DOMAIN f = DOMAIN r.mm \cup {c} /\ f[c] = n /\ \A d \in DOMAIN r.mm : d # c => f[d] = r.mm[d]
  OBVIOUS
<1> HIDE DEF f
<1>6. /\ q \in RegSet /\ q.mm = f
      /\ q.status = r.status /\ q.renamed = r.renamed /\ q.mm_list = s
      /\ q.llmes = r.llmes /\ q.llme = r.llme
      /\ q.by_imsi = r.by_imsi /\ q.by_ptmsi = r.by_ptmsi /\ q.by_ptmsi_old = r.by_ptmsi_old
      /\ q.by_tlli = r.by_tlli /\ q.by_tlli_new = r.by_tlli_new
  BY <1>1, <1>3, <1>4 DEF RegSet
<1> QED
  BY <1>5, <1>6 DEF Alloced, Becomes, q, s, n

\* What the two ways to make a context have in common: registry q has a new context
\* m under its TLLI; the identity has still to be set.
Made(r, q, c, m) ==
  /\ q \in RegSet /\ Becomes(r.mm, q.mm, c, m) /\ m \in MmType
  /\ m.imsi = None /\ m.p_tmsi = None /\ m.p_tmsi_old = None
  /\ q.status = r.status /\ q.renamed = r.renamed /\ q.mm_list = <<c>> \o r.mm_list
  /\ q.llmes = r.llmes /\ q.llme = r.llme
  /\ q.by_imsi = r.by_imsi /\ q.by_ptmsi = r.by_ptmsi /\ q.by_ptmsi_old = r.by_ptmsi_old
  /\ Rehashed(r.by_tlli, q.by_tlli, Tllis, c, DOMAIN r.mm, r.mm[c].tlli, m.tlli)
  /\ Rehashed(r.by_tlli_new, q.by_tlli_new, Tllis, c, DOMAIN r.mm, r.mm[c].tlli_new, m.tlli_new)

\* A new Gb context is hashed by its TLLI.
LEMMA MadeGb ==
  ASSUME NEW r \in RegSet, NEW c \in Ctxs, c \notin DOMAIN r.mm, NEW tlli \in Tllis \cup {None}, NEW ra \in Ras
  PROVE  Made(r, rehash_tlli(sgsn_mm_ctx_alloc(r, c, "Gb", tlli, None, ra), c), c, NewMm("Gb", tlli, None, ra))
<1> DEFINE ran == "Gb"
           ue == None
<1>0. ran \in {"Gb", "Iu"} /\ ue \in Ues \cup {None, Gone}
  OBVIOUS
<1> HIDE DEF ran, ue
<1> DEFINE m == NewMm(ran, tlli, ue, ra)
           p == sgsn_mm_ctx_alloc(r, c, ran, tlli, ue, ra)
           q == rehash_tlli(p, c)
<1>1. /\ m \in MmType /\ m.imsi = None /\ m.p_tmsi = None /\ m.p_tmsi_old = None
      /\ m.tlli = tlli /\ m.tlli_new = None
  BY <1>0, NewMmType
<1>2. Alloced(r, p, c, m)
  BY <1>0, AllocFields
<1> HIDE DEF m, p
<1>3. /\ q \in RegSet /\ q.mm = p.mm
      /\ q.status = p.status /\ q.renamed = p.renamed /\ q.mm_list = p.mm_list
      /\ q.llmes = p.llmes /\ q.llme = p.llme /\ q.by_imsi = p.by_imsi
      /\ q.by_ptmsi = p.by_ptmsi /\ q.by_ptmsi_old = p.by_ptmsi_old
      /\ q.by_tlli = hash_add(p.by_tlli, c, p.mm[c].tlli)
      /\ q.by_tlli_new = hash_add(p.by_tlli_new, c, p.mm[c].tlli_new)
  BY <1>2, RehashTlli DEF Alloced, Becomes
<1> HIDE DEF q
<1>4. /\ Rehashed(r.by_tlli, q.by_tlli, Tllis, c, DOMAIN r.mm, r.mm[c].tlli, m.tlli)
      /\ Rehashed(r.by_tlli_new, q.by_tlli_new, Tllis, c, DOMAIN r.mm, r.mm[c].tlli_new, m.tlli_new)
  BY <1>2, <1>3 DEF Rehashed, Alloced, Becomes
<1>5. Becomes(r.mm, q.mm, c, m)
  BY <1>2, <1>3 DEF Alloced
<1>6. Made(r, q, c, m)
  BY <1>1, <1>2, <1>3, <1>4, <1>5 DEF Made, Alloced
<1> QED
  BY <1>6 DEF q, p, m, ran, ue

\* A new Iu context has no TLLI.
LEMMA MadeIu ==
  ASSUME NEW r \in RegSet, NEW c \in Ctxs, c \notin DOMAIN r.mm, NEW ue \in Ues, NEW ra \in Ras
  PROVE  Made(r, sgsn_mm_ctx_alloc(r, c, "Iu", None, ue, ra), c, NewMm("Iu", None, ue, ra))
<1> DEFINE m == NewMm("Iu", None, ue, ra)
           q == sgsn_mm_ctx_alloc(r, c, "Iu", None, ue, ra)
<1>1. /\ m \in MmType /\ m.imsi = None /\ m.p_tmsi = None /\ m.p_tmsi_old = None
      /\ m.tlli = None /\ m.tlli_new = None
  BY NewMmType
<1>2. Alloced(r, q, c, m)
  BY AllocFields
<1> HIDE DEF m, q
<1>3. /\ Rehashed(r.by_tlli, q.by_tlli, Tllis, c, DOMAIN r.mm, r.mm[c].tlli, m.tlli)
      /\ Rehashed(r.by_tlli_new, q.by_tlli_new, Tllis, c, DOMAIN r.mm, r.mm[c].tlli_new, m.tlli_new)
  BY <1>1, <1>2, Special DEF Rehashed, Alloced
<1>4. Becomes(r.mm, q.mm, c, m)
  BY <1>2 DEF Alloced
<1>5. Made(r, q, c, m)
  BY <1>1, <1>2, <1>3, <1>4 DEF Made, Alloced
<1> QED
  BY <1>5 DEF q, m

\* The new context takes an identity that no context has.
LEMMA NamedImsi ==
  ASSUME NEW r, Good(r, {}), NEW c \in Ctxs, c \notin DOMAIN r.mm, NEW b, NEW m, Made(r, b, c, m),
         NEW i \in Imsis, \A d \in DOMAIN r.mm : r.mm[d].imsi # i
  PROVE  Turned(r, rehash_imsi([b EXCEPT !.mm[c].imsi = i], c), c, [m EXCEPT !.imsi = i])
<1> DEFINE n == [m EXCEPT !.imsi = i]
           p == [b EXCEPT !.mm[c] = n]
           q == rehash_imsi(p, c)
<1>0. Exact(r) /\ b \in RegSet /\ m \in MmType /\ c \in DOMAIN b.mm /\ b.mm[c] = m
  BY DEF Good, Made, Becomes
<1>1. p = [b EXCEPT !.mm[c].imsi = i]
  BY <1>0
<1>2. n \in MmType
  BY <1>0, MmSet
<1>3. /\ n.imsi = i /\ n.p_tmsi = m.p_tmsi /\ n.p_tmsi_old = m.p_tmsi_old
      /\ n.tlli = m.tlli /\ n.tlli_new = m.tlli_new
  BY <1>0 DEF MmType
<1> HIDE DEF n
<1>4. /\ p \in RegSet
      /\ DOMAIN p.mm = DOMAIN b.mm /\ p.mm[c] = n
      /\ \A d \in DOMAIN b.mm : d # c => p.mm[d] = b.mm[d]
      /\ p.status = b.status /\ p.renamed = b.renamed /\ p.mm_list = b.mm_list
      /\ p.llmes = b.llmes /\ p.llme = b.llme
      /\ p.by_imsi = b.by_imsi /\ p.by_ptmsi = b.by_ptmsi /\ p.by_ptmsi_old = b.by_ptmsi_old
      /\ p.by_tlli = b.by_tlli /\ p.by_tlli_new = b.by_tlli_new
  BY <1>0, <1>2, SetMm
<1> HIDE DEF p
<1>5. /\ q \in RegSet /\ q.mm = p.mm
      /\ q.status = p.status /\ q.renamed = p.renamed /\ q.mm_list = p.mm_list
      /\ q.llmes = p.llmes /\ q.llme = p.llme
      /\ q.by_imsi = hash_add(p.by_imsi, c, p.mm[c].imsi)
      /\ q.by_ptmsi = p.by_ptmsi /\ q.by_ptmsi_old = p.by_ptmsi_old
      /\ q.by_tlli = p.by_tlli /\ q.by_tlli_new = p.by_tlli_new
  BY <1>0, <1>4, RehashImsi
<1> HIDE DEF q
<1>6. Becomes(r.mm, q.mm, c, n)
  BY <1>4, <1>5 DEF Made, Becomes
<1>7. /\ Rehashed(r.by_imsi, q.by_imsi, Imsis, c, DOMAIN r.mm, r.mm[c].imsi, n.imsi)
      /\ Rehashed(r.by_ptmsi, q.by_ptmsi, Ptmsis, c, DOMAIN r.mm, r.mm[c].p_tmsi, n.p_tmsi)
      /\ Rehashed(r.by_ptmsi_old, q.by_ptmsi_old, Ptmsis, c, DOMAIN r.mm, r.mm[c].p_tmsi_old, n.p_tmsi_old)
  BY <1>3, <1>4, <1>5, Special DEF Rehashed, Made
<1>8. /\ Rehashed(r.by_tlli, q.by_tlli, Tllis, c, DOMAIN r.mm, r.mm[c].tlli, n.tlli)
      /\ Rehashed(r.by_tlli_new, q.by_tlli_new, Tllis, c, DOMAIN r.mm, r.mm[c].tlli_new, n.tlli_new)
  BY <1>3, <1>4, <1>5 DEF Made
<1>9. /\ q.mm_list = <<c>> \o r.mm_list /\ q.llmes = r.llmes /\ q.llme = r.llme
      /\ q.status = r.status /\ q.renamed = r.renamed
  BY <1>4, <1>5 DEF Made
<1>10. Exact(q)
  BY <1>0, <1>5, <1>6, <1>7, <1>8, <1>9, Reindexed
<1>11. Fits(r.mm, q.renamed, c, n)
  BY <1>3 DEF Fits, Made
<1>12. Good(q, {c})
  <2>1. Good(r, {c}) /\ r.renamed \subseteq q.renamed
    BY <1>9, GoodWeaken
  <2> DEFINE X == {c}
  <2>2. X \subseteq {c} /\ Good(r, X)
    BY <2>1
  <2> HIDE DEF X
  <2> QED
    BY <1>6, <1>9, <1>10, <1>11, <2>1, <2>2, GoodBecomes
<1> QED
  BY <1>1, <1>6, <1>9, <1>12 DEF Turned, Becomes, q, n

\* A new context takes a P-TMSI that no context has.
LEMMA NamedPtmsi ==
  ASSUME NEW r, Good(r, {}), NEW c \in Ctxs, c \notin DOMAIN r.mm, NEW b, NEW m, Made(r, b, c, m),
         NEW i \in Ptmsis, \A d \in DOMAIN r.mm : r.mm[d].p_tmsi # i /\ r.mm[d].p_tmsi_old # i
  PROVE  Turned(r, rehash_ptmsi([b EXCEPT !.mm[c].p_tmsi = i], c), c, [m EXCEPT !.p_tmsi = i])
<1> DEFINE n == [m EXCEPT !.p_tmsi = i]
           p == [b EXCEPT !.mm[c] = n]
           q == rehash_ptmsi(p, c)
<1>0. Exact(r) /\ b \in RegSet /\ m \in MmType /\ c \in DOMAIN b.mm /\ b.mm[c] = m
  BY DEF Good, Made, Becomes
<1>1. p = [b EXCEPT !.mm[c].p_tmsi = i]
  BY <1>0
<1>2. n \in MmType
  BY <1>0, MmSet
<1>3. /\ n.imsi = m.imsi /\ n.p_tmsi = i /\ n.p_tmsi_old = m.p_tmsi_old
      /\ n.tlli = m.tlli /\ n.tlli_new = m.tlli_new
  BY <1>0 DEF MmType
<1> HIDE DEF n
<1>4. /\ p \in RegSet
      /\ DOMAIN p.mm = DOMAIN b.mm /\ p.mm[c] = n
      /\ \A d \in DOMAIN b.mm : d # c => p.mm[d] = b.mm[d]
      /\ p.status = b.status /\ p.renamed = b.renamed /\ p.mm_list = b.mm_list
      /\ p.llmes = b.llmes /\ p.llme = b.llme
      /\ p.by_imsi = b.by_imsi /\ p.by_ptmsi = b.by_ptmsi /\ p.by_ptmsi_old = b.by_ptmsi_old
      /\ p.by_tlli = b.by_tlli /\ p.by_tlli_new = b.by_tlli_new
  BY <1>0, <1>2, SetMm
<1> HIDE DEF p
<1>5. /\ q \in RegSet /\ q.mm = p.mm
      /\ q.status = p.status /\ q.renamed = p.renamed /\ q.mm_list = p.mm_list
      /\ q.llmes = p.llmes /\ q.llme = p.llme /\ q.by_imsi = p.by_imsi
      /\ q.by_ptmsi = hash_add(p.by_ptmsi, c, p.mm[c].p_tmsi)
      /\ q.by_ptmsi_old = hash_add(p.by_ptmsi_old, c, p.mm[c].p_tmsi_old)
      /\ q.by_tlli = p.by_tlli /\ q.by_tlli_new = p.by_tlli_new
  BY <1>0, <1>4, RehashPtmsi
<1> HIDE DEF q
<1>6. Becomes(r.mm, q.mm, c, n)
  BY <1>4, <1>5 DEF Made, Becomes
<1>7. /\ Rehashed(r.by_imsi, q.by_imsi, Imsis, c, DOMAIN r.mm, r.mm[c].imsi, n.imsi)
      /\ Rehashed(r.by_ptmsi, q.by_ptmsi, Ptmsis, c, DOMAIN r.mm, r.mm[c].p_tmsi, n.p_tmsi)
      /\ Rehashed(r.by_ptmsi_old, q.by_ptmsi_old, Ptmsis, c, DOMAIN r.mm, r.mm[c].p_tmsi_old, n.p_tmsi_old)
  BY <1>3, <1>4, <1>5, Special DEF Rehashed, Made
<1>8. /\ Rehashed(r.by_tlli, q.by_tlli, Tllis, c, DOMAIN r.mm, r.mm[c].tlli, n.tlli)
      /\ Rehashed(r.by_tlli_new, q.by_tlli_new, Tllis, c, DOMAIN r.mm, r.mm[c].tlli_new, n.tlli_new)
  BY <1>3, <1>4, <1>5 DEF Made
<1>9. /\ q.mm_list = <<c>> \o r.mm_list /\ q.llmes = r.llmes /\ q.llme = r.llme
      /\ q.status = r.status /\ q.renamed = r.renamed
  BY <1>4, <1>5 DEF Made
<1>10. Exact(q)
  BY <1>0, <1>5, <1>6, <1>7, <1>8, <1>9, Reindexed
<1>11. Fits(r.mm, q.renamed, c, n)
  BY <1>3 DEF Fits, Made
<1>12. Good(q, {c})
  <2>1. Good(r, {c}) /\ r.renamed \subseteq q.renamed
    BY <1>9, GoodWeaken
  <2> DEFINE X == {c}
  <2>2. X \subseteq {c} /\ Good(r, X)
    BY <2>1
  <2> HIDE DEF X
  <2> QED
    BY <1>6, <1>9, <1>10, <1>11, <2>1, <2>2, GoodBecomes
<1> QED
  BY <1>1, <1>6, <1>9, <1>12 DEF Turned, Becomes, q, n

\* What the entry points hand to a handler: a registry between two handlers, the context
\* and the LLME of the message.  On Iu no other context has the connection.
Entry(r, c, l, m) ==
  /\ Good(r, {}) /\ r.status = "up" /\ m \in Messages
  /\ c # None => c \in DOMAIN r.mm
  /\ m.ran = "Gb" => l \in Llmes
  /\ m.ran = "Iu" => l = None /\ Mine(r, c, m.ue)

\* The connection of an Iu message is that of the context which the handler finds, or no one's.
LEMMA FoundMine ==
  ASSUME NEW r, NEW c, NEW l, NEW m, Entry(r, c, l, m), NEW d, c # None => d = c, m.ran = "Iu"
  PROVE  Mine(r, d, m.ue)
<1>1. \A e \in DOMAIN r.mm : e # None
  BY GoodFacts, Special DEF Entry
<1> QED
  BY <1>1 DEF Entry, Mine

\* The context of an Attach Request, found or new.
LEMMA IdentifiedGood ==
  ASSUME NEW r, NEW c, NEW l, NEW m, Entry(r, c, l, m), m.mi # None
  PROVE  LET i == Identified(r, c, m)
         IN  i.c # None => /\ Good(i.r, {i.c}) /\ i.c \in DOMAIN i.r.mm /\ i.r.status = "up"
                           /\ m.ran = "Iu" => Mine(i.r, i.c, m.ue)
<1> DEFINE new == Free(Ctxs, DOMAIN r.mm)
           found == IF c # None THEN c ELSE by_mi(r, m.mi)
           Alloc == IF m.ran = "Iu" THEN sgsn_mm_ctx_alloc(r, new, "Iu", None, m.ue, m.ra)
                    ELSE rehash_tlli(sgsn_mm_ctx_alloc(r, new, "Gb", IF m.mi \in Imsis THEN None ELSE m.tlli,
                                                       None, m.ra), new)
           q == IF m.mi \in Imsis THEN rehash_imsi([Alloc EXCEPT !.mm[new].imsi = m.mi], new)
                ELSE rehash_ptmsi([Alloc EXCEPT !.mm[new].p_tmsi = m.mi], new)
<1>0. Good(r, {}) /\ Exact(r) /\ r \in RegSet /\ m \in Messages /\ r.status = "up" /\ m.mi \in Imsis \cup Ptmsis /\ m.ra \in Ras
  BY GoodFacts, MsgFields DEF Entry
<1>1. Identified(r, c, m) = IF found # None THEN [r |-> r, c |-> found]
                            ELSE IF new = None THEN [r |-> r, c |-> None]
                            ELSE [r |-> q, c |-> new]
  BY DEF Identified
<1>2. CASE found # None
  <2>1. found \in DOMAIN r.mm
    BY <1>0, <1>2, ByMi DEF Entry
  <2>2. Good(r, {found})
    BY <1>0, GoodWeaken
  <2>3. m.ran = "Iu" => Mine(r, found, m.ue)
    BY FoundMine
  <2> HIDE DEF found
  <2> QED
    BY <1>0, <1>1, <1>2, <2>1, <2>2, <2>3
<1>3. CASE found = None /\ new = None
  BY <1>1, <1>3
<1>4. CASE found = None /\ new # None
  <2>1. new \in Ctxs /\ new \notin DOMAIN r.mm
    BY <1>4, FreeCtx
  <2>2. c = None /\ by_mi(r, m.mi) = None
    BY <1>4
  <2>3. /\ m.mi \in Imsis => \A d \in DOMAIN r.mm : r.mm[d].imsi # m.mi
        /\ m.mi \notin Imsis => \A d \in DOMAIN r.mm : r.mm[d].p_tmsi # m.mi /\ r.mm[d].p_tmsi_old # m.mi
    BY <1>0, <2>2, ByMi
  <2>4. Identified(r, c, m) = [r |-> q, c |-> new]
    BY <1>1, <1>4
  <2> HIDE DEF new
  <2>5. \E o : Made(r, Alloc, new, o)
    <3>1. CASE m.ran = "Iu"
      BY <1>0, <2>1, <3>1, MsgFields, MadeIu
    <3>2. CASE m.ran # "Iu"
      <4> DEFINE t == IF m.mi \in Imsis THEN None ELSE m.tlli
      <4>1. t \in Tllis \cup {None}
        BY <1>0, <3>2, MsgFields
      <4>2. Alloc = rehash_tlli(sgsn_mm_ctx_alloc(r, new, "Gb", t, None, m.ra), new)
        BY <3>2
      <4> HIDE DEF t, Alloc
      <4> QED
        BY <1>0, <2>1, <4>1, <4>2, MadeGb
    <3> QED
      BY <3>1, <3>2
  <2> HIDE DEF Alloc
  <2>6. PICK o : Made(r, Alloc, new, o)
    BY <2>5
  <2>7. \E n : Turned(r, q, new, n)
    <3>1. CASE m.mi \in Imsis
      BY <1>0, <2>1, <2>3, <2>6, <3>1, NamedImsi
    <3>2. CASE m.mi \notin Imsis
      BY <1>0, <2>1, <2>3, <2>6, <3>2, NamedPtmsi
    <3> QED
      BY <3>1, <3>2
  <2> HIDE DEF q
  <2>8. PICK n : Turned(r, q, new, n)
    BY <2>7
  <2>9. Good(q, {new}) /\ new \in DOMAIN q.mm /\ q.status = "up" /\ OthersStay(r, q, new)
    BY <1>0, <2>8, BecomesStay DEF Turned
  <2>10. m.ran = "Iu" => Mine(q, new, m.ue)
    BY <2>2, <2>9, FoundMine, StayMine
  <2> QED
    BY <2>4, <2>9, <2>10
<1> QED
  BY <1>2, <1>3, <1>4

\* What is done with it once it has been placed.
LEMMA AttachingGood ==
  ASSUME NEW r, NEW c, NEW m, Good(r, {c}), r.status = "up" => Placed(r, c),
         r.status # "up" => Good(r, {}), NEW q \in Attaching(r, c, m)
  PROVE  Good(q, {})
<1>1. CASE r.status # "up"
  BY <1>1 DEF Attaching
<1>2. CASE r.status = "up" /\ m.flaw = "nocipher"
  <2>1. q = cleanup_free(r, c) /\ c \in DOMAIN r.mm
    BY <1>2 DEF Attaching, Placed
  <2> QED
    BY <2>1, CleanupGood
<1>3. CASE r.status = "up" /\ m.flaw # "nocipher"
  <2>1. PICK p \in ptmsi_update(r, c) : q = new_tlli([p EXCEPT !.mm[c].asked = TRUE], c)
    BY <1>3 DEF Attaching
  <2>2. Good(p, {c}) /\ Placed(p, c)
    BY <1>3, PtmsiUpdateGood
  <2> DEFINE s == [p EXCEPT !.mm[c].asked = TRUE]
  <2>3. c \in DOMAIN p.mm
    BY <2>2 DEF Placed
  <2>4. Good(s, {c}) /\ Placed(s, c)
    BY <2>2, <2>3, TurnAsked
  <2> HIDE DEF s
  <2>5. q = new_tlli(s, c)
    BY <2>1 DEF s
  <2> QED
    BY <2>4, <2>5, NewTlliGood
<1> QED
  BY <1>1, <1>2, <1>3

\* An Attach Request keeps the invariant.
LEMMA AttReqGood ==
  ASSUME NEW r, NEW c, NEW l, NEW m, Entry(r, c, l, m), NEW q \in att_req(r, c, l, m)
  PROVE  Good(q, {})
<1>0. Good(r, {}) /\ m \in Messages /\ r.status = "up" /\ (m.ran = "Gb" => l \in Llmes)
  BY DEF Entry
<1>1. CASE m.flaw = "bad" \/ m.mi = None
  BY <1>1, RejectedGood DEF att_req, Entry
<1>2. CASE ~(m.flaw = "bad" \/ m.mi = None)
  <2> DEFINE i == Identified(r, c, m)
             r1 == RatChanged(i.r, i.c, m, l)
             r2 == IF r1.status = "up" THEN Located(r1, i.c, m, l) ELSE r1
  <2>1. q \in IF i.c = None THEN {Rejected(r, None, l)} ELSE Attaching(r2, i.c, m)
    BY <1>2 DEF att_req
  <2>2. CASE i.c = None
    BY <1>0, <2>1, <2>2, RejectedGood
  <2>3. CASE i.c # None
    <3> DEFINE s == i.r
               d == i.c
    <3>1. Good(s, {d}) /\ d \in DOMAIN s.mm /\ s.status = "up" /\ (m.ran = "Iu" => Mine(s, d, m.ue))
      BY <1>2, <2>3, IdentifiedGood
    <3>2. q \in Attaching(r2, d, m)
      BY <2>1, <2>3
    <3> HIDE DEF i, s, d
    <3>3. r1 = RatChanged(s, d, m, l) /\ r2 = IF r1.status = "up" THEN Located(r1, d, m, l) ELSE r1
      BY DEF s, d
    <3> HIDE DEF r1, r2
    <3>4. /\ Good(r1, {d}) /\ (r1.status # "up" => Good(r1, {}))
          /\ r1.status = "up" => d \in DOMAIN r1.mm /\ r1.mm[d].ran = m.ran /\ OthersStay(s, r1, d)
      <4> DEFINE X == {d}
      <4>1. X \subseteq {d} /\ Good(s, X)
        BY <3>1
      <4> HIDE DEF X
      <4> QED
        BY <1>0, <3>1, <3>3, <4>1, RatChangedGood
    <3>5. r1.status = "up" /\ m.ran = "Iu" => Mine(r1, d, m.ue)
      BY <3>1, <3>4, StayMine
    <3>6. Good(r2, {d}) /\ (r2.status = "up" => Placed(r2, d)) /\ (r2.status # "up" => Good(r2, {}))
      <4>1. CASE r1.status = "up"
        <5>1. Good(Located(r1, d, m, l), {d}) /\ Placed(Located(r1, d, m, l), d) /\ Located(r1, d, m, l).status = "up"
          BY <1>0, <3>4, <3>5, <4>1, LocatedGood
        <5> QED
          BY <3>3, <4>1, <5>1
      <4>2. CASE r1.status # "up"
        BY <3>3, <3>4, <4>2
      <4> QED
        BY <4>1, <4>2
    <3> QED
      BY <3>2, <3>6, AttachingGood
  <2> QED
    BY <2>2, <2>3
<1> QED
  BY <1>1, <1>2

\* A context that stays where it is and keeps its new TLLI is settled afterwards.
LEMMA TurnedSettled ==
  ASSUME NEW r, Good(r, {}), NEW c \in DOMAIN r.mm, NEW q, NEW m, Turned(r, q, c, m),
         m.ran = r.mm[c].ran, m.llme = r.mm[c].llme, m.ue = r.mm[c].ue, m.tlli_new = r.mm[c].tlli_new
  PROVE  Good(q, {}) /\ c \in DOMAIN q.mm /\ q.mm[c] = m /\ q.mm[c].ran = r.mm[c].ran
<1>1. Placed(r, c) /\ (r.mm[c].ran = "Gb" => r.mm[c].tlli_new # None)
  BY GoodPlaced
<1>2. Placed(q, c) /\ Good(q, {c}) /\ c \in DOMAIN q.mm /\ q.mm[c] = m
  BY <1>1, TurnedPlaced DEF Turned, Becomes
<1> QED
  BY <1>1, <1>2, PlacedSettled

\* The old P-TMSI is given up.
LEMMA OldPtmsiGoneGood ==
  ASSUME NEW r, Good(r, {}), NEW c \in DOMAIN r.mm
  PROVE  LET q == OldPtmsiGone(r, c)
         IN  Good(q, {}) /\ c \in DOMAIN q.mm /\ q.mm[c].ran = r.mm[c].ran
<1> DEFINE o == r.mm[c]
           m == [o EXCEPT !.p_tmsi_old = None]
           q == rehash_ptmsi([r EXCEPT !.mm[c] = m], c)
<1>0. o \in MmType
  BY GoodFacts
<1>1. OldPtmsiGone(r, c) = q
  BY DEF OldPtmsiGone
<1> HIDE DEF o
<1>2. m \in MmType
  BY <1>0, MmSet
<1>3. /\ m.imsi = o.imsi /\ m.p_tmsi = o.p_tmsi /\ m.p_tmsi_old = None
      /\ m.tlli = o.tlli /\ m.tlli_new = o.tlli_new /\ m.ran = o.ran /\ m.llme = o.llme /\ m.ue = o.ue
  BY <1>0 DEF MmType
<1> HIDE DEF m
<1>4. Fits(r.mm, r.renamed, c, m)
  BY <1>3, SameFits DEF o
<1>5. Turned(r, q, c, m)
  <2>1. Good(r, {c})
    BY GoodWeaken
  <2> DEFINE X == {c}
  <2>2. X \subseteq {c} /\ Good(r, X)
    BY <2>1
  <2> HIDE DEF X
  <2> QED
    BY <1>2, <1>3, <1>4, <2>2, TurnPtmsi DEF o
<1> HIDE DEF q
<1> QED
  BY <1>1, <1>3, <1>5, TurnedSettled DEF o

\* The old TLLI is given up: the new one, which is not None, becomes current.
LEMMA OldTlliGoneGood ==
  ASSUME NEW r, Good(r, {}), NEW c \in DOMAIN r.mm
  PROVE  LET q == OldTlliGone(r, c)
         IN  Good(q, {}) /\ c \in DOMAIN q.mm /\ q.mm[c].ran = r.mm[c].ran
<1> DEFINE o == r.mm[c]
           m == [o EXCEPT !.tlli = o.tlli_new]
           q == rehash_tlli([r EXCEPT !.mm[c] = m], c)
<1>0. o \in MmType
  BY GoodFacts
<1>1. OldTlliGone(r, c) = IF o.ran = "Iu" THEN r ELSE q
  BY DEF OldTlliGone
<1> HIDE DEF o
<1>2. m \in MmType
  BY <1>0, MmFields, MmSet
<1>3. /\ m.imsi = o.imsi /\ m.p_tmsi = o.p_tmsi /\ m.p_tmsi_old = o.p_tmsi_old
      /\ m.tlli_new = o.tlli_new /\ m.ran = o.ran /\ m.llme = o.llme /\ m.ue = o.ue
  BY <1>0 DEF MmType
<1> HIDE DEF m
<1>5. Turned(r, q, c, m)
  <2>1. Good(r, {c})
    BY GoodWeaken
  <2> DEFINE X == {c}
  <2>2. X \subseteq {c} /\ Good(r, X)
    BY <2>1
  <2> HIDE DEF X
  <2> QED
    BY <1>2, <1>3, <2>2, TurnTlli DEF o
<1> HIDE DEF q
<1>6. Good(q, {}) /\ c \in DOMAIN q.mm /\ q.mm[c].ran = r.mm[c].ran
  BY <1>3, <1>5, TurnedSettled DEF o
<1> QED
  BY <1>1, <1>6

\* The LLME is told to accept only the new TLLI; a Gb context has an LLME.
LEMMA OnlyNewTlliGood ==
  ASSUME NEW r, Good(r, {}), NEW c \in DOMAIN r.mm
  PROVE  Good(OnlyNewTlli(r, c), {})
<1>1. CASE r.mm[c].ran = "Iu"
  BY <1>1 DEF OnlyNewTlli
<1>2. CASE r.mm[c].ran # "Iu"
  <2>1. r.mm[c] \in MmType
    BY GoodFacts
  <2>2. r.mm[c].ran = "Gb"
    BY <1>2, <2>1, MmFields
  <2>3. r.mm[c].llme # None /\ r.mm[c].tlli_new # None
    BY <2>2, GoodPlaced DEF Placed
  <2>4. r.mm[c].tlli_new \in Tllis /\ None \in Tllis \cup {None}
    BY <2>1, <2>3, MmFields
  <2>5. OnlyNewTlli(r, c) = gprs_llgmm_assign(r, r.mm[c].llme, None, r.mm[c].tlli_new)
    BY <1>2 DEF OnlyNewTlli
  <2> QED
    BY <2>3, <2>4, <2>5, AssignGood
<1> QED
  BY <1>1, <1>2

\* The states of a context change, and nothing else.
LEMMA StatesGood ==
  ASSUME NEW r, Good(r, {}), NEW c \in DOMAIN r.mm,
         NEW a \in {"deregistered", "common_proc_init", "registered"},
         NEW b \in {"idle", "ready"}, NEW d \in {"detached", "connected", "idle"}
  PROVE  LET q == [r EXCEPT !.mm[c] = [r.mm[c] EXCEPT !.gmm = a, !.mm = b, !.pmm = d]]
         IN  Good(q, {}) /\ c \in DOMAIN q.mm
<1> DEFINE o == r.mm[c]
           m == [o EXCEPT !.gmm = a, !.mm = b, !.pmm = d]
           q == [r EXCEPT !.mm[c] = m]
<1>0. o \in MmType
  BY GoodFacts
<1> HIDE DEF o
<1>2. m \in MmType
  BY <1>0, MmSet
<1>3. /\ m.imsi = o.imsi /\ m.p_tmsi = o.p_tmsi /\ m.p_tmsi_old = o.p_tmsi_old /\ m.tlli = o.tlli
      /\ m.tlli_new = o.tlli_new /\ m.ran = o.ran /\ m.llme = o.llme /\ m.ue = o.ue
  BY <1>0 DEF MmType
<1> HIDE DEF m
<1>5. Turned(r, q, c, m)
  <2>1. Good(r, {c})
    BY GoodWeaken
  <2> DEFINE X == {c}
  <2>2. X \subseteq {c} /\ Good(r, X)
    BY <2>1
  <2> HIDE DEF X
  <2> QED
    BY <1>2, <1>3, <2>2, TurnSame DEF o
<1> HIDE DEF q
<1>6. Good(q, {}) /\ c \in DOMAIN q.mm
  BY <1>3, <1>5, TurnedSettled DEF o
<1> QED
  BY <1>6 DEF q, m, o

\* An Attach Complete keeps the invariant.
LEMMA AttComplGood ==
  ASSUME NEW r, Good(r, {}), NEW c \in DOMAIN r.mm
  PROVE  Good(att_compl(r, c), {})
<1> DEFINE p == OldPtmsiGone(r, c)
           r1 == OldTlliGone(p, c)
           o == r1.mm[c]
           a == IF o.gmm = "common_proc_init" THEN "registered" ELSE o.gmm
           b == IF o.ran = "Gb" THEN "ready" ELSE o.mm
           d == IF o.ran = "Iu" THEN "connected" ELSE o.pmm
           r2 == [r1 EXCEPT !.mm[c] = [o EXCEPT !.gmm = a, !.mm = b, !.pmm = d]]
<1>1. Good(p, {}) /\ c \in DOMAIN p.mm
  BY OldPtmsiGoneGood
<1> HIDE DEF p
<1>2. Good(r1, {}) /\ c \in DOMAIN r1.mm
  BY <1>1, OldTlliGoneGood
<1> HIDE DEF r1
<1>3. o \in MmType /\ r1 \in RegSet
  BY <1>2, GoodFacts
<1>4. att_compl(r, c) = OnlyNewTlli(r2, c)
  <2> DEFINE e == [r1 EXCEPT !.mm[c].gmm = IF @ = "common_proc_init" THEN "registered" ELSE @,
                             !.mm[c].mm = IF r1.mm[c].ran = "Gb" THEN "ready" ELSE @,
                             !.mm[c].pmm = IF r1.mm[c].ran = "Iu" THEN "connected" ELSE @]
  <2>1. att_compl(r, c) = OnlyNewTlli(e, c)
    BY DEF att_compl, p, r1
  <2>2. e = [r1 EXCEPT !.mm[c].gmm = a, !.mm[c].mm = b, !.mm[c].pmm = d]
    BY <1>2, <1>3 DEF RegSet, MmType
  <2> HIDE DEF e, a, b, d
  <2>3. e = r2
    BY <1>2, <1>3, <2>2 DEF RegSet
  <2> QED
    BY <2>1, <2>3
<1>5. /\ a \in {"deregistered", "common_proc_init", "registered"}
      /\ b \in {"idle", "ready"} /\ d \in {"detached", "connected", "idle"}
  BY <1>3, MmStates
<1> HIDE DEF a, b, d
<1>6. Good(r2, {}) /\ c \in DOMAIN r2.mm
  BY <1>2, <1>5, StatesGood, ZenonT(30)
<1> HIDE DEF r2
<1> QED
  BY <1>4, <1>6, OnlyNewTlliGood

\* An RA Update Complete keeps the invariant.
LEMMA RaUpdComplGood ==
  ASSUME NEW r, Good(r, {}), NEW c \in DOMAIN r.mm
  PROVE  Good(ra_upd_compl(r, c), {})
<1> DEFINE p == OldPtmsiGone(r, c)
           r1 == OldTlliGone(p, c)
           o == r1.mm[c]
           a == IF o.gmm = "common_proc_init" THEN "registered" ELSE o.gmm
           b == o.mm
           d == IF o.ran = "Iu" THEN Resumed(o.pmm) ELSE o.pmm
           r2 == [r1 EXCEPT !.mm[c] = [o EXCEPT !.gmm = a, !.mm = b, !.pmm = d]]
<1>1. Good(p, {}) /\ c \in DOMAIN p.mm
  BY OldPtmsiGoneGood
<1> HIDE DEF p
<1>2. Good(r1, {}) /\ c \in DOMAIN r1.mm
  BY <1>1, OldTlliGoneGood
<1> HIDE DEF r1
<1>3. o \in MmType /\ r1 \in RegSet
  BY <1>2, GoodFacts
<1>4. ra_upd_compl(r, c) = OnlyNewTlli(r2, c)
  <2> DEFINE e == [r1 EXCEPT !.mm[c].gmm = IF @ = "common_proc_init" THEN "registered" ELSE @,
                             !.mm[c].pmm = IF r1.mm[c].ran = "Iu" THEN Resumed(@) ELSE @]
  <2>1. ra_upd_compl(r, c) = OnlyNewTlli(e, c)
    BY DEF ra_upd_compl, p, r1
  <2>2. e = [r1 EXCEPT !.mm[c].gmm = a, !.mm[c].mm = b, !.mm[c].pmm = d]
    BY <1>2, <1>3, ZenonT(30) DEF RegSet, MmType
  <2> HIDE DEF e, a, b, d
  <2>3. e = r2
    BY <1>2, <1>3, <2>2 DEF RegSet
  <2> QED
    BY <2>1, <2>3
<1>5. /\ a \in {"deregistered", "common_proc_init", "registered"}
      /\ b \in {"idle", "ready"} /\ d \in {"detached", "connected", "idle"}
  BY <1>3, MmStates DEF Resumed
<1> HIDE DEF a, b, d
<1>6. Good(r2, {}) /\ c \in DOMAIN r2.mm
  BY <1>2, <1>5, StatesGood, ZenonT(30)
<1> HIDE DEF r2
<1> QED
  BY <1>4, <1>6, OnlyNewTlliGood

\* A P-TMSI Reallocation Complete keeps the invariant.
LEMMA ReallComplGood ==
  ASSUME NEW r, Good(r, {}), NEW c \in DOMAIN r.mm
  PROVE  Good(ptmsi_reall_compl(r, c), {})
  BY OldPtmsiGoneGood, OldTlliGoneGood DEF ptmsi_reall_compl

\* Where an RA Update Request puts the context.
LEMMA RauPlaced ==
  ASSUME NEW r, NEW c, Good(r, {c}), c \in DOMAIN r.mm, NEW m \in Messages, r.mm[c].ran = m.ran,
         m.ran = "Gb" => r.mm[c].llme # None, m.ran = "Iu" => Mine(r, c, m.ue)
  PROVE  Good(RauLocated(r, c, m), {c}) /\ Placed(RauLocated(r, c, m), c)
<1> DEFINE o == r.mm[c]
<1>0. o \in MmType /\ r \in RegSet /\ m.ra \in Ras
  BY GoodFacts, MsgFields
<1>1. CASE m.ran = "Iu"
  <2> DEFINE n == [o EXCEPT !.ue = m.ue]
             q == [r EXCEPT !.mm[c] = n]
  <2>1. q = [r EXCEPT !.mm[c].ue = m.ue]
    OBVIOUS
  <2>2. m.ue \in Ues
    BY <1>1, MsgFields
  <2> HIDE DEF o
  <2>3. n \in MmType
    BY <1>0, <2>2, MmSet
  <2>4. /\ n.imsi = o.imsi /\ n.p_tmsi = o.p_tmsi /\ n.p_tmsi_old = o.p_tmsi_old
        /\ n.tlli = o.tlli /\ n.tlli_new = o.tlli_new /\ n.ran = o.ran /\ n.ue = m.ue
    BY <1>0 DEF MmType
  <2> HIDE DEF n
  <2>5. Turned(r, q, c, n)
    BY <2>3, <2>4, TurnSame DEF o
  <2> HIDE DEF q
  <2>6. Good(q, {c}) /\ c \in DOMAIN q.mm /\ q.mm[c] = n /\ Becomes(r.mm, q.mm, c, n)
    BY <2>5 DEF Turned, Becomes
  <2>7. UeFits(q.mm, c, n)
    BY <1>1, <2>4, <2>6 DEF UeFits, Mine, Becomes
  <2>8. Placed(q, c)
    BY <1>1, <2>2, <2>4, <2>6, <2>7, Special DEF Placed, o
  <2> QED
    BY <1>1, <2>1, <2>6, <2>8 DEF RauLocated
<1>2. CASE m.ran # "Iu"
  <2> DEFINE n == [o EXCEPT !.ra = m.ra, !.tlli = m.tlli]
             q == rehash_tlli([r EXCEPT !.mm[c] = n], c)
  <2>1. q = rehash_tlli([r EXCEPT !.mm[c].ra = m.ra, !.mm[c].tlli = m.tlli], c)
    <3>1. [r EXCEPT !.mm[c].ra = m.ra, !.mm[c].tlli = m.tlli] = [r EXCEPT !.mm[c] = n]
      BY <1>0 DEF RegSet
    <3> QED
      BY <3>1
  <2>2. m.ran = "Gb" /\ m.tlli \in Tllis
    BY <1>2, MsgFields
  <2> HIDE DEF o
  <2>3. n \in MmType
    BY <1>0, <2>2, MmSet
  <2>4. /\ n.imsi = o.imsi /\ n.p_tmsi = o.p_tmsi /\ n.p_tmsi_old = o.p_tmsi_old
        /\ n.ran = o.ran /\ n.llme = o.llme
    BY <1>0 DEF MmType
  <2> HIDE DEF n
  <2>5. Turned(r, q, c, n)
    BY <2>3, <2>4, TurnTlli DEF o
  <2> HIDE DEF q
  <2>6. Good(q, {c}) /\ c \in DOMAIN q.mm /\ q.mm[c] = n
    BY <2>5 DEF Turned, Becomes
  <2>7. n.ran = "Gb" /\ UeFits(q.mm, c, n) /\ n.llme # None
    BY <2>2, <2>4 DEF UeFits, o
  <2>8. Placed(q, c)
    BY <2>2, <2>4, <2>6, <2>7 DEF Placed
  <2> QED
    BY <1>2, <2>1, <2>6, <2>8 DEF RauLocated
<1> QED
  BY <1>1, <1>2

\* An RA Update Request that is accepted leaves its context settled.
LEMMA RauAcceptedGood ==
  ASSUME NEW r, Good(r, {}), r.status = "up", NEW c \in DOMAIN r.mm, NEW m \in Messages,
         NEW l, m.ran = "Gb" => l \in Llmes, m.ran = "Iu" => Mine(r, c, m.ue),
         NEW q \in RauAccepted(r, c, m, l)
  PROVE  Good(q, {})
<1> DEFINE r1 == RatChanged(r, c, m, l)
           r2 == [r1 EXCEPT !.mm[c].gmm = "common_proc_init"]
           r3 == IF r.mm[c].ran = m.ran THEN r1 ELSE r2
           r4 == RauLocated(r3, c, m)
           Asked == IF r.mm[c].imsi = None THEN {TRUE} ELSE BOOLEAN
           Accepted == {new_tlli([o[1] EXCEPT !.mm[c].asked = o[2]], c) : o \in ptmsi_update(r4, c) \X Asked}
<1>1. q \in IF r1.status # "up" THEN {r1} ELSE Accepted
  BY DEF RauAccepted
<1> HIDE DEF Accepted
<1>2. Placed(r, c)
  BY GoodPlaced
<1>3. /\ Good(r1, {c}) /\ (r1.status # "up" => Good(r1, {}))
      /\ r1.status = "up" =>
           /\ c \in DOMAIN r1.mm /\ r1.mm[c].ran = m.ran /\ OthersStay(r, r1, c)
           /\ m.ran = "Gb" => r1.mm[c].llme # None
  <2>1. Good(r, {c})
    BY GoodWeaken
  <2> DEFINE X == {c}
  <2>2. X \subseteq {c} /\ Good(r, X)
    BY <2>1
  <2> HIDE DEF X
  <2> QED
    BY <1>2, <2>2, RatChangedGood DEF Placed
<1>4. CASE r1.status # "up"
  BY <1>1, <1>3, <1>4
<1>5. CASE r1.status = "up"
  <2>1. PICK p \in ptmsi_update(r4, c), a \in BOOLEAN : q = new_tlli([p EXCEPT !.mm[c].asked = a], c)
    <3> HIDE DEF r1, r2, r3, r4
    <3>1. q \in Accepted
      BY <1>1, <1>5
    <3>2. PICK o \in ptmsi_update(r4, c) \X Asked : q = new_tlli([o[1] EXCEPT !.mm[c].asked = o[2]], c)
      BY <3>1 DEF Accepted
    <3>3. o[1] \in ptmsi_update(r4, c) /\ o[2] \in BOOLEAN
      BY <3>2
    <3> QED
      BY <3>2, <3>3
  <2> HIDE DEF r1
  <2>2. /\ Good(r3, {c}) /\ c \in DOMAIN r3.mm /\ r3.mm[c].ran = m.ran /\ OthersStay(r, r3, c)
        /\ m.ran = "Gb" => r3.mm[c].llme # None
    <3>1. Good(r1, {c}) /\ c \in DOMAIN r1.mm
      BY <1>3, <1>5
    <3>2. r2 = Common(r1, c)
      BY DEF Common
    <3> HIDE DEF r2
    <3>3. /\ Good(r2, {c}) /\ c \in DOMAIN r2.mm /\ OthersStay(r1, r2, c)
          /\ r2.mm[c].ran = r1.mm[c].ran /\ r2.mm[c].llme = r1.mm[c].llme
      BY <3>1, <3>2, CommonGood
    <3>4. OthersStay(r, r2, c)
      BY <1>3, <1>5, <3>3 DEF OthersStay
    <3> QED
      BY <1>3, <1>5, <3>3, <3>4
  <2> HIDE DEF r3
  <2>3. m.ran = "Iu" => Mine(r3, c, m.ue)
    BY <2>2, StayMine
  <2>4. Good(r4, {c}) /\ Placed(r4, c)
    BY <2>2, <2>3, RauPlaced
  <2> HIDE DEF r4
  <2>5. Good(p, {c}) /\ Placed(p, c)
    BY <2>4, PtmsiUpdateGood
  <2> DEFINE s == [p EXCEPT !.mm[c].asked = a]
  <2>6. c \in DOMAIN p.mm
    BY <2>5 DEF Placed
  <2>7. Good(s, {c}) /\ Placed(s, c)
    BY <2>5, <2>6, TurnAsked
  <2> HIDE DEF s
  <2>8. q = new_tlli(s, c)
    BY <2>1 DEF s
  <2> QED
    BY <2>7, <2>8, NewTlliGood
<1> QED
  BY <1>4, <1>5

\* An RA Update Request keeps the invariant.
LEMMA RaUpdReqGood ==
  ASSUME NEW r, NEW c, NEW l, NEW m, Entry(r, c, l, m), NEW q \in ra_upd_req(r, c, l, m)
  PROVE  Good(q, {})
<1>0. /\ Good(r, {}) /\ Exact(r) /\ m \in Messages /\ r.status = "up" /\ (m.ran = "Gb" => l \in Llmes)
      /\ c # None => c \in DOMAIN r.mm
  BY GoodFacts DEF Entry
<1>1. CASE m.flaw = "bad"
  BY <1>0, <1>1, RejectedGood DEF ra_upd_req
<1>2. CASE m.flaw # "bad" /\ c # None
  <2>1. c \in DOMAIN r.mm /\ (m.ran = "Iu" => Mine(r, c, m.ue))
    BY <1>0, <1>2, FoundMine
  <2>2. Good(cleanup_free(r, c), {})
    <3> DEFINE X == {}
    <3>1. X \subseteq {c} /\ Good(r, X)
      BY <1>0
    <3> HIDE DEF X
    <3> QED
      BY <2>1, <3>1, CleanupGood
  <2>3. q = cleanup_free(r, c) \/ q \in RauAccepted(r, c, m, l)
    BY <1>2 DEF ra_upd_req
  <2> QED
    BY <1>0, <2>1, <2>2, <2>3, RauAcceptedGood
<1>3. CASE m.flaw # "bad" /\ c = None
  <2> DEFINE d == RauContext(r, m)
             s == IF r.mm[d].ran = m.ran THEN [r EXCEPT !.mm[d].gmm = "common_proc_init"] ELSE r
             e == IF l = None THEN None ELSE by_llme(r, l)
  <2>1. IF d = None THEN q = Rejected(r, e, l) ELSE q \in RauAccepted(s, d, m, l)
    BY <1>3 DEF ra_upd_req
  <2>2. CASE d = None
    <3>1. e # None => e \in DOMAIN r.mm
      BY <1>0, ByOthers, LocalTlli
    <3> QED
      BY <1>0, <2>1, <2>2, <3>1, RejectedGood
  <2>3. CASE d # None
    <3>1. d \in DOMAIN r.mm
      <4>1. CASE m.ran = "Gb"
        BY <1>0, <2>3, <4>1, MsgFields, ByOthers DEF RauContext
      <4>2. CASE m.ran # "Gb"
        BY <1>0, <2>3, <4>2, ByPtmsi DEF RauContext
      <4> QED
        BY <4>1, <4>2
    <3>2. m.ran = "Iu" => Mine(r, d, m.ue)
      BY <1>3, FoundMine
    <3>3. s = IF r.mm[d].ran = m.ran THEN Common(r, d) ELSE r
      BY DEF Common
    <3>4. q \in RauAccepted(s, d, m, l)
      BY <2>1, <2>3
    <3> HIDE DEF d, s
    <3>5. Good(s, {}) /\ s.status = "up" /\ d \in DOMAIN s.mm /\ OthersStay(r, s, d)
      <4>1. CASE r.mm[d].ran = m.ran
        <5>1. Good(r, {d}) /\ Placed(r, d) /\ (r.mm[d].ran = "Gb" => r.mm[d].tlli_new # None)
          BY <1>0, <3>1, GoodPlaced
        <5>2. s = Common(r, d)
          BY <3>3, <4>1
        <5>3. /\ Good(s, {d}) /\ Placed(s, d) /\ s.mm[d].ran = r.mm[d].ran
              /\ s.mm[d].tlli_new = r.mm[d].tlli_new /\ s.status = r.status
              /\ d \in DOMAIN s.mm /\ OthersStay(r, s, d)
          BY <3>1, <5>1, <5>2, CommonGood
        <5> QED
          BY <1>0, <5>1, <5>3, PlacedSettled
      <4>2. CASE r.mm[d].ran # m.ran
        BY <1>0, <3>1, <3>3, <4>2 DEF OthersStay
      <4> QED
        BY <4>1, <4>2
    <3>6. m.ran = "Iu" => Mine(s, d, m.ue)
      BY <3>2, <3>5, StayMine
    <3> QED
      BY <1>0, <3>4, <3>5, <3>6, RauAcceptedGood
  <2> QED
    BY <2>2, <2>3
<1> QED
  BY <1>1, <1>2, <1>3

\* What is left when a context has been freed and the process goes on.
LEMMA CleanupUp ==
  ASSUME NEW r, NEW c \in DOMAIN r.mm, Exact(r), cleanup_free(r, c).status = "up"
  PROVE  LET q == cleanup_free(r, c)
         IN  DOMAIN q.mm = DOMAIN r.mm \ {c} /\ Shrinks(r.mm, q.mm) /\ q.renamed = r.renamed
<1> DEFINE m == r.mm[c]
           p == sgsn_mm_ctx_unlink(r, c)
           q == cleanup_free(r, c)
           s == gprs_llgmm_unassign(p, m.llme, Shared)
<1>1. Dead("assert llme").status # "up"
  BY DEF Dead, Boot
<1>2. q = IF m.llme = None THEN p ELSE s
  BY <1>1 DEF cleanup_free
<1>3. /\ Exact(p) /\ p.renamed = r.renamed /\ DOMAIN p.mm = DOMAIN r.mm \ {c}
      /\ \A d \in DOMAIN p.mm : p.mm[d] = r.mm[d]
  BY Unlinked
<1> HIDE DEF p, q
<1>4. Shrinks(r.mm, p.mm)
  BY <1>3 DEF Shrinks, Relinked
<1>5. CASE m.llme = None
  BY <1>2, <1>3, <1>4, <1>5 DEF q
<1>6. CASE m.llme # None
  <2>1. q = s /\ s.status = "up"
    BY <1>2, <1>6 DEF q
  <2>2. DOMAIN s.mm = DOMAIN p.mm /\ Shrinks(p.mm, s.mm) /\ s.renamed = p.renamed
    BY <1>3, <2>1, UnassignUp
  <2> HIDE DEF s
  <2>3. Shrinks(r.mm, s.mm)
    BY <1>4, <2>2 DEF Shrinks, Relinked
  <2> QED
    BY <1>3, <2>1, <2>2, <2>3 DEF q
<1> QED
  BY <1>5, <1>6

\* Context c is given IMSI i, and N are the IMSIs known to have taken another one's place.
Renamed(r, c, i, N) == rehash_imsi([r EXCEPT !.mm[c].imsi = i, !.renamed = N], c)

\* A context gets an IMSI that at most the contexts of a renamed one have.
LEMMA RenamedGood ==
  ASSUME NEW r, Good(r, {}), NEW c \in DOMAIN r.mm, NEW i \in Imsis, NEW N \in SUBSET Imsis,
         r.renamed \subseteq N, \A d \in DOMAIN r.mm : d # c /\ r.mm[d].imsi = i => i \in N
  PROVE  Good(Renamed(r, c, i, N), {})
<1> DEFINE o == r.mm[c]
           m == [o EXCEPT !.imsi = i]
           b == [r EXCEPT !.mm[c] = m]
           p == [b EXCEPT !.renamed = N]
           q == rehash_imsi(p, c)
<1>0. Exact(r) /\ r \in RegSet /\ o \in MmType /\ c \in Ctxs
  BY GoodFacts
<1>1. Renamed(r, c, i, N) = q
  BY <1>0 DEF RegSet, Renamed
<1> HIDE DEF o
<1>2. m \in MmType
  BY <1>0, MmSet
<1>3. /\ m.imsi = i /\ m.p_tmsi = o.p_tmsi /\ m.p_tmsi_old = o.p_tmsi_old /\ m.tlli = o.tlli
      /\ m.tlli_new = o.tlli_new /\ m.ran = o.ran /\ m.llme = o.llme /\ m.ue = o.ue
  BY <1>0 DEF MmType
<1> HIDE DEF m
<1>4. /\ b \in RegSet
      /\ DOMAIN b.mm = DOMAIN r.mm /\ b.mm[c] = m
      /\ \A d \in DOMAIN r.mm : d # c => b.mm[d] = r.mm[d]
      /\ b.status = r.status /\ b.mm_list = r.mm_list /\ b.llmes = r.llmes /\ b.llme = r.llme
      /\ b.by_imsi = r.by_imsi /\ b.by_ptmsi = r.by_ptmsi /\ b.by_ptmsi_old = r.by_ptmsi_old
      /\ b.by_tlli = r.by_tlli /\ b.by_tlli_new = r.by_tlli_new
  BY <1>0, <1>2, SetMm
<1> HIDE DEF b
<1>5. /\ p \in RegSet /\ p.mm = b.mm /\ p.renamed = N
      /\ p.status = b.status /\ p.mm_list = b.mm_list /\ p.llmes = b.llmes /\ p.llme = b.llme
      /\ p.by_imsi = b.by_imsi /\ p.by_ptmsi = b.by_ptmsi /\ p.by_ptmsi_old = b.by_ptmsi_old
      /\ p.by_tlli = b.by_tlli /\ p.by_tlli_new = b.by_tlli_new
  BY <1>4 DEF RegSet
<1> HIDE DEF p
<1>6. /\ q \in RegSet /\ q.mm = p.mm
      /\ q.status = p.status /\ q.renamed = p.renamed /\ q.mm_list = p.mm_list
      /\ q.llmes = p.llmes /\ q.llme = p.llme
      /\ q.by_imsi = hash_add(p.by_imsi, c, p.mm[c].imsi)
      /\ q.by_ptmsi = p.by_ptmsi /\ q.by_ptmsi_old = p.by_ptmsi_old
      /\ q.by_tlli = p.by_tlli /\ q.by_tlli_new = p.by_tlli_new
  BY <1>4, <1>5, RehashImsi
<1> HIDE DEF q
<1>7. Becomes(r.mm, q.mm, c, m)
  BY <1>4, <1>5, <1>6 DEF Becomes
<1>8. /\ Rehashed(r.by_imsi, q.by_imsi, Imsis, c, DOMAIN r.mm, r.mm[c].imsi, m.imsi)
      /\ Rehashed(r.by_ptmsi, q.by_ptmsi, Ptmsis, c, DOMAIN r.mm, r.mm[c].p_tmsi, m.p_tmsi)
      /\ Rehashed(r.by_ptmsi_old, q.by_ptmsi_old, Ptmsis, c, DOMAIN r.mm, r.mm[c].p_tmsi_old, m.p_tmsi_old)
      /\ Rehashed(r.by_tlli, q.by_tlli, Tllis, c, DOMAIN r.mm, r.mm[c].tlli, m.tlli)
      /\ Rehashed(r.by_tlli_new, q.by_tlli_new, Tllis, c, DOMAIN r.mm, r.mm[c].tlli_new, m.tlli_new)
  BY <1>3, <1>4, <1>5, <1>6 DEF Rehashed, o
<1>9. q.mm_list = r.mm_list /\ q.llmes = r.llmes /\ q.llme = r.llme /\ q.status = r.status /\ q.renamed = N
  BY <1>4, <1>5, <1>6
<1>10. Exact(q)
  BY <1>0, <1>6, <1>7, <1>8, <1>9, Reindexed
<1>11. Fits(r.mm, q.renamed, c, m)
  <2>1. PtmsiAlone(r.mm)
    BY DEF Good
  <2> QED
    BY <1>3, <1>9, <2>1 DEF Fits, PtmsiAlone, o
<1>12. Turned(r, q, c, m)
  <2>1. Good(r, {c})
    BY GoodWeaken
  <2> DEFINE X == {c}
  <2>2. X \subseteq {c} /\ Good(r, X)
    BY <2>1
  <2> HIDE DEF X
  <2>3. Good(q, {c})
    BY <1>7, <1>9, <1>10, <1>11, <2>2, GoodBecomes
  <2> QED
    BY <1>7, <1>9, <2>3 DEF Turned, Becomes
<1>13. Good(q, {})
  BY <1>3, <1>12, TurnedSettled DEF o
<1> QED
  BY <1>1, <1>13

\* An Identity Response: the other context of the subscriber goes first, and what is left with
\* this IMSI was renamed to it.
LEMMA IdRespGood ==
  ASSUME NEW r, Good(r, {}), r.status = "up", NEW c \in DOMAIN r.mm, NEW i
  PROVE  Good(id_resp(r, c, i), {})
<1> DEFINE m == r.mm[c]
           other == by_imsi(r, i)
           r1 == IF m.imsi = None /\ other # None THEN cleanup_free(r, other) ELSE r
           N == IF m.imsi \in {None, i} THEN r1.renamed ELSE r1.renamed \cup {i}
           q == Renamed(r1, c, i, N)
<1>1. id_resp(r, c, i) = IF ~m.asked \/ i \notin Imsis THEN r ELSE IF r1.status # "up" THEN r1 ELSE q
  BY DEF id_resp, Renamed
<1>2. CASE ~m.asked \/ i \notin Imsis
  BY <1>1, <1>2
<1>3. CASE m.asked /\ i \in Imsis
  <2>0. Exact(r) /\ ImsiAlone(r.mm, r.renamed) /\ i # None
    BY <1>3, Special DEF Good
  <2>1. /\ other # None => other \in DOMAIN r.mm /\ r.mm[other].imsi = i
        /\ other = None => \A d \in DOMAIN r.mm : r.mm[d].imsi # i
    BY <1>3, <2>0, ByImsi
  <2> HIDE DEF other
  <2>2. Good(r1, {})
    <3> DEFINE X == {}
    <3>1. X \subseteq {other} /\ Good(r, X)
      OBVIOUS
    <3> HIDE DEF X
    <3>2. other # None => Good(cleanup_free(r, other), {})
      BY <2>1, <3>1, CleanupGood
    <3> QED
      BY <3>2
  <2>3. CASE r1.status # "up"
    BY <1>1, <1>3, <2>2, <2>3
  <2>4. CASE r1.status = "up"
    <3>1. /\ c \in DOMAIN r1.mm /\ r1.renamed = r.renamed
          /\ \A d \in DOMAIN r1.mm : d \in DOMAIN r.mm /\ r1.mm[d].imsi = r.mm[d].imsi
          /\ m.imsi = None /\ other # None => other \notin DOMAIN r1.mm
      <4>1. CASE m.imsi = None /\ other # None
        <5>1. other # c /\ r1 = cleanup_free(r, other)
          BY <2>0, <2>1, <4>1
        <5>2. DOMAIN r1.mm = DOMAIN r.mm \ {other} /\ Shrinks(r.mm, r1.mm) /\ r1.renamed = r.renamed
          BY <2>0, <2>1, <2>4, <4>1, <5>1, CleanupUp
        <5> HIDE DEF r1
        <5> QED
          BY <5>1, <5>2 DEF Shrinks, Relinked
      <4>2. CASE ~(m.imsi = None /\ other # None)
        <5>1. r1 = r
          BY <4>2
        <5> QED
          BY <4>2, <5>1
      <4> QED
        BY <4>1, <4>2
    <3> HIDE DEF r1
    <3>2. N \in SUBSET Imsis /\ r1.renamed \subseteq N
      <4>1. r1 \in RegSet
        BY <2>2, GoodFacts
      <4> QED
        BY <1>3, <4>1 DEF RegSet
    <3>3. \A d \in DOMAIN r1.mm : d # c /\ r1.mm[d].imsi = i => i \in N
      <4>1. CASE m.imsi = None
        BY <2>0, <2>1, <3>1, <4>1 DEF ImsiAlone
      <4>2. CASE m.imsi = i
        BY <2>0, <3>1, <4>2 DEF ImsiAlone
      <4>3. CASE m.imsi \notin {None, i}
        BY <4>3
      <4> QED
        BY <4>1, <4>2, <4>3
    <3> HIDE DEF N
    <3>4. Good(q, {})
      BY <1>3, <2>2, <3>1, <3>2, <3>3, RenamedGood
    <3> QED
      BY <1>1, <1>3, <2>4, <3>4
  <2> QED
    BY <2>3, <2>4
<1> QED
  BY <1>2, <1>3

\* A Service Request moves the context to the connection it came on.
LEMMA ServiceReqGood ==
  ASSUME NEW r, NEW c, NEW l, NEW m, Entry(r, c, l, m), m.type = "service_req",
         NEW q \in service_req(r, c, m)
  PROVE  Good(q, {})
<1> DEFINE d == ServiceContext(r, c, m)
           old == r.mm[d]
<1>0. /\ Good(r, {}) /\ Exact(r) /\ m \in Messages /\ (c # None => c \in DOMAIN r.mm)
      /\ m.ran = "Iu" /\ m.ue \in Ues /\ m.mi \in Imsis \cup Ptmsis \cup {None}
  <2>1. m \in MessageType
    BY RegistryAssumption DEF Entry
  <2> QED
    BY <2>1, GoodFacts DEF Entry, MessageType
<1>1. CASE d = None \/ m.mi = None \/ m.flaw = "bad"
  BY <1>0, <1>1 DEF service_req
<1>2. CASE ~(d = None \/ m.mi = None \/ m.flaw = "bad")
  <2>1. PICK o \in ServiceOutcomes(old) : q = Served(r, d, m, o)
    BY <1>2 DEF service_req
  <2>2. d \in DOMAIN r.mm
    BY <1>0, <1>2, ByMi DEF ServiceContext
  <2>3. Mine(r, d, m.ue)
    BY <1>0, FoundMine DEF ServiceContext
  <2> HIDE DEF d
  <2>4. old \in MmType
    BY <1>0, <2>2, GoodFacts
  <2> HIDE DEF old
  <2>5. o[1] \in BOOLEAN /\ o[2] \in {"detached", "connected", "idle"}
    <3>1. old.asked \in BOOLEAN /\ old.pmm \in {"detached", "connected", "idle"}
      BY <2>4, MmStates
    <3>2. Resumed(old.pmm) \in {"detached", "connected", "idle"}
      BY <3>1 DEF Resumed
    <3> DEFINE a == old.asked
               b == old.pmm
               x == Resumed(old.pmm)
    <3>3. o = <<a, b>> \/ o = <<TRUE, b>> \/ o = <<FALSE, b>> \/ o = <<FALSE, x>>
      BY Zenon DEF ServiceOutcomes
    <3>4. a \in BOOLEAN /\ b \in {"detached", "connected", "idle"} /\ x \in {"detached", "connected", "idle"}
      BY <3>1, <3>2
    <3> HIDE DEF a, b, x
    <3>5. CASE o = <<a, b>>
      <4>1. o[1] = a /\ o[2] = b
        BY <3>5
      <4> QED
        BY <3>4, <4>1, Zenon
    <3>6. CASE o = <<TRUE, b>>
      <4>1. o[1] = TRUE /\ o[2] = b
        BY <3>6
      <4> QED
        BY <3>4, <4>1, Zenon
    <3>7. ASSUME NEW y, o = <<FALSE, y>>, y \in {b, x}
          PROVE  o[1] \in BOOLEAN /\ o[2] \in {"detached", "connected", "idle"}
      <4>1. o[1] = FALSE /\ o[2] = y
        BY <3>7
      <4>2. y \in {"detached", "connected", "idle"}
        BY <3>4, <3>7
      <4> QED
        BY <4>1, <4>2, Zenon
    <3> QED
      BY <3>3, <3>5, <3>6, <3>7, Zenon
  <2> DEFINE n == [old EXCEPT !.ue = m.ue, !.gmm = "common_proc_init", !.asked = o[1], !.pmm = o[2]]
             s == [r EXCEPT !.mm[d] = n]
  <2>6. q = s
    BY <2>1 DEF Served, old
  <2>7. n \in MmType
    BY <1>0, <2>4, <2>5, MmSet
  <2>8. /\ n.imsi = old.imsi /\ n.p_tmsi = old.p_tmsi /\ n.p_tmsi_old = old.p_tmsi_old /\ n.tlli = old.tlli
        /\ n.tlli_new = old.tlli_new /\ n.ran = old.ran /\ n.llme = old.llme /\ n.ue = m.ue
    BY <2>4 DEF MmType
  <2> HIDE DEF n
  <2>9. Turned(r, s, d, n)
    <3>1. Good(r, {d})
      BY <1>0, GoodWeaken
    <3> DEFINE X == {d}
    <3>2. X \subseteq {d} /\ Good(r, X)
      BY <3>1
    <3> HIDE DEF X
    <3> QED
      BY <2>2, <2>7, <2>8, <3>2, TurnSame DEF old
  <2> HIDE DEF s
  <2>10. Good(s, {d}) /\ d \in DOMAIN s.mm /\ s.mm[d] = n /\ Mine(s, d, m.ue)
    BY <2>3, <2>9, BecomesStay, StayMine DEF Turned, Becomes
  <2>11. (old.ran = "Gb" => old.llme # None /\ old.tlli_new # None) /\ m.ue # Gone
    <3>1. Settled(r.mm[d])
      BY <1>0, <2>2, GoodWeaken
    <3> QED
      BY <1>0, <3>1, Special DEF Settled, old
  <2>12. Placed(s, d)
    BY <2>8, <2>10, <2>11 DEF Placed, UeFits, Mine
  <2>13. Good(s, {})
    BY <2>8, <2>10, <2>11, <2>12, PlacedSettled
  <2> QED
    BY <2>6, <2>13
<1> QED
  BY <1>1, <1>2

-----------------------------------------------------------------------------
(* The dispatch of a message and the entry points.                         *)

\* A message of no context.
LEMMA UnknownGood ==
  ASSUME NEW r, Good(r, {}), NEW l, NEW m
  PROVE  Good(Unknown(r, l, m), {})
<1>1. l # None => Good(gprs_llgmm_unassign(r, l, Stray), {})
  <2> DEFINE how == Stray
  <2>1. how \in {Stray, Shared}
    OBVIOUS
  <2> HIDE DEF how
  <2>2. l # None => Good(gprs_llgmm_unassign(r, l, how), {})
    BY <2>1, UnassignGood
  <2> QED
    BY <2>2 DEF how
<1> QED
  BY <1>1 DEF Unknown

\* A message of a context.
LEMMA KnownGood ==
  ASSUME NEW r, Good(r, {}), r.status = "up", NEW c \in DOMAIN r.mm, NEW m
  PROVE  Good(Known(r, c, m), {})
<1>1. Good(id_resp(r, c, m.mi), {})
  BY IdRespGood
<1>2. Good(att_compl(r, c), {}) /\ Good(ra_upd_compl(r, c), {}) /\ Good(ptmsi_reall_compl(r, c), {})
  BY AttComplGood, RaUpdComplGood, ReallComplGood
<1>3. Good(cleanup_free(r, c), {})
  <2> DEFINE X == {}
  <2>1. X \subseteq {c} /\ Good(r, X)
    OBVIOUS
  <2> HIDE DEF X
  <2> QED
    BY <2>1, CleanupGood
<1> QED
  BY <1>1, <1>2, <1>3 DEF Known

\* Every GMM message keeps the invariant.
LEMMA RcvGmmGood ==
  ASSUME NEW r, NEW c, NEW l, NEW m, Entry(r, c, l, m), NEW q \in rcv_gmm(r, c, l, m)
  PROVE  Good(q, {})
<1>1. CASE m.type = "att_req"
  BY <1>1, AttReqGood DEF rcv_gmm
<1>2. CASE m.type = "ra_upd_req"
  BY <1>2, RaUpdReqGood DEF rcv_gmm
<1>3. CASE m.type = "service_req"
  BY <1>3, ServiceReqGood DEF rcv_gmm
<1>4. CASE m.type \notin {"att_req", "ra_upd_req", "service_req"}
  <2>1. q = IF c = None THEN Unknown(r, l, m) ELSE IF r.mm[c].ran # m.ran THEN r ELSE Known(r, c, m)
    BY <1>4 DEF rcv_gmm
  <2>2. Good(r, {}) /\ r.status = "up" /\ (c # None => c \in DOMAIN r.mm)
    BY DEF Entry
  <2>3. Good(Unknown(r, l, m), {})
    BY <2>2, UnknownGood
  <2>4. c # None => Good(Known(r, c, m), {})
    BY <2>2, KnownGood
  <2> QED
    BY <2>1, <2>2, <2>3, <2>4
<1> QED
  BY <1>1, <1>2, <1>3, <1>4

\* A new LLME.
LEMMA LlmeAlloced ==
  ASSUME NEW r, Good(r, {}), NEW l \in Llmes, NEW t \in Tllis
  PROVE  LET q == llme_alloc(r, l, t) IN Good(q, {}) /\ q.mm = r.mm /\ q.status = r.status
<1> DEFINE q == llme_alloc(r, l, t)
           n == [tlli |-> t, old_tlli |-> None]
           g == [k \in DOMAIN r.llme \cup {l} |-> IF k = l THEN n ELSE r.llme[k]]
           s == <<l>> \o r.llmes
<1>0. r \in RegSet /\ Exact(r) /\ ListsExact(r)
  BY GoodFacts DEF Exact
<1>1. q = [r EXCEPT !.llmes = s, !.llme = g]
  BY DEF llme_alloc
<1>2. n \in LlmeType
  BY DEF LlmeType
<1>3. s \in Seq(Llmes) /\ \A x : x \in Range(s) <=> x = l \/ x \in Range(r.llmes)
  BY <1>0, RegFields, ConsProperties
<1> HIDE DEF n
<1>4. g \in Maps(Llmes, LlmeType) /\ DOMAIN g = DOMAIN r.llme \cup {l}
  <2>1. r.llme \in [DOMAIN r.llme -> LlmeType] /\ DOMAIN r.llme \subseteq Llmes
    BY <1>0, RegFields, MapFacts
  <2>2. g \in [DOMAIN r.llme \cup {l} -> LlmeType] /\ DOMAIN r.llme \cup {l} \subseteq Llmes
    BY <1>2, <2>1
  <2>3. g \in Maps(Llmes, LlmeType)
    BY <2>2, MapOf
  <2> QED
    BY <2>3
<1> HIDE DEF g, s, q
<1>5. /\ q \in RegSet /\ q.status = r.status /\ q.renamed = r.renamed /\ q.mm_list = r.mm_list
      /\ q.llmes = s /\ q.llme = g /\ q.mm = r.mm
      /\ q.by_imsi = r.by_imsi /\ q.by_ptmsi = r.by_ptmsi /\ q.by_ptmsi_old = r.by_ptmsi_old
      /\ q.by_tlli = r.by_tlli /\ q.by_tlli_new = r.by_tlli_new
  BY <1>0, <1>1, <1>3, <1>4 DEF RegSet
<1>6. SameKeys(r.mm, q.mm) /\ Shrinks(r.mm, q.mm)
  BY <1>5 DEF SameKeys, Shrinks, Relinked
<1>7. \A x : x \in Range(q.llmes) <=> x \in DOMAIN q.llme
  BY <1>0, <1>3, <1>4, <1>5 DEF ListsExact
<1>8. Exact(q)
  BY <1>0, <1>5, <1>6, <1>7, ExactSameKeys
<1>9. Good(q, {})
  BY <1>5, <1>6, <1>8, GoodShrinks
<1> QED
  BY <1>5, <1>9 DEF q

\* The entry point on Gb gives the context the LLME of the message.
LEMMA LinkedGood ==
  ASSUME NEW r, Good(r, {}), NEW c \in DOMAIN r.mm, NEW l \in Llmes
  PROVE  LET q == [r EXCEPT !.mm[c].llme = l]
         IN  Good(q, {}) /\ q.status = r.status /\ c \in DOMAIN q.mm
<1> DEFINE o == r.mm[c]
           m == [o EXCEPT !.llme = l]
           q == [r EXCEPT !.mm[c] = m]
<1>0. o \in MmType /\ (o.ran = "Gb" => o.llme # None /\ o.tlli_new # None) /\ (o.ran = "Iu" => o.ue # Gone)
      /\ UeFits(r.mm, c, o) /\ l # None
  BY GoodFacts, GoodWeaken, Special DEF Settled
<1> HIDE DEF o
<1>2. m \in MmType
  BY <1>0, MmSet
<1>3. /\ m.imsi = o.imsi /\ m.p_tmsi = o.p_tmsi /\ m.p_tmsi_old = o.p_tmsi_old /\ m.tlli = o.tlli
      /\ m.tlli_new = o.tlli_new /\ m.ran = o.ran /\ m.llme = l /\ m.ue = o.ue
  BY <1>0 DEF MmType
<1> HIDE DEF m
<1>4. Turned(r, q, c, m)
  <2>1. Good(r, {c})
    BY GoodWeaken
  <2> DEFINE X == {c}
  <2>2. X \subseteq {c} /\ Good(r, X)
    BY <2>1
  <2> HIDE DEF X
  <2> QED
    BY <1>2, <1>3, <2>2, TurnSame DEF o
<1> HIDE DEF q
<1>5. Good(q, {c}) /\ Becomes(r.mm, q.mm, c, m) /\ c \in DOMAIN q.mm /\ q.mm[c] = m /\ q.status = r.status
  BY <1>4 DEF Turned, Becomes
<1>6. Settled(m) /\ UeFits(q.mm, c, m)
  BY <1>0, <1>3, <1>5 DEF Settled, UeFits, Becomes
<1>7. Good(q, {})
  BY <1>5, <1>6, GoodSettled
<1> QED
  BY <1>5, <1>7 DEF q, m, o

\* The entry point on Iu gives it the routing area.
LEMMA RaSetGood ==
  ASSUME NEW r, Good(r, {}), NEW c \in DOMAIN r.mm, NEW ra \in Ras
  PROVE  LET q == [r EXCEPT !.mm[c].ra = ra]
         IN  Good(q, {}) /\ q.status = r.status /\ c \in DOMAIN q.mm /\ OthersStay(r, q, c)
<1> DEFINE o == r.mm[c]
           m == [o EXCEPT !.ra = ra]
           q == [r EXCEPT !.mm[c] = m]
<1>0. o \in MmType
  BY GoodFacts
<1> HIDE DEF o
<1>2. m \in MmType
  BY <1>0, MmSet
<1>3. /\ m.imsi = o.imsi /\ m.p_tmsi = o.p_tmsi /\ m.p_tmsi_old = o.p_tmsi_old /\ m.tlli = o.tlli
      /\ m.tlli_new = o.tlli_new /\ m.ran = o.ran /\ m.llme = o.llme /\ m.ue = o.ue
  BY <1>0 DEF MmType
<1> HIDE DEF m
<1>4. Turned(r, q, c, m)
  <2>1. Good(r, {c})
    BY GoodWeaken
  <2> DEFINE X == {c}
  <2>2. X \subseteq {c} /\ Good(r, X)
    BY <2>1
  <2> HIDE DEF X
  <2> QED
    BY <1>2, <1>3, <2>2, TurnSame DEF o
<1> HIDE DEF q
<1>5. Good(q, {}) /\ c \in DOMAIN q.mm /\ q.status = r.status /\ OthersStay(r, q, c)
  BY <1>3, <1>4, TurnedSettled, BecomesStay DEF Turned, o
<1> QED
  BY <1>5 DEF q, m, o

-----------------------------------------------------------------------------
(* The actions.                                                            *)

\* A message on Gb: the LLME of its TLLI exists or is made, and becomes that of the context.
LEMMA RcvmsgGb ==
  ASSUME Good(reg, {}), NEW m \in Messages, rcvmsg_gb(m)
  PROVE  Good(reg', {})
<1> DEFINE known == lle_by_tlli(reg, m.tlli)
           l == IF known # None THEN known ELSE Free(Llmes, DOMAIN reg.llme)
           r == IF known # None THEN reg ELSE llme_alloc(reg, l, m.tlli)
           c == by_tlli(r, m.tlli, m.ra)
           s == IF c = None THEN r ELSE [r EXCEPT !.mm[c].llme = l]
<1>1. m.ran = "Gb" /\ reg.status = "up" /\ l # None /\ reg' \in rcv_gmm(s, c, l, m)
  BY DEF rcvmsg_gb, Up
<1>2. m.tlli \in Tllis
  BY <1>1, MsgFields
<1>3. l \in Llmes
  <2>1. known # None => known \in Llmes
    <3> DEFINE S == {k \in DOMAIN reg.llme : m.tlli \in {reg.llme[k].tlli, reg.llme[k].old_tlli}}
    <3>1. known = First(reg.llmes, S)
      BY DEF lle_by_tlli
    <3>2. reg.llmes \in Seq(Llmes) /\ None \notin Llmes
      BY GoodFacts, RegFields, Special
    <3> HIDE DEF S, known
    <3> QED
      BY <3>1, <3>2, FirstProperties
  <2> QED
    BY <1>1, <2>1, FreeLlme
<1> HIDE DEF l
<1>4. Good(r, {}) /\ r.status = "up"
  BY <1>1, <1>2, <1>3, LlmeAlloced
<1> HIDE DEF r
<1>5. c # None => c \in DOMAIN r.mm
  <2>1. Exact(r)
    BY <1>4, GoodFacts
  <2> QED
    BY <1>2, <2>1, ByOthers
<1> HIDE DEF c
<1>6. Good(s, {}) /\ s.status = "up" /\ (c # None => c \in DOMAIN s.mm)
  BY <1>3, <1>4, <1>5, LinkedGood
<1> HIDE DEF s
<1>7. Entry(s, c, l, m)
  BY <1>1, <1>3, <1>6 DEF Entry
<1> QED
  BY <1>1, <1>7, RcvGmmGood

\* A message on Iu: by_ue_ctx finds the only context of the connection.
LEMMA RcvmsgIu ==
  ASSUME Good(reg, {}), NEW m \in Messages, rcvmsg_iu(m)
  PROVE  Good(reg', {})
<1> DEFINE c == by_ue_ctx(reg, m.ue)
           s == IF c = None THEN reg ELSE [reg EXCEPT !.mm[c].ra = m.ra]
<1>1. m.ran = "Iu" /\ reg.status = "up" /\ reg' \in rcv_gmm(s, c, None, m)
  BY DEF rcvmsg_iu, Up
<1>2. m.ue \in Ues /\ m.ra \in Ras /\ Exact(reg) /\ UeAlone(reg.mm, {}) /\ None \notin Ues
  BY <1>1, MsgFields, GoodFacts, Special DEF Good
<1>3. /\ c # None => c \in DOMAIN reg.mm /\ reg.mm[c].ran = "Iu" /\ reg.mm[c].ue = m.ue
      /\ c = None => \A d \in DOMAIN reg.mm : reg.mm[d].ran = "Iu" => reg.mm[d].ue # m.ue
  BY <1>2, ByUe
<1> HIDE DEF c
<1>4. Mine(reg, c, m.ue)
  <2>1. m.ue # None
    BY <1>2
  <2> QED
    BY <1>2, <1>3, <2>1 DEF Mine, UeAlone
<1>5. /\ Good(s, {}) /\ s.status = "up" /\ (c # None => c \in DOMAIN s.mm)
      /\ OthersStay(reg, s, c)
  <2>1. CASE c = None
    BY <1>1, <2>1 DEF OthersStay
  <2>2. CASE c # None
    BY <1>1, <1>2, <1>3, <2>2, RaSetGood
  <2> QED
    BY <2>1, <2>2
<1> HIDE DEF s
<1>6. Mine(s, c, m.ue)
  BY <1>4, <1>5, StayMine
<1> DEFINE l == None
<1>7. Entry(s, c, l, m)
  BY <1>1, <1>5, <1>6 DEF Entry
<1>8. reg' \in rcv_gmm(s, c, l, m)
  BY <1>1
<1> HIDE DEF l
<1> QED
  BY <1>7, <1>8, RcvGmmGood

\* An LLME that has not been used for long.
LEMMA LlmeCheck ==
  ASSUME Good(reg, {}), NEW l \in Llmes, llme_check(l)
  PROVE  Good(reg', {})
<1> DEFINE S == {d \in DOMAIN reg.mm : reg.mm[d].llme = l}
           c == First(reg.mm_list, S)
<1>1. reg' = Rejected(reg, c, l)
  BY DEF llme_check
<1>2. c # None => c \in DOMAIN reg.mm
  BY GoodFacts, Searched
<1> HIDE DEF c
<1> QED
  BY <1>1, <1>2, RejectedGood

\* The end of a context.
LEMMA CancelledGood ==
  ASSUME Good(reg, {}), NEW c, Cancelled(c)
  PROVE  Good(reg', {})
<1>1. c \in DOMAIN reg.mm /\ reg' = cleanup_free(reg, c)
  BY DEF Cancelled
<1> DEFINE X == {}
<1>2. X \subseteq {c} /\ Good(reg, X)
  OBVIOUS
<1> HIDE DEF X
<1>3. Good(cleanup_free(reg, c), {})
  BY <1>1, <1>2, CleanupGood
<1> QED
  BY <1>1, <1>3

\* The release of a connection.  The context that is found is the only one on Iu that has it.
LEMMA IuFreeUe ==
  ASSUME Good(reg, {}), NEW u \in Ues, iu_free_ue(u)
  PROVE  Good(reg', {})
<1> DEFINE d == by_ue_ctx(reg, u)
           f == reg.mm
           g == [c \in DOMAIN f |->
                   IF f[c].ue # u THEN f[c]
                   ELSE IF c # d THEN [f[c] EXCEPT !.ue = Gone]
                   ELSE [f[c] EXCEPT !.ue = None, !.pmm = IF f[c].pmm = "connected" THEN "idle" ELSE f[c].pmm]]
<1>0. Exact(reg) /\ reg \in RegSet /\ UeAlone(f, {}) /\ u # None
  BY GoodFacts, Special DEF Good
<1>1. reg' = [reg EXCEPT !.mm = g]
  BY DEF iu_free_ue
<1>2. d # None => d \in DOMAIN f /\ f[d].ran = "Iu" /\ f[d].ue = u
  BY <1>0, ByUe
<1>3. d = None => \A c \in DOMAIN f : f[c].ran = "Iu" => f[c].ue # u
  BY <1>0, ByUe
<1> HIDE DEF d
<1>4. ASSUME NEW c \in DOMAIN f
      PROVE  /\ g[c] \in MmType
             /\ g[c].imsi = f[c].imsi /\ g[c].p_tmsi = f[c].p_tmsi /\ g[c].p_tmsi_old = f[c].p_tmsi_old
             /\ g[c].tlli = f[c].tlli /\ g[c].tlli_new = f[c].tlli_new
             /\ g[c].ran = f[c].ran /\ g[c].llme = f[c].llme
             /\ g[c].ran = "Iu" => g[c].ue = f[c].ue \/ g[c].ue = None
  <2> DEFINE o == f[c]
             a == [o EXCEPT !.ue = Gone]
             p == IF o.pmm = "connected" THEN "idle" ELSE o.pmm
             b == [o EXCEPT !.ue = None, !.pmm = p]
  <2>1. o \in MmType
    BY GoodFacts
  <2>2. g[c] = IF o.ue # u THEN o ELSE IF c # d THEN a ELSE b
    OBVIOUS
  <2>3. o.ue = u /\ c # d => o.ran # "Iu"
    BY <1>0, <1>2, <1>3 DEF UeAlone
  <2> HIDE DEF o
  <2>4. p \in {"detached", "connected", "idle"}
    BY <2>1, MmStates
  <2> HIDE DEF p
  <2>5. a \in MmType /\ b \in MmType
    BY <2>1, <2>4, MmSet
  <2>6. /\ a.imsi = o.imsi /\ a.p_tmsi = o.p_tmsi /\ a.p_tmsi_old = o.p_tmsi_old
        /\ a.tlli = o.tlli /\ a.tlli_new = o.tlli_new /\ a.ran = o.ran /\ a.llme = o.llme
    BY <2>1 DEF MmType
  <2>7. /\ b.imsi = o.imsi /\ b.p_tmsi = o.p_tmsi /\ b.p_tmsi_old = o.p_tmsi_old
        /\ b.tlli = o.tlli /\ b.tlli_new = o.tlli_new /\ b.ran = o.ran /\ b.llme = o.llme /\ b.ue = None
    BY <2>1 DEF MmType
  <2> HIDE DEF a, b, g, f
  <2>8. \/ g[c] = o
        \/ g[c] = a /\ o.ran # "Iu"
        \/ g[c] = b
    BY <2>2, <2>3
  <2>9. /\ g[c] \in MmType
        /\ g[c].imsi = o.imsi /\ g[c].p_tmsi = o.p_tmsi /\ g[c].p_tmsi_old = o.p_tmsi_old
        /\ g[c].tlli = o.tlli /\ g[c].tlli_new = o.tlli_new /\ g[c].ran = o.ran /\ g[c].llme = o.llme
        /\ g[c].ran = "Iu" => g[c].ue = o.ue \/ g[c].ue = None
    BY <2>1, <2>5, <2>6, <2>7, <2>8
  <2> QED
    BY <2>9 DEF o
<1>5. DOMAIN g = DOMAIN f /\ g \in Maps(Ctxs, MmType)
  <2>1. g \in [DOMAIN f -> MmType] /\ DOMAIN f \subseteq Ctxs
    BY <1>4, GoodFacts
  <2> HIDE DEF f
  <2>2. g \in Maps(Ctxs, MmType)
    BY <2>1, MapOf
  <2> QED
    BY <2>2
<1> DEFINE q == [reg EXCEPT !.mm = g]
<1> HIDE DEF g
<1>6. /\ q \in RegSet /\ q.status = reg.status /\ q.renamed = reg.renamed /\ q.mm_list = reg.mm_list
      /\ q.llmes = reg.llmes /\ q.llme = reg.llme /\ q.mm = g
      /\ q.by_imsi = reg.by_imsi /\ q.by_ptmsi = reg.by_ptmsi /\ q.by_ptmsi_old = reg.by_ptmsi_old
      /\ q.by_tlli = reg.by_tlli /\ q.by_tlli_new = reg.by_tlli_new
  BY <1>0, <1>5 DEF RegSet
<1> HIDE DEF q
<1>7. Exact(q)
  <2>1. SameKeys(reg.mm, q.mm)
    BY <1>4, <1>5, <1>6 DEF SameKeys
  <2>2. \A l : l \in Range(q.llmes) <=> l \in DOMAIN q.llme
    BY <1>0, <1>6 DEF Exact, ListsExact
  <2> QED
    BY <1>0, <1>6, <2>1, <2>2, ExactSameKeys
<1>8. /\ PtmsiAlone(f) /\ ImsiAlone(f, reg.renamed) /\ reg.status # "null llme"
      /\ \A c \in DOMAIN f : Settled(f[c])
  BY DEF Good
<1> HIDE DEF f
<1>9. PtmsiAlone(g) /\ ImsiAlone(g, q.renamed)
  <2>1. DOMAIN g = DOMAIN f /\ \A c \in DOMAIN f : /\ g[c].imsi = f[c].imsi
                                                /\ g[c].p_tmsi = f[c].p_tmsi /\ g[c].p_tmsi_old = f[c].p_tmsi_old
    BY <1>4, <1>5
  <2>2. PtmsiAlone(g)
    BY <1>8, <2>1 DEF PtmsiAlone
  <2>3. ImsiAlone(g, reg.renamed)
    BY <1>8, <2>1 DEF ImsiAlone
  <2> QED
    BY <1>6, <2>2, <2>3
<1>10. UeAlone(g, {})
  BY <1>0, <1>4, <1>5 DEF UeAlone
<1>11. \A c \in DOMAIN g \ {} : Settled(g[c])
  <2>1. None # Gone
    BY Special
  <2> QED
    BY <1>4, <1>5, <1>8, <2>1 DEF Settled
<1>12. Good(q, {})
  BY <1>6, <1>7, <1>8, <1>9, <1>10, <1>11 DEF Good
<1> QED
  BY <1>1, <1>12 DEF q

\* The invariant holds when the process starts.
LEMMA InvInit == Init => Inv
  BY BootGood, RegistryAssumption DEF Init, Inv

\* Every step preserves the invariant.
LEMMA InvNext == Inv /\ [Next]_vars => Inv'
<1> SUFFICES ASSUME Inv, [Next]_vars PROVE Inv'
  OBVIOUS
<1>0. Good(reg, {}) /\ arrived \in 0..MaxMessages
  BY DEF Inv
<1>1. ASSUME NEW m \in Messages, rcvmsg_gb(m) PROVE Inv'
  <2>1. Good(reg', {})
    BY <1>0, <1>1, RcvmsgGb
  <2>2. arrived' \in 0..MaxMessages
    BY <1>0, <1>1, RegistryAssumption DEF rcvmsg_gb, Arrives
  <2> QED
    BY <2>1, <2>2 DEF Inv
<1>2. ASSUME NEW m \in Messages, rcvmsg_iu(m) PROVE Inv'
  <2>1. Good(reg', {})
    BY <1>0, <1>2, RcvmsgIu
  <2>2. arrived' \in 0..MaxMessages
    BY <1>0, <1>2, RegistryAssumption DEF rcvmsg_iu, Arrives
  <2> QED
    BY <2>1, <2>2 DEF Inv
<1>3. ASSUME NEW l \in Llmes, llme_check(l) PROVE Inv'
  <2>1. Good(reg', {}) /\ arrived' = arrived
    BY <1>0, <1>3, LlmeCheck DEF llme_check
  <2> QED
    BY <1>0, <2>1 DEF Inv
<1>4. ASSUME NEW c \in Ctxs, Cancelled(c) PROVE Inv'
  <2>1. Good(reg', {}) /\ arrived' = arrived
    BY <1>0, <1>4, CancelledGood DEF Cancelled
  <2> QED
    BY <1>0, <2>1 DEF Inv
<1>5. ASSUME NEW u \in Ues, iu_free_ue(u) PROVE Inv'
  <2>1. Good(reg', {}) /\ arrived' = arrived
    BY <1>0, <1>5, IuFreeUe DEF iu_free_ue
  <2> QED
    BY <1>0, <2>1 DEF Inv
<1>6. CASE Restart
  <2>1. reg' = Boot /\ arrived' = arrived
    BY <1>6 DEF Restart
  <2> QED
    BY <1>0, <2>1, BootGood DEF Inv
<1>7. CASE UNCHANGED vars
  BY <1>0, <1>7 DEF Inv, vars
<1> QED
  BY <1>1, <1>2, <1>3, <1>4, <1>5, <1>6, <1>7 DEF Next

-----------------------------------------------------------------------------
(* The theorems.                                                           *)

\* The invariant holds throughout.
LEMMA Invariant == Spec => []Inv
  BY InvInit, InvNext, PTL DEF Spec

\* A list whose elements are all in S is a list over S.
LEMMA SeqOver ==
  ASSUME NEW X, NEW s \in Seq(X), NEW S, \A x : x \in Range(s) => x \in S
  PROVE  s \in Seq(S)
<1>1. \A n \in 1..Len(s) : s[n] \in Range(s)
  BY DEF Range
<1>2. Len(s) \in Nat /\ s = [n \in 1..Len(s) |-> s[n]]
  OBVIOUS
<1>3. \A n \in 1..Len(s) : s[n] \in S
  BY <1>1
<1> QED
  BY <1>2, <1>3

\* The buckets of an exact hash hold contexts that exist.
LEMMA HashOver ==
  ASSUME NEW h, NEW K, NEW key, HashOf(h, K, key)
  PROVE  h \in [K -> Seq(DOMAIN key)]
<1>1. ASSUME NEW k \in K PROVE h[k] \in Seq(DOMAIN key)
  <2>1. h[k] \in Seq(Ctxs) /\ \A x : x \in Range(h[k]) => x \in DOMAIN key
    BY DEF HashOf
  <2> QED
    BY <2>1, SeqOver
<1> QED
  BY <1>1 DEF HashOf

\* The registry keeps its type: every list and every bucket holds only contexts, or LLMEs,
\* that have not been freed, and every context is on mm_list exactly once.
THEOREM TypeCorrect == Spec => []TypeOK
<1>1. ASSUME Inv PROVE TypeOK
  <2>0. Exact(reg) /\ reg \in RegSet /\ ListsExact(reg) /\ HashesExact(reg) /\ arrived \in 0..MaxMessages
    BY <1>1, GoodFacts DEF Inv, Exact
  <2>1. reg.status \in Statuses /\ reg.renamed \subseteq Imsis /\ reg.mm_list \in Seq(Ctxs)
    BY <2>0, RegFields
  <2>2. /\ DOMAIN reg.mm \subseteq Ctxs /\ reg.mm \in [DOMAIN reg.mm -> MmType]
        /\ DOMAIN reg.llme \subseteq Llmes /\ reg.llme \in [DOMAIN reg.llme -> LlmeType]
    BY <2>0, RegFields, MapFacts
  <2>3. IsInjective(reg.mm_list) /\ Range(reg.mm_list) = DOMAIN reg.mm
    <3>1. IsInjective(reg.mm_list) /\ \A c : c \in Range(reg.mm_list) <=> c \in DOMAIN reg.mm
      BY <2>0 DEF ListsExact
    <3> DEFINE A == Range(reg.mm_list)
               B == DOMAIN reg.mm
    <3>2. \A c : c \in A <=> c \in B
      BY <3>1
    <3> HIDE DEF A, B
    <3>3. A = B
      BY <3>2
    <3> QED
      BY <3>1, <3>3 DEF A, B
  <2>4. reg.llmes \in Seq(DOMAIN reg.llme)
    <3>1. reg.llmes \in Seq(Llmes) /\ \A l : l \in Range(reg.llmes) => l \in DOMAIN reg.llme
      BY <2>0, RegFields DEF ListsExact
    <3> QED
      BY <3>1, SeqOver
  <2>5. reg.by_imsi \in [Imsis -> Seq(DOMAIN reg.mm)]
    <3> DEFINE key == ImsiOf(reg.mm)
    <3>1. HashOf(reg.by_imsi, Imsis, key) /\ DOMAIN key = DOMAIN reg.mm
      BY <2>0 DEF HashesExact, ImsiOf
    <3> HIDE DEF key
    <3> QED
      BY <3>1, HashOver
  <2>6. reg.by_ptmsi \in [Ptmsis -> Seq(DOMAIN reg.mm)]
    <3> DEFINE key == PtmsiOf(reg.mm)
    <3>1. HashOf(reg.by_ptmsi, Ptmsis, key) /\ DOMAIN key = DOMAIN reg.mm
      BY <2>0 DEF HashesExact, PtmsiOf
    <3> HIDE DEF key
    <3> QED
      BY <3>1, HashOver
  <2>7. reg.by_ptmsi_old \in [Ptmsis -> Seq(DOMAIN reg.mm)]
    <3> DEFINE key == OldPtmsiOf(reg.mm)
    <3>1. HashOf(reg.by_ptmsi_old, Ptmsis, key) /\ DOMAIN key = DOMAIN reg.mm
      BY <2>0 DEF HashesExact, OldPtmsiOf
    <3> HIDE DEF key
    <3> QED
      BY <3>1, HashOver
  <2>8. reg.by_tlli \in [Tllis -> Seq(DOMAIN reg.mm)]
    <3> DEFINE key == TlliOf(reg.mm)
    <3>1. HashOf(reg.by_tlli, Tllis, key) /\ DOMAIN key = DOMAIN reg.mm
      BY <2>0 DEF HashesExact, TlliOf
    <3> HIDE DEF key
    <3> QED
      BY <3>1, HashOver
  <2>9. reg.by_tlli_new \in [Tllis -> Seq(DOMAIN reg.mm)]
    <3> DEFINE key == NewTlliOf(reg.mm)
    <3>1. HashOf(reg.by_tlli_new, Tllis, key) /\ DOMAIN key = DOMAIN reg.mm
      BY <2>0 DEF HashesExact, NewTlliOf
    <3> HIDE DEF key
    <3> QED
      BY <3>1, HashOver
  <2> QED
    BY <2>0, <2>1, <2>2, <2>3, <2>4, <2>5, <2>6, <2>7, <2>8, <2>9 DEF TypeOK
<1> QED
  BY <1>1, Invariant, PTL

\* Whatever handlers change the identities of a context, the five look-up hashes of mmctx.c
\* find it under its current ones, once, and under no other.
THEOREM HashesFresh == Spec => []IndexFresh
<1>1. ASSUME Inv PROVE IndexFresh
  <2>0. HashesExact(reg)
    BY <1>1 DEF Inv, Good, Exact
  <2>1. ASSUME NEW h, NEW K, NEW key, HashOf(h, K, key), NEW c \in DOMAIN key
        PROVE  \A k \in DOMAIN h : IsInjective(h[k]) /\ (c \in Range(h[k]) <=> k = key[c])
    <3>1. DOMAIN h = K /\ \A k \in K : IsInjective(h[k]) /\ \A x : x \in Range(h[k]) <=> x \in DOMAIN key /\ key[x] = k
      BY <2>1 DEF HashOf
    <3> QED
      BY <2>1, <3>1
  <2>2. ASSUME NEW c \in DOMAIN reg.mm PROVE Indexed(reg, c)
    <3> DEFINE In(h, key) == \A k \in DOMAIN h : IsInjective(h[k]) /\ (c \in Range(h[k]) <=> k = key)
    <3>1. In(reg.by_imsi, reg.mm[c].imsi)
      <4> DEFINE key == ImsiOf(reg.mm)
      <4>1. HashOf(reg.by_imsi, Imsis, key) /\ c \in DOMAIN key /\ key[c] = reg.mm[c].imsi
        BY <2>0, <2>2 DEF HashesExact, ImsiOf
      <4> HIDE DEF key
      <4>2. In(reg.by_imsi, key[c])
        BY <2>1, <4>1
      <4> QED
        BY <4>1, <4>2
    <3>2. In(reg.by_ptmsi, reg.mm[c].p_tmsi)
      <4> DEFINE key == PtmsiOf(reg.mm)
      <4>1. HashOf(reg.by_ptmsi, Ptmsis, key) /\ c \in DOMAIN key /\ key[c] = reg.mm[c].p_tmsi
        BY <2>0, <2>2 DEF HashesExact, PtmsiOf
      <4> HIDE DEF key
      <4>2. In(reg.by_ptmsi, key[c])
        BY <2>1, <4>1
      <4> QED
        BY <4>1, <4>2
    <3>3. In(reg.by_ptmsi_old, reg.mm[c].p_tmsi_old)
      <4> DEFINE key == OldPtmsiOf(reg.mm)
      <4>1. HashOf(reg.by_ptmsi_old, Ptmsis, key) /\ c \in DOMAIN key /\ key[c] = reg.mm[c].p_tmsi_old
        BY <2>0, <2>2 DEF HashesExact, OldPtmsiOf
      <4> HIDE DEF key
      <4>2. In(reg.by_ptmsi_old, key[c])
        BY <2>1, <4>1
      <4> QED
        BY <4>1, <4>2
    <3>4. In(reg.by_tlli, reg.mm[c].tlli)
      <4> DEFINE key == TlliOf(reg.mm)
      <4>1. HashOf(reg.by_tlli, Tllis, key) /\ c \in DOMAIN key /\ key[c] = reg.mm[c].tlli
        BY <2>0, <2>2 DEF HashesExact, TlliOf
      <4> HIDE DEF key
      <4>2. In(reg.by_tlli, key[c])
        BY <2>1, <4>1
      <4> QED
        BY <4>1, <4>2
    <3>5. In(reg.by_tlli_new, reg.mm[c].tlli_new)
      <4> DEFINE key == NewTlliOf(reg.mm)
      <4>1. HashOf(reg.by_tlli_new, Tllis, key) /\ c \in DOMAIN key /\ key[c] = reg.mm[c].tlli_new
        BY <2>0, <2>2 DEF HashesExact, NewTlliOf
      <4> HIDE DEF key
      <4>2. In(reg.by_tlli_new, key[c])
        BY <2>1, <4>1
      <4> QED
        BY <4>1, <4>2
    <3> HIDE DEF In
    <3> QED
      BY <3>1, <3>2, <3>3, <3>4, <3>5 DEF Indexed, In
  <2> QED
    BY <2>2 DEF IndexFresh
<1> QED
  BY <1>1, Invariant, PTL

\* A P-TMSI that sgsn_alloc_ptmsi or an MS chose belongs to one context, be it the new or the
\* old one of that context.
THEOREM PtmsiOfOneContext == Spec => []PtmsiUnique
<1>1. Inv => PtmsiUnique
  BY DEF Inv, Good, PtmsiAlone, PtmsiUnique
<1> QED
  BY <1>1, Invariant, PTL

\* A subscriber has one context unless gsm48_rx_gmm_id_resp overwrote another IMSI with its own.
THEOREM ImsiOfOneContext == Spec => []ImsiUnique
<1>1. Inv => ImsiUnique
  BY DEF Inv, Good, ImsiAlone, ImsiUnique
<1> QED
  BY <1>1, Invariant, PTL

\* No handler meets a NULL gb.llme in a context it treats as a Gb context.
THEOREM LlmeOfGbContext == Spec => []GbHasLlme
<1>1. Inv => GbHasLlme
  BY DEF Inv, Good, Settled, GbHasLlme
<1> QED
  BY <1>1, Invariant, PTL

\* A context on Iu points to a connection that has not been released, and to one of its own.
THEOREM UeOfIuContext == Spec => []UeLive
<1>1. Inv => UeLive
  BY DEF Inv, Good, Settled, UeAlone, UeLive
<1> QED
  BY <1>1, Invariant, PTL
=============================================================================
