----------------------------- MODULE MmRegistry -----------------------------
(***************************************************************************)
(* Which MM context a message belongs to: the list of MM contexts and its  *)
(* look-up hashes (mmctx.c), the LLMEs of the LLC layer (gprs_llc.c), and  *)
(* the part of the GMM handlers that allocates, finds, renames and frees   *)
(* them (gprs_gmm.c), on Gb and on Iu.                                     *)
(*                                                                         *)
(* The process is single threaded: a received message, the LLME check, an  *)
(* Iu release and the end of a procedure are one action each.  The struct  *)
(* sgsn_instance and the list of LLMEs are the record reg, which the steps *)
(* of a handler pass along.  What the attach procedure decides is the      *)
(* subject of GmmContext; here it either goes on or frees the context      *)
(* (Cancelled).  The MSs are the environment and may send anything.        *)
(*                                                                         *)
(* Memory is a number that a later object reuses.  A pointer to an object  *)
(* that has been freed is told apart by how that came about (Stray,        *)
(* Shared, Gone); using one ends the process.                              *)
(***************************************************************************)
EXTENDS Lists, FiniteSets, FiniteSetsExt

CONSTANTS
  Imsis, Ptmsis,  \* subscribers; P-TMSIs the SGSN or an MS may choose
  Ras,            \* routing areas
  Randoms,        \* random TLLIs
  Ues,            \* Iu connections
  NCtx, NLlme,    \* memory for MM contexts and LLMEs (bounds)
  Messages,       \* what an MS may send; see MessageType
  MaxMessages,    \* how many messages arrive (a bound)
  None,           \* a null pointer, an empty IMSI, P-TMSI 0, TLLI 0 or unassigned
  Stray,          \* freed for a message that belonged to no context
  Shared,         \* freed together with another context
  Gone            \* a connection that was released

Ctxs == 1..NCtx
Llmes == 1..NLlme

gprs_tmsi2tlli(p, type) == [type |-> type, id |-> p]
Tllis == [type : {"local", "foreign"}, id : Ptmsis \cup {None}]
         \cup [type : {"random"}, id : Randoms]

\* A GMM message with the identities it carries: mi is the mobile identity of
\* an Attach, Service or RA Update Request or of an Identity Response, old_ra
\* the old RA of an RA Update Request.  "other" stands for the messages that a
\* context is needed for and that leave the registry alone, "sm" for session
\* management; "bad": the request is malformed, "nocipher": the MS has no
\* algorithm in common with the SGSN.
MessageType ==
  [ran : {"Gb"}, tlli : Tllis, ra : Ras, old_ra : Ras,
   type : {"att_req", "ra_upd_req", "id_resp", "att_compl", "ra_upd_compl",
           "ptmsi_reall_compl", "det_req", "det_req_off", "det_ack", "other", "sm"},
   mi : Imsis \cup Ptmsis \cup {None}, flaw : {"none", "bad", "nocipher"}]
  \cup
  [ran : {"Iu"}, ue : Ues, ra : Ras, old_ra : Ras,
   type : {"att_req", "ra_upd_req", "service_req", "id_resp", "att_compl",
           "ra_upd_compl", "det_req", "other"},
   mi : Imsis \cup Ptmsis \cup {None}, flaw : {"none", "bad", "nocipher"}]

ASSUME RegistryAssumption ==
  /\ NCtx \in Nat \ {0} /\ NLlme \in Nat \ {0} /\ MaxMessages \in Nat
  /\ Messages \subseteq MessageType
  /\ None \notin {Stray, Shared, Gone} \cup Tllis /\ Stray \notin {Shared, Gone} /\ Shared # Gone
  /\ \A S \in {Imsis, Ptmsis, Ras, Randoms, Ues, Ctxs, Llmes} :
       S \cap {None, Stray, Shared, Gone} = {}

VARIABLES
  reg,      \* the contexts, their hashes, the LLMEs, and whether the process is up
  arrived   \* how many messages have arrived

vars == <<reg, arrived>>

MmType ==
  [imsi : Imsis \cup {None}, p_tmsi : Ptmsis \cup {None}, p_tmsi_old : Ptmsis \cup {None},
   tlli : Tllis \cup {None}, tlli_new : Tllis \cup {None}, ra : Ras, ran : {"Gb", "Iu"},
   llme : Llmes \cup {None, Stray, Shared}, ue : Ues \cup {None, Gone},
   gmm : {"deregistered", "common_proc_init", "registered"},
   mm : {"idle", "ready"}, pmm : {"detached", "connected", "idle"},
   asked : BOOLEAN]                   \* t3370_id_type # GSM_MI_TYPE_NONE
LlmeType == [tlli : Tllis, old_tlli : Tllis \cup {None}]

Statuses == {"up", "assert llme", "use after free", "null llme"}

\* A process that has just been started.  renamed is history: the IMSIs that took
\* the place of another one in a context.
Boot ==
  [status |-> "up", renamed |-> {}, mm_list |-> <<>>, mm |-> [c \in {} |-> 0],
   by_imsi |-> [i \in Imsis |-> <<>>],
   by_ptmsi |-> [p \in Ptmsis |-> <<>>], by_ptmsi_old |-> [p \in Ptmsis |-> <<>>],
   by_tlli |-> [t \in Tllis |-> <<>>], by_tlli_new |-> [t \in Tllis |-> <<>>],
   llmes |-> <<>>, llme |-> [l \in {} |-> 0]]

\* The process ends, and what it knew is lost.
Dead(why) == [Boot EXCEPT !.status = why]

-----------------------------------------------------------------------------
(* Lists and hashes.  A bucket lists the contexts of one key, latest first.*)

Drop(s, x) == Kept(s, Range(s) \ {x})
\* The first element of a list that is in S, or None.
First(s, S) ==
  LET found == {n \in DOMAIN s : s[n] \in S} IN IF found = {} THEN None ELSE s[Min(found)]
OrElse(c, d) == IF c # None THEN c ELSE d
Free(S, used) == IF S \subseteq used THEN None ELSE Min(S \ used)

hash_del(h, c) == [k \in DOMAIN h |-> Drop(h[k], c)]
\* A key of no bucket, such as None, leaves the context out of the hash.
hash_add(h, c, key) == [k \in DOMAIN h |-> IF k = key THEN <<c>> \o Drop(h[k], c) ELSE Drop(h[k], c)]

rehash_imsi(r, c) == [r EXCEPT !.by_imsi = hash_add(@, c, r.mm[c].imsi)]
rehash_ptmsi(r, c) ==
  [r EXCEPT !.by_ptmsi = hash_add(@, c, r.mm[c].p_tmsi),
            !.by_ptmsi_old = hash_add(@, c, r.mm[c].p_tmsi_old)]
rehash_tlli(r, c) ==
  [r EXCEPT !.by_tlli = hash_add(@, c, r.mm[c].tlli),
            !.by_tlli_new = hash_add(@, c, r.mm[c].tlli_new)]

\* Mutant: the hash of the new TLLIs is forgotten.
sgsn_mm_ctx_unlink_KeepsHash(r, c) ==
  [r EXCEPT !.by_imsi = hash_del(@, c),
            !.by_ptmsi = hash_del(@, c), !.by_ptmsi_old = hash_del(@, c),
            !.by_tlli = hash_del(@, c),
            !.mm_list = Drop(@, c),
            !.mm = [d \in DOMAIN @ \ {c} |-> @[d]]]

sgsn_mm_ctx_unlink(r, c) ==
  [r EXCEPT !.by_imsi = hash_del(@, c),
            !.by_ptmsi = hash_del(@, c), !.by_ptmsi_old = hash_del(@, c),
            !.by_tlli = hash_del(@, c), !.by_tlli_new = hash_del(@, c),
            !.mm_list = Drop(@, c),
            !.mm = [d \in DOMAIN @ \ {c} |-> @[d]]]

\* The context of a TLLI in a routing area.
by_tlli(r, t, ra) ==
  LET here == {c \in DOMAIN r.mm : r.mm[c].ra = ra /\ t \in {r.mm[c].tlli, r.mm[c].tlli_new}}
  IN  OrElse(First(r.by_tlli[t], here), First(r.by_tlli_new[t], here))
by_llme(r, l) == First(r.mm_list, {c \in DOMAIN r.mm : r.mm[c].ran = "Gb" /\ r.mm[c].llme = l})
by_ue_ctx(r, u) == First(r.mm_list, {c \in DOMAIN r.mm : r.mm[c].ran = "Iu" /\ r.mm[c].ue = u})
\* The context of the P-TMSI that a foreign or local TLLI was made from.
by_tlli_and_ptmsi(r, t, ra) ==
  First(r.mm_list, {c \in DOMAIN r.mm :
    /\ t.type \in {"foreign", "local"}
    /\ t \in {gprs_tmsi2tlli(r.mm[c].p_tmsi, t.type), gprs_tmsi2tlli(r.mm[c].p_tmsi_old, t.type)}
    /\ r.mm[c].ra = ra})
by_ptmsi(r, p) ==
  OrElse(First(r.by_ptmsi[p], {c \in DOMAIN r.mm : r.mm[c].p_tmsi = p}),
         First(r.by_ptmsi_old[p], {c \in DOMAIN r.mm : r.mm[c].p_tmsi_old = p}))
by_imsi(r, i) == First(r.by_imsi[i], {c \in DOMAIN r.mm : r.mm[c].imsi = i})

by_mi(r, mi) == IF mi \in Imsis THEN by_imsi(r, mi) ELSE by_ptmsi(r, mi)

\* sgsn_mm_ctx_alloc, for Gb or Iu.
sgsn_mm_ctx_alloc(r, c, ran, tlli, ue, ra) ==
  [r EXCEPT !.mm_list = <<c>> \o @,
            !.mm = [d \in DOMAIN @ \cup {c} |->
                      IF d # c THEN @[d]
                      ELSE [imsi |-> None, p_tmsi |-> None, p_tmsi_old |-> None,
                            tlli |-> tlli, tlli_new |-> None, ra |-> ra, ran |-> ran,
                            llme |-> None, ue |-> ue, gmm |-> "deregistered",
                            mm |-> "idle", pmm |-> "detached", asked |-> FALSE]]]

-----------------------------------------------------------------------------
(* LLMEs.                                                                  *)

\* The first LLME that has the TLLI, or None.
lle_by_tlli(r, t) ==
  First(r.llmes, {l \in DOMAIN r.llme : t \in {r.llme[l].tlli, r.llme[l].old_tlli}})

llme_alloc(r, l, t) ==
  [r EXCEPT !.llmes = <<l>> \o @,
            !.llme = [k \in DOMAIN @ \cup {l} |->
                        IF k = l THEN [tlli |-> t, old_tlli |-> None] ELSE @[k]]]

\* The LLME is freed; contexts that point to it go on doing so.
llme_free(r, l, how) ==
  [r EXCEPT !.llmes = Drop(@, l),
            !.llme = [k \in DOMAIN @ \ {l} |-> @[k]],
            !.mm = [c \in DOMAIN @ |-> IF @[c].llme = l THEN [@[c] EXCEPT !.llme = how] ELSE @[c]]]

\* What comes of using the pointer l when used is what it would do to an LLME.
WithLlme(r, l, used) ==
  IF l = None THEN Dead("null llme")
  ELSE IF l \notin DOMAIN r.llme THEN Dead("use after free")
  ELSE used

gprs_llgmm_unassign(r, l, how) == WithLlme(r, l, llme_free(r, l, how))

\* LLGMM-ASSIGN with a new TLLI; the old one is accepted as well unless None.
gprs_llgmm_assign(r, l, old, new) ==
  WithLlme(r, l, [r EXCEPT !.llme[l] = [tlli |-> new, old_tlli |-> old]])

-----------------------------------------------------------------------------
(* Freeing a context.                                                      *)

\* gprs_gmm_mm_ctx_cleanup_free.  On Gb the LLME goes too, when the MM state
\* FSM becomes idle or else at the end; on Iu there must be none.
cleanup_free(r, c) ==
  LET m == r.mm[c]
  IN  IF m.ran = "Iu" /\ m.llme # None THEN Dead("assert llme")
      ELSE IF m.llme = None THEN sgsn_mm_ctx_unlink(r, c)
      ELSE gprs_llgmm_unassign(sgsn_mm_ctx_unlink(r, c), m.llme, Shared)

\* A request is refused: the context is freed, or else the LLME.
Rejected(r, c, l) ==
  IF c # None THEN cleanup_free(r, c)
  ELSE IF l # None THEN gprs_llgmm_unassign(r, l, Stray)
  ELSE r

-----------------------------------------------------------------------------
(* Steps of the GMM handlers.                                              *)

\* Mutant: the LLME of the message is not handed over.
rat_change_NoLlme(r, c, ran, l) ==
  LET m == r.mm[c]
      left == [m EXCEPT !.ran = ran, !.gmm = "deregistered"]
  IN  IF m.ran = "Iu"
      THEN [r EXCEPT !.mm[c] = [left EXCEPT !.pmm = "detached",
                                            !.ue = IF m.pmm = "connected" THEN None ELSE m.ue]]
      ELSE IF m.mm = "ready" /\ m.llme # None
      THEN gprs_llgmm_unassign([r EXCEPT !.mm[c] = [left EXCEPT !.mm = "idle", !.llme = None]],
                               m.llme, Shared)
      ELSE [r EXCEPT !.mm[c] = [left EXCEPT !.mm = "idle"]]

\* E_GMM_RAT_CHANGE.  The connection or the LLME is given up only by an MM
\* state FSM that leaves connected or ready.
rat_change(r, c, ran, l) ==
  LET m == r.mm[c]
      left == [m EXCEPT !.ran = ran, !.gmm = "deregistered"]
  IN  IF m.ran = "Iu"
      THEN [r EXCEPT !.mm[c] = [left EXCEPT !.llme = l, !.pmm = "detached",
                                            !.ue = IF m.pmm = "connected" THEN None ELSE m.ue]]
      ELSE IF m.mm = "ready" /\ m.llme # None
      THEN gprs_llgmm_unassign([r EXCEPT !.mm[c] = [left EXCEPT !.mm = "idle", !.llme = None]],
                               m.llme, Shared)
      ELSE [r EXCEPT !.mm[c] = [left EXCEPT !.mm = "idle"]]

RatChanged(r, c, m, l) == IF r.mm[c].ran = m.ran THEN r ELSE rat_change(r, c, m.ran, l)

\* Mutant: only the current P-TMSIs count as taken.
sgsn_alloc_ptmsi_OnlyCurrent(r) ==
  LET free == {p \in Ptmsis : \A c \in DOMAIN r.mm : r.mm[c].p_tmsi # p}
  IN  IF free = {} THEN {None} ELSE free

\* A P-TMSI that is no context's; the old one is kept when there is none.
sgsn_alloc_ptmsi(r) ==
  LET free == {p \in Ptmsis : by_ptmsi(r, p) = None}
  IN  IF free = {} THEN {None} ELSE free

\* Mutant: the context stays in the bucket of its old P-TMSI.
ptmsi_update_NoRehash(r, c) ==
  IF r.mm[c].gmm = "common_proc_init" THEN {r}
  ELSE {[r EXCEPT !.mm[c].p_tmsi_old = IF p = None THEN @ ELSE r.mm[c].p_tmsi,
                  !.mm[c].p_tmsi = IF p = None THEN @ ELSE p,
                  !.mm[c].gmm = "common_proc_init"] : p \in sgsn_alloc_ptmsi(r)}

\* The outcomes of ptmsi_update: no new P-TMSI while one is being assigned.
ptmsi_update(r, c) ==
  LET Common(q) == [q EXCEPT !.mm[c].gmm = "common_proc_init"]
      Moved(p) == [r EXCEPT !.mm[c].p_tmsi_old = r.mm[c].p_tmsi, !.mm[c].p_tmsi = p]
  IN  IF r.mm[c].gmm = "common_proc_init" THEN {r}
      ELSE {Common(IF p = None THEN r ELSE rehash_ptmsi(Moved(p), c)) : p \in sgsn_alloc_ptmsi(r)}

\* The MS will switch to the local TLLI of its P-TMSI.
new_tlli(r, c) ==
  IF r.mm[c].ran = "Iu" THEN r
  ELSE LET t == gprs_tmsi2tlli(r.mm[c].p_tmsi, "local")
       IN  gprs_llgmm_assign(rehash_tlli([r EXCEPT !.mm[c].tlli_new = t], c),
                             r.mm[c].llme, r.mm[c].tlli, t)

\* A procedure is complete: the old P-TMSI and the old TLLI are given up.
OldPtmsiGone(r, c) == rehash_ptmsi([r EXCEPT !.mm[c].p_tmsi_old = None], c)
Resumed(pmm) == IF pmm = "idle" THEN "connected" ELSE pmm
OldTlliGone(r, c) ==
  IF r.mm[c].ran = "Iu" THEN r
  ELSE rehash_tlli([r EXCEPT !.mm[c].tlli = r.mm[c].tlli_new], c)
OnlyNewTlli(r, c) ==
  IF r.mm[c].ran = "Iu" THEN r ELSE gprs_llgmm_assign(r, r.mm[c].llme, None, r.mm[c].tlli_new)

-----------------------------------------------------------------------------
(* Messages.  Each operator gives the outcomes of a message m that the LLC *)
(* layer gave to LLME l (None on Iu) and that the entry point attributed   *)
(* to context c (or None).                                                 *)

\* The context of an Attach Request: found by TLLI or connection, by identity,
\* or a new one that takes the identity over.
Identified(r, c, m) ==
  LET new == Free(Ctxs, DOMAIN r.mm)
      found == IF c # None THEN c ELSE by_mi(r, m.mi)
      Alloc == IF m.ran = "Iu" THEN sgsn_mm_ctx_alloc(r, new, "Iu", None, m.ue, m.ra)
               ELSE rehash_tlli(sgsn_mm_ctx_alloc(r, new, "Gb", IF m.mi \in Imsis THEN None ELSE m.tlli,
                                                  None, m.ra), new)
  IN  IF found # None THEN [r |-> r, c |-> found]
      ELSE IF new = None THEN [r |-> r, c |-> None]
      ELSE [r |-> IF m.mi \in Imsis THEN rehash_imsi([Alloc EXCEPT !.mm[new].imsi = m.mi], new)
                  ELSE rehash_ptmsi([Alloc EXCEPT !.mm[new].p_tmsi = m.mi], new),
            c |-> new]

\* The context is updated with where the MS is now.
Located(r, c, m, l) ==
  IF m.ran = "Iu" THEN [r EXCEPT !.mm[c].ue = m.ue, !.mm[c].ra = m.ra]
  ELSE rehash_tlli([r EXCEPT !.mm[c].tlli = m.tlli, !.mm[c].llme = l, !.mm[c].ra = m.ra], c)

Attaching(r, c, m) ==
  IF r.status # "up" THEN {r}
  ELSE IF m.flaw = "nocipher" THEN {cleanup_free(r, c)}
  ELSE {new_tlli([q EXCEPT !.mm[c].asked = TRUE], c) : q \in ptmsi_update(r, c)}

att_req(r, c, l, m) ==
  IF m.flaw = "bad" \/ m.mi = None THEN {Rejected(r, c, l)}
  ELSE LET i == Identified(r, c, m)
       IN  IF i.c = None THEN {Rejected(r, None, l)}
           ELSE LET r1 == RatChanged(i.r, i.c, m, l)
                IN  Attaching(IF r1.status = "up" THEN Located(r1, i.c, m, l) ELSE r1, i.c, m)

att_compl(r, c) ==
  LET r1 == OldTlliGone(OldPtmsiGone(r, c), c)
      r2 == [r1 EXCEPT !.mm[c].gmm = IF @ = "common_proc_init" THEN "registered" ELSE @,
                       !.mm[c].mm = IF r1.mm[c].ran = "Gb" THEN "ready" ELSE @,
                       !.mm[c].pmm = IF r1.mm[c].ran = "Iu" THEN "connected" ELSE @]
  IN  OnlyNewTlli(r2, c)

\* The context of an RA Update Request that came from no known place.
RauContext(r, m) ==
  IF m.ran = "Gb" THEN by_tlli_and_ptmsi(r, m.tlli, m.old_ra)
  ELSE IF m.mi \in Ptmsis THEN by_ptmsi(r, m.mi) ELSE None

\* The new RA and TLLI, or the connection; the LLME stays the context's own.
RauLocated(r, c, m) ==
  IF m.ran = "Iu" THEN [r EXCEPT !.mm[c].ue = m.ue]
  ELSE rehash_tlli([r EXCEPT !.mm[c].ra = m.ra, !.mm[c].tlli = m.tlli], c)

\* What is done with it: the common procedure, a change of the RAN, where the MS
\* is, and a new P-TMSI.
RauAccepted(r, c, m, l) ==
  LET r1 == RatChanged(r, c, m, l)
      r2 == IF r.mm[c].ran = m.ran THEN r1 ELSE [r1 EXCEPT !.mm[c].gmm = "common_proc_init"]
      Asked == IF r.mm[c].imsi = None THEN {TRUE} ELSE BOOLEAN
  IN  IF r1.status # "up" THEN {r1}
      ELSE {new_tlli([o[1] EXCEPT !.mm[c].asked = o[2]], c) :
              o \in ptmsi_update(RauLocated(r2, c, m), c) \X Asked}

ra_upd_req(r, c, l, m) ==
  IF m.flaw = "bad" THEN {Rejected(r, c, l)}
  ELSE IF c # None
  THEN IF r.mm[c].ra # m.old_ra \/ r.mm[c].gmm = "deregistered" THEN {cleanup_free(r, c)}
       ELSE RauAccepted(r, c, m, l)
  ELSE LET d == RauContext(r, m)
       IN  IF d = None THEN {Rejected(r, IF l = None THEN None ELSE by_llme(r, l), l)}
           ELSE RauAccepted(IF r.mm[d].ran = m.ran THEN [r EXCEPT !.mm[d].gmm = "common_proc_init"] ELSE r,
                            d, m, l)

ra_upd_compl(r, c) ==
  LET r1 == OldTlliGone(OldPtmsiGone(r, c), c)
      r2 == [r1 EXCEPT !.mm[c].gmm = IF @ = "common_proc_init" THEN "registered" ELSE @,
                       !.mm[c].pmm = IF r1.mm[c].ran = "Iu" THEN Resumed(@) ELSE @]
  IN  OnlyNewTlli(r2, c)

ptmsi_reall_compl(r, c) == OldTlliGone(OldPtmsiGone(r, c), c)

\* Mutant: the other context of the subscriber stays.
id_resp_KeepsOther(r, c, i) ==
  LET m == r.mm[c]
      named == [r EXCEPT !.mm[c].imsi = i, !.renamed = IF m.imsi \in {None, i} THEN @ ELSE @ \cup {i}]
  IN  IF ~m.asked \/ i \notin Imsis THEN r ELSE rehash_imsi(named, c)

\* An IMSI: another context of the same subscriber is freed first, if this
\* one had no IMSI yet.
id_resp(r, c, i) ==
  LET m == r.mm[c]
      other == by_imsi(r, i)
      r1 == IF m.imsi = None /\ other # None THEN cleanup_free(r, other) ELSE r
      named == [r1 EXCEPT !.mm[c].imsi = i, !.renamed = IF m.imsi \in {None, i} THEN @ ELSE @ \cup {i}]
  IN  IF ~m.asked \/ i \notin Imsis THEN r
      ELSE IF r1.status # "up" THEN r1
      ELSE rehash_imsi(named, c)

\* The context of a Service Request.
ServiceContext(r, c, m) == IF c # None \/ m.mi = None THEN c ELSE by_mi(r, m.mi)

\* gsm48_gmm_authorize asks for an identity, or goes on and may then accept the
\* request; it is refused before that when the MS has PDP contexts and we have none.
\* Whether an identity is asked for afterwards, and the PMM state.
ServiceOutcomes(old) ==
  {<<old.asked, old.pmm>>, <<TRUE, old.pmm>>}
  \cup (IF old.imsi = None THEN {} ELSE {<<FALSE, old.pmm>>, <<FALSE, Resumed(old.pmm)>>})
Served(r, d, m, o) ==
  [r EXCEPT !.mm[d] = [r.mm[d] EXCEPT !.ue = m.ue, !.gmm = "common_proc_init",
                                      !.asked = o[1], !.pmm = o[2]]]

service_req(r, c, m) ==
  LET d == ServiceContext(r, c, m)
  IN  IF d = None \/ m.mi = None \/ m.flaw = "bad" THEN {r}
      ELSE {Served(r, d, m, o) : o \in ServiceOutcomes(r.mm[d])}

\* On Gb a message of no context that starts nothing frees its LLME.
Unknown(r, l, m) ==
  IF l = None \/ m.type \in {"det_req_off", "sm"} THEN r ELSE gprs_llgmm_unassign(r, l, Stray)

\* The messages that need a context.
Known(r, c, m) ==
  CASE m.type = "id_resp" -> id_resp(r, c, m.mi)
    [] m.type = "att_compl" -> att_compl(r, c)
    [] m.type = "ra_upd_compl" -> ra_upd_compl(r, c)
    [] m.type = "ptmsi_reall_compl" -> ptmsi_reall_compl(r, c)
    [] m.type \in {"det_req", "det_req_off", "det_ack"} -> cleanup_free(r, c)
    [] OTHER -> r

rcv_gmm(r, c, l, m) ==
  CASE m.type = "att_req" -> att_req(r, c, l, m)
    [] m.type = "ra_upd_req" -> ra_upd_req(r, c, l, m)
    [] m.type = "service_req" -> service_req(r, c, m)
    [] OTHER -> {IF c = None THEN Unknown(r, l, m)
                 ELSE IF r.mm[c].ran # m.ran THEN r
                 ELSE Known(r, c, m)}

-----------------------------------------------------------------------------
(* Actions.                                                                *)

Up == reg.status = "up"
Arrives == arrived < MaxMessages /\ arrived' = arrived + 1

\* gprs_llc_rcvmsg and gsm0408_gprs_rcvmsg_gb: the LLME of the TLLI, made if
\* there is none, becomes the LLME of the context.
rcvmsg_gb(m) ==
  /\ Up /\ Arrives /\ m.ran = "Gb"
  /\ \E known \in {lle_by_tlli(reg, m.tlli)} :
     \E l \in {IF known # None THEN known ELSE Free(Llmes, DOMAIN reg.llme)} :
       /\ l # None                                              \* bound: NLlme
       /\ \E r \in {IF known # None THEN reg ELSE llme_alloc(reg, l, m.tlli)} :
          \E c \in {by_tlli(r, m.tlli, m.ra)} :
            reg' \in rcv_gmm(IF c = None THEN r ELSE [r EXCEPT !.mm[c].llme = l], c, l, m)

\* gsm0408_gprs_rcvmsg_iu.
rcvmsg_iu(m) ==
  /\ Up /\ Arrives /\ m.ran = "Iu"
  /\ \E c \in {by_ue_ctx(reg, m.ue)} :
       reg' \in rcv_gmm(IF c = None THEN reg ELSE [reg EXCEPT !.mm[c].ra = m.ra], c, None, m)

\* An LLME has not been used for long: its context, or else the LLME itself.
llme_check(l) ==
  /\ Up /\ l \in DOMAIN reg.llme /\ UNCHANGED arrived
  /\ \E c \in {First(reg.mm_list, {d \in DOMAIN reg.mm : reg.mm[d].llme = l})} :
       reg' = Rejected(reg, c, l)

\* A timer, the HLR or the operator ends the context.
Cancelled(c) == Up /\ c \in DOMAIN reg.mm /\ reg' = cleanup_free(reg, c) /\ UNCHANGED arrived

\* Mutant: a connection whose context is not PMM-CONNECTED is freed silently.
iu_free_ue_OnlyConnected(u) ==
  /\ Up /\ UNCHANGED arrived
  /\ \E d \in {by_ue_ctx(reg, u)} :
       reg' = [reg EXCEPT !.mm = [c \in DOMAIN @ |->
                 IF @[c].ue # u THEN @[c]
                 ELSE IF c # d \/ @[c].pmm # "connected" THEN [@[c] EXCEPT !.ue = Gone]
                 ELSE [@[c] EXCEPT !.ue = None, !.pmm = "idle"]]]

\* The Iu connection is released: the PMM FSM of its context becomes idle, and
\* sgsn_ranap_iu_free_ue resets the pointer of the context it finds.
iu_free_ue(u) ==
  /\ Up /\ UNCHANGED arrived
  /\ \E d \in {by_ue_ctx(reg, u)} :
       reg' = [reg EXCEPT !.mm = [c \in DOMAIN @ |->
                 IF @[c].ue # u THEN @[c]
                 ELSE IF c # d THEN [@[c] EXCEPT !.ue = Gone]
                 ELSE [@[c] EXCEPT !.ue = None,
                                   !.pmm = IF reg.mm[c].pmm = "connected" THEN "idle" ELSE reg.mm[c].pmm]]]

\* The service manager starts the process again.
Restart == ~Up /\ reg' = Boot /\ UNCHANGED arrived

Init == reg = Boot /\ arrived = 0

Next ==
  \/ \E m \in Messages : rcvmsg_gb(m) \/ rcvmsg_iu(m)
  \/ \E l \in Llmes : llme_check(l)
  \/ \E c \in Ctxs : Cancelled(c)
  \/ \E u \in Ues : iu_free_ue(u)
  \/ Restart

Spec == Init /\ [][Next]_vars

-----------------------------------------------------------------------------
(* Properties.                                                             *)

\* The type of the state; a context is on the list exactly once.
TypeOK ==
  /\ arrived \in 0..MaxMessages
  /\ reg.status \in Statuses /\ reg.renamed \subseteq Imsis
  /\ DOMAIN reg.mm \subseteq Ctxs /\ reg.mm \in [DOMAIN reg.mm -> MmType]
  /\ reg.mm_list \in Seq(Ctxs)
  /\ IsInjective(reg.mm_list) /\ Range(reg.mm_list) = DOMAIN reg.mm
  /\ reg.by_imsi \in [Imsis -> Seq(DOMAIN reg.mm)]
  /\ reg.by_ptmsi \in [Ptmsis -> Seq(DOMAIN reg.mm)]
  /\ reg.by_ptmsi_old \in [Ptmsis -> Seq(DOMAIN reg.mm)]
  /\ reg.by_tlli \in [Tllis -> Seq(DOMAIN reg.mm)]
  /\ reg.by_tlli_new \in [Tllis -> Seq(DOMAIN reg.mm)]
  /\ DOMAIN reg.llme \subseteq Llmes /\ reg.llme \in [DOMAIN reg.llme -> LlmeType]
  /\ reg.llmes \in Seq(DOMAIN reg.llme)

\* A context's keys and its place in the hashes agree: every context is found
\* under its current IMSI, P-TMSIs and TLLIs, once, and under no other ones,
\* whatever handlers changed them.
Indexed(r, c) ==
  LET In(h, key) == \A k \in DOMAIN h : IsInjective(h[k]) /\ (c \in Range(h[k]) <=> k = key)
  IN  /\ In(r.by_imsi, r.mm[c].imsi)
      /\ In(r.by_ptmsi, r.mm[c].p_tmsi) /\ In(r.by_ptmsi_old, r.mm[c].p_tmsi_old)
      /\ In(r.by_tlli, r.mm[c].tlli) /\ In(r.by_tlli_new, r.mm[c].tlli_new)
IndexFresh == \A c \in DOMAIN reg.mm : Indexed(reg, c)

\* A P-TMSI that an MS may still use, as its new or its old one, belongs to one
\* context.
PtmsiUnique ==
  \A c, d \in DOMAIN reg.mm :
    c # d => {reg.mm[c].p_tmsi, reg.mm[c].p_tmsi_old}
               \cap {reg.mm[d].p_tmsi, reg.mm[d].p_tmsi_old} \subseteq {None}

\* A subscriber has one context, unless an MS has answered an Identity Request
\* of a context whose IMSI was known with this one.
ImsiUnique ==
  \A c, d \in DOMAIN reg.mm :
    c # d /\ reg.mm[c].imsi = reg.mm[d].imsi => reg.mm[c].imsi \in reg.renamed \cup {None}

\* The handlers use gb.llme of a Gb context untested: it is never NULL.
GbHasLlme ==
  /\ reg.status # "null llme"
  /\ \A c \in DOMAIN reg.mm : reg.mm[c].ran = "Gb" => reg.mm[c].llme # None

\* A context that is used on Iu has a connection of its own, or none.
UeLive ==
  \A c \in DOMAIN reg.mm : reg.mm[c].ran = "Iu" =>
    /\ reg.mm[c].ue # Gone
    /\ \A d \in DOMAIN reg.mm :
         d # c /\ reg.mm[d].ran = "Iu" /\ reg.mm[c].ue # None => reg.mm[d].ue # reg.mm[c].ue

=============================================================================
