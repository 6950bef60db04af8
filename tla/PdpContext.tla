----------------------------- MODULE PdpContext -----------------------------
(***************************************************************************)
(* PDP contexts of one MS: session management (gprs_sm.c), the contexts    *)
(* (pdpctx.c), the GTP side (sgsn_libgtp.c, gtp_ggsn.c), Gn policies on Iu *)
(* (sgsn_pdp_gn.c), the part of the MM context, the PMM state machine and  *)
(* the RAB assignment that act on PDP contexts, and the context transfer   *)
(* to another SGSN (sgsn_gtp_ctx.c).                                       *)
(*                                                                         *)
(* Every operation of the code on one PDP context maps a record to a       *)
(* record, so that the loops of the code are maps over the contexts.  The  *)
(* libgtp handle is part of the record: which requests it has queued, and  *)
(* whether the GGSN has confirmed the context.  Requests of a handle end   *)
(* with an answer or a timeout, or when the handle is freed.               *)
(*                                                                         *)
(* An MS uses one LLC SAPI.  Names, addresses, QoS and message formats are *)
(* left out; a request is a static GGSN's, one to be looked up, or neither.*)
(***************************************************************************)
EXTENDS Integers, FiniteSets, Lists

CONSTANTS
  Pctx,       \* memory for PDP contexts; bound: libgtp has no more handles
  Nsapis,     \* NSAPIs
  Tis,        \* transaction identifiers
  Requests,   \* what the MS asks for: NSAPI, TI and where the GGSN comes from
  LookupIds,  \* memory for look-ups; bound: no further look-up when all is used
  Configs,    \* configurations
  T339X_MAX_RETRANS,
  NoId        \* no NSAPI, no TI, no look-up

Policies == {"keep", "delete_gn"}
Rans == {"Gb", "Iu"}
ConfigType == [iu_release : Policies, rnc_loss : Policies, unreachable : BOOLEAN,
               rans : SUBSET Rans,
               asks : SUBSET Requests, memory : SUBSET Pctx]

ASSUME PdpAssumption ==
  /\ T339X_MAX_RETRANS \in Nat
  /\ Requests \subseteq Nsapis \X Tis \X {"static", "dynamic"}
  /\ NoId \notin Nsapis \cup Tis \cup LookupIds
  /\ Configs \subseteq ConfigType

VARIABLES
  cfg,      \* the configuration: Gn policies, unreachable timer; and the RANs, requests, memory
  mm,       \* the MM context
  pdp,      \* the PDP contexts
  lookups,  \* the GGSN look-ups under way at the resolver
  xfer,     \* a context transfer to another SGSN that awaits its Ack
  noted     \* the restart counter of the static GGSN is known
vars == <<cfg, mm, pdp, lookups, xfer, noted>>

\* ggsn: "static", "dynamic" (made for this context, destroy_ggsn) or "none".
\* timer, nexp: T3395 and its expirations.  v0: the handle fell back to GTPv0.
\* rnc: the GTP-U endpoint given to the GGSN is the RNC's (direct tunnel).
\* create, update, delete: requests of the handle without an answer (at least
\* one).  conf: the GGSN has confirmed the context.  segv: a Delete Request was
\* sent for a handle without GGSN addresses, which libgtp does not survive.
PdpType ==
  [alloc : BOOLEAN, mm : BOOLEAN, nsapi : Nsapis \cup {NoId}, ti : Tis \cup {NoId},
   ggsn : {"none", "static", "dynamic"}, lib : BOOLEAN,
   state : {"none", "cr_req", "cr_conf"}, timer : BOOLEAN, nexp : 0..T339X_MAX_RETRANS,
   cdr : BOOLEAN, v0 : BOOLEAN, rnc : BOOLEAN,
   create : BOOLEAN, update : BOOLEAN, delete : BOOLEAN, conf : BOOLEAN, segv : BOOLEAN]

NoPdp ==
  [alloc |-> FALSE, mm |-> FALSE, nsapi |-> NoId, ti |-> NoId, ggsn |-> "none",
   lib |-> FALSE, state |-> "none", timer |-> FALSE, nexp |-> 0,
   cdr |-> FALSE, v0 |-> FALSE, rnc |-> FALSE, create |-> FALSE, update |-> FALSE,
   delete |-> FALSE, conf |-> FALSE, segv |-> FALSE]

\* reg: the GMM state, as far as it matters here.  ue: there is an Iu connection.
\* unreach: the PMM-IDLE unreachable timer runs.  list: pdp_list, newest first.
\* rabs: RAB assignments the RNC has not answered on this connection.
MmType ==
  [alive : BOOLEAN, reg : {"normal", "suspended", "other"}, ran_type : Rans,
   pmm : {"detached", "connected", "idle"}, ue : BOOLEAN, unreach : BOOLEAN,
   lookup : LookupIds \cup {NoId}, list : Seq(Pctx), rabs : SUBSET Nsapis]

NoMm ==
  [alive |-> FALSE, reg |-> "other", ran_type |-> "Gb", pmm |-> "detached", ue |-> FALSE,
   unreach |-> FALSE, lookup |-> NoId, list |-> <<>>, rabs |-> {}]

\* mm: what lookup->mmctx points to; "used" after a freed MM context was used.
LookupType ==
  [mm : {"free", "null", "linked", "dangling", "used"}, ti : Tis \cup {NoId}, nsapi : Nsapis \cup {NoId},
   digits : {2, 3}]
NoLookup == [mm |-> "free", ti |-> NoId, nsapi |-> NoId, digits |-> 2]

TypeOK ==
  /\ cfg \in ConfigType
  /\ mm \in MmType
  /\ pdp \in [Pctx -> PdpType]
  /\ lookups \in [LookupIds -> LookupType]
  /\ xfer \in {"none", "linked", "dangling"}
  /\ noted \in BOOLEAN

Init ==
  /\ cfg \in Configs
  /\ mm = NoMm
  /\ pdp = [p \in Pctx |-> NoPdp]
  /\ lookups = [l \in LookupIds |-> NoLookup]
  /\ xfer = "none"
  /\ noted = FALSE

-----------------------------------------------------------------------------
(* Operations on one PDP context.                                          *)

pdpctx_timer_start(c) == [c EXCEPT !.timer = TRUE, !.nexp = 0]
pdpctx_timer_stop(c) == [c EXCEPT !.timer = FALSE]

\* External: libgtp frees a handle together with its queued requests.
pdp_freepdp(c) ==
  [c EXCEPT !.lib = FALSE, !.create = FALSE, !.update = FALSE, !.delete = FALSE,
            !.v0 = FALSE, !.rnc = FALSE, !.conf = FALSE]

sgsn_ggsn_ctx_remove_pdp(c) == [pdp_freepdp(c) EXCEPT !.ggsn = "none"]

\* Mutant: the context is freed without its libgtp handle.
sgsn_pdp_ctx_free_KeepsHandle(c) ==
  [NoPdp EXCEPT !.lib = c.lib, !.create = c.create, !.update = c.update, !.delete = c.delete]

\* A handle that the context still has when its GGSN is gone outlives it.
sgsn_pdp_ctx_free(c) ==
  LET d == IF c.ggsn # "none" THEN sgsn_ggsn_ctx_remove_pdp(c) ELSE c
  IN  [NoPdp EXCEPT !.lib = d.lib, !.create = d.create, !.update = d.update, !.delete = d.delete]

\* External: gtp_delete_context_req2 reads the GGSN's addresses, which a
\* handle has from the Create PDP Context Response on.
gtp_delete_context_req2(c) == IF c.conf THEN [c EXCEPT !.delete = TRUE] ELSE [c EXCEPT !.segv = TRUE]

sgsn_delete_pdp_ctx(c) ==
  IF c.ggsn # "none" /\ c.lib /\ c.state = "cr_conf" THEN gtp_delete_context_req2(c) ELSE c

\* What the handlers do with a context whose GTP side may be gone already.
DeleteOrFree(c) == IF c.ggsn # "none" THEN sgsn_delete_pdp_ctx(c) ELSE sgsn_pdp_ctx_free(c)

\* Mutant: the timer goes on.
pdp_ctx_detach_mm_ctx_KeepsTimer(c) == [c EXCEPT !.mm = FALSE]

pdp_ctx_detach_mm_ctx(c) == pdpctx_timer_stop([c EXCEPT !.mm = FALSE])

sgsn_pdp_ctx_terminate(c) ==
  LET d == pdp_ctx_detach_mm_ctx([c EXCEPT !.cdr = FALSE])
  IN  IF d.ggsn # "none" THEN sgsn_delete_pdp_ctx(d) ELSE d

\* Mutant: the message to the MS is not supervised.
sgsn_ggsn_ctx_drop_pdp_Unsupervised(c) ==
  IF c.lib /\ c.ggsn # "none" THEN sgsn_delete_pdp_ctx(c)
  ELSE IF ~(c.mm /\ mm.reg = "normal") THEN sgsn_pdp_ctx_free(c)
  ELSE IF c.ggsn # "none" THEN sgsn_ggsn_ctx_remove_pdp(c) ELSE c

\* Tell the MS, when it is registered, and the GGSN, when it is still there.
sgsn_ggsn_ctx_drop_pdp(c) ==
  LET told == c.mm /\ mm.reg = "normal"
      d == IF told THEN pdpctx_timer_start(c) ELSE c
  IN  IF c.lib /\ c.ggsn # "none" THEN sgsn_delete_pdp_ctx(d)
      ELSE IF ~told THEN sgsn_pdp_ctx_free(c)
      ELSE IF c.ggsn # "none" THEN sgsn_ggsn_ctx_remove_pdp(d) ELSE d

\* gtp_freepdp frees the handle after this callback.
cb_delete_context(c) == sgsn_ggsn_ctx_drop_pdp(pdp_freepdp(c))

\* The accept starts the CDR timer.
send_act_pdp_cont_acc(c) == [c EXCEPT !.cdr = TRUE]

-----------------------------------------------------------------------------
(* The MM context's view.                                                  *)

Attached(c) == c.alloc /\ c.mm
ByNsapi(n) == Kept(mm.list, {p \in Pctx : pdp[p].nsapi = n})
ByTid(t) == Kept(mm.list, {p \in Pctx : pdp[p].ti = t})

\* The handler leaves the contexts as f and the MM context as m, but for the
\* contexts that left pdp_list.
Become(f, m) ==
  /\ pdp' = f
  /\ mm' = [m EXCEPT !.list = Kept(@, {p \in Pctx : Attached(f[p])})]

\* RAB assignment requests for a set of NSAPIs, when there is a connection.
RabActivate(m, S) == IF m.ue THEN [m EXCEPT !.rabs = @ \cup S] ELSE m
sgsn_mm_ctx_iu_activate_rabs(m) ==
  RabActivate(m, {pdp[p].nsapi : p \in {q \in Pctx : Attached(pdp[q]) /\ pdp[q].lib}})
sgsn_mm_ctx_iu_ranap_free(m) == [m EXCEPT !.ue = FALSE, !.rabs = {}]

sgsn_mm_iu_unreachable_timer_stop(m) ==
  IF m.ran_type = "Iu" THEN [m EXCEPT !.unreach = FALSE] ELSE m
sgsn_mm_iu_unreachable_timer_start(m, f) ==
  IF /\ m.ran_type = "Iu" /\ m.pmm = "idle" /\ cfg.unreachable
     /\ \E p \in Pctx : Attached(f[p]) /\ f[p].ggsn # "none" /\ f[p].lib
    THEN [m EXCEPT !.unreach = TRUE] ELSE m

sgsn_mm_ctx_delete_all_pdp_gn(f) ==
  [p \in Pctx |-> IF Attached(f[p]) THEN sgsn_delete_pdp_ctx(f[p]) ELSE f[p]]

\* The GGSN sends to the SGSN again; skip needs no Update Request.
mmctx_change_gtpu_endpoints_to_sgsn(f, skip) ==
  [p \in Pctx |->
     IF Attached(f[p]) /\ f[p].ggsn # "none" /\ f[p].lib /\ f[p].state = "cr_conf"
       THEN [f[p] EXCEPT !.rnc = FALSE, !.update = @ \/ p # skip] ELSE f[p]]

\* Leaving PMM-CONNECTED for PMM-IDLE: the contexts, and the MM context.
PmmIdlePdp(skip) ==
  IF cfg.iu_release = "delete_gn" THEN sgsn_mm_ctx_delete_all_pdp_gn(pdp)
                                  ELSE mmctx_change_gtpu_endpoints_to_sgsn(pdp, skip)
PmmIdleMm(m, f) ==
  LET d == [sgsn_mm_ctx_iu_ranap_free(m) EXCEPT !.pmm = "idle"]
  IN  sgsn_mm_iu_unreachable_timer_start(
        IF cfg.iu_release = "delete_gn" THEN sgsn_mm_iu_unreachable_timer_stop(d) ELSE d, f)

-----------------------------------------------------------------------------
(* Activation: requests of the MS, look-ups, answers of the GGSN.          *)

\* libgtp has no handle left, or the NSAPI is in use.
OutOfHandles == \A p \in cfg.memory : pdp[p].alloc \/ pdp[p].lib
\* Mutant: the NSAPI is not tested.
CannotCreate_AnyNsapi(n) == OutOfHandles
CannotCreate(n) == OutOfHandles \/ ByNsapi(n) # <<>>

\* The handle is made, and the Create PDP Context Request sent.
sgsn_create_pdp_ctx(n, t, g) ==
  [NoPdp EXCEPT !.alloc = TRUE, !.mm = TRUE, !.nsapi = n, !.ti = t, !.ggsn = g,
                !.lib = TRUE, !.state = "cr_req", !.create = TRUE]

\* A new context for NSAPI n and TI t at GGSN g; else none, and no message to the MS.
sgsn_pdp_ctx_alloc(n, t, g, m) ==
  IF CannotCreate(n)
    THEN Become(pdp, m)
    ELSE \E p \in {q \in cfg.memory : ~pdp[q].alloc /\ ~pdp[q].lib} :
           Become([pdp EXCEPT ![p] = sgsn_create_pdp_ctx(n, t, g)],
                  [m EXCEPT !.list = <<p>> \o @])

\* An Activate Request for an NSAPI that has a context: refused when the GTP side
\* is gone or the TI is another one, else taken for a retransmission.
ActPdpAgain(p, t) ==
  /\ pdp[p].lib /\ pdp[p].ti = t
  /\ mm.ran_type = "Iu" /\ pdp[p].state # "cr_conf"
  /\ Become(pdp, RabActivate(mm, {pdp[p].nsapi}))
  /\ UNCHANGED <<cfg, lookups, xfer, noted>>

ActPdpStatic(n, t) ==
  /\ ByNsapi(n) = <<>>
  /\ sgsn_pdp_ctx_alloc(n, t, "static", mm)
  /\ UNCHANGED <<cfg, lookups, xfer, noted>>

\* A look-up of the same TI is under way: the request is ignored.  A look-up for
\* another TI takes its place in the MM context.
ActPdpLookup(n, t) ==
  /\ ByNsapi(n) = <<>>
  /\ mm.lookup # NoId => lookups[mm.lookup].ti # t
  /\ \E l \in LookupIds :
       /\ lookups[l].mm = "free"
       /\ \A k \in LookupIds : k < l => lookups[k].mm # "free"
       /\ lookups' = [lookups EXCEPT ![l] = [mm |-> "linked", ti |-> t, nsapi |-> n, digits |-> 2]]
       /\ mm' = [mm EXCEPT !.lookup = l]
  /\ UNCHANGED <<cfg, pdp, xfer, noted>>

do_act_pdp_req(n, t, g) ==
  /\ mm.alive
  /\ \/ \E p \in Pctx : ByNsapi(n) # <<>> /\ p = ByNsapi(n)[1] /\ ActPdpAgain(p, t)
     \/ /\ g = "static"
        /\ mm.lookup # NoId => lookups[mm.lookup].ti # t
        /\ ActPdpStatic(n, t)
     \/ g = "dynamic" /\ ActPdpLookup(n, t)

\* Mutant: the MM context keeps its pointer to the look-up.
LookupGivenUp_KeepsPointer(l) == lookups' = [lookups EXCEPT ![l] = NoLookup] /\ UNCHANGED <<mm, pdp>>
LookupGivenUp(l) ==
  /\ lookups' = [lookups EXCEPT ![l] = NoLookup]
  /\ Become(pdp, [mm EXCEPT !.lookup = NoId])

\* The resolver answers.  The first failure makes it ask for the three digit MNC.
ggsn_lookup_cb(l, ok) ==
  /\ UNCHANGED <<cfg, xfer, noted>>
  /\ CASE lookups[l].mm = "null" ->
            lookups' = [lookups EXCEPT ![l] = NoLookup] /\ UNCHANGED <<mm, pdp>>
       [] lookups[l].mm = "dangling" ->
            lookups' = [lookups EXCEPT ![l].mm = "used"] /\ UNCHANGED <<mm, pdp>>
       [] lookups[l].mm = "linked" /\ ~ok /\ lookups[l].digits = 2 ->
            lookups' = [lookups EXCEPT ![l].digits = 3] /\ UNCHANGED <<mm, pdp>>
       [] lookups[l].mm = "linked" /\ ~ok /\ lookups[l].digits = 3 -> LookupGivenUp(l)
       [] lookups[l].mm = "linked" /\ ok ->
            /\ lookups' = [lookups EXCEPT ![l] = NoLookup]
            /\ sgsn_pdp_ctx_alloc(lookups[l].nsapi, lookups[l].ti, "dynamic",
                                  [mm EXCEPT !.lookup = NoId])
       [] OTHER -> FALSE

\* A message of the static GGSN about context except (or NoId) has a Recovery IE;
\* changed: the restart counter is not the noted one.  All its other contexts are
\* dropped.  A GGSN that was looked up has no other context.
cb_recovery3(changed, except) ==
  [p \in Pctx |-> IF pdp[p].ggsn = "static" /\ noted /\ changed /\ p # except
                    THEN sgsn_ggsn_ctx_drop_pdp(pdp[p]) ELSE pdp[p]]

\* The Create Request is answered, times out ("timeout", without a handle) or the
\* answer is malformed.  sent: the RAB Assignment can be sent to the RNC.
Rejected(c) == sgsn_pdp_ctx_free(pdp_freepdp([c EXCEPT !.state = "none"]))
create_pdp_conf(c, res, sent) ==
  CASE ~c.mm \/ res \in {"timeout", "refused"} -> Rejected(c)
    [] c.mm /\ res = "malformed" ->
         IF c.v0 THEN Rejected(c) ELSE [c EXCEPT !.v0 = TRUE]
    [] c.mm /\ res = "accepted" /\ mm.ran_type = "Gb" ->
         send_act_pdp_cont_acc([c EXCEPT !.create = FALSE, !.conf = TRUE, !.v0 = FALSE])
    [] c.mm /\ res = "accepted" /\ mm.ran_type = "Iu" ->
         IF mm.ue /\ ~sent THEN Rejected(c) ELSE [c EXCEPT !.create = FALSE, !.conf = TRUE, !.v0 = FALSE]

\* An answer has a Recovery IE, which is handled first.
CreateConf(p, res, sent) ==
  /\ pdp[p].create
  /\ sent \/ (res = "accepted" /\ mm.ue)
  /\ \E changed \in IF res \in {"accepted", "refused"} /\ pdp[p].ggsn = "static" THEN BOOLEAN ELSE {FALSE} :
       \E f \in {cb_recovery3(changed, p)} : \E c \in {create_pdp_conf(f[p], res, sent)} :
         Become([f EXCEPT ![p] = c],
                IF c.conf /\ mm.ran_type = "Iu" THEN RabActivate(mm, {c.nsapi}) ELSE mm)
  /\ noted' = (noted \/ (res \in {"accepted", "refused"} /\ pdp[p].ggsn = "static"))
  /\ UNCHANGED <<cfg, lookups, xfer>>

-----------------------------------------------------------------------------
(* The GGSN's other messages.                                              *)

\* Only the contexts, and pdp_list, change.
PdpStep(f) == Become(f, mm) /\ UNCHANGED <<cfg, lookups, xfer, noted>>

\* The GGSN does not know the context; other answers change nothing, but another
\* Update Request may be unanswered.
update_pdp_conf(p, nonexist) ==
  /\ pdp[p].update
  /\ PdpStep([pdp EXCEPT ![p] = IF nonexist THEN cb_delete_context(@) ELSE [@ EXCEPT !.update = FALSE]])

\* Mutant: the context stays.
delete_pdp_conf_KeepsContext(p) ==
  /\ pdp[p].delete
  /\ PdpStep([pdp EXCEPT ![p].delete = FALSE])
\* The answer to the Delete Request, or that it timed out.
delete_pdp_conf(p) ==
  /\ pdp[p].delete
  /\ PdpStep([pdp EXCEPT ![p] = sgsn_pdp_ctx_free(@)])

\* The GGSN deletes a context, or its GTP-U says that it knows none.
DeleteContextInd(p) ==
  /\ pdp[p].lib /\ pdp[p].alloc
  /\ PdpStep([pdp EXCEPT ![p] = cb_delete_context(@)])

\* Echo Requests go to the static GGSN only: a dynamic one has no echo interval.
EchoTimeout ==
  /\ \E p \in Pctx : pdp[p].ggsn = "static"
  /\ PdpStep([p \in Pctx |-> IF pdp[p].ggsn = "static" THEN sgsn_ggsn_ctx_drop_pdp(pdp[p]) ELSE pdp[p]])

\* A Recovery IE in an Echo Response (except NoId) or a request of the GGSN.
Recovery(changed, except) ==
  /\ changed \/ ~noted
  /\ except # NoId => pdp[except].lib /\ pdp[except].ggsn = "static"
  /\ Become(cb_recovery3(changed, except), mm)
  /\ noted' = TRUE
  /\ UNCHANGED <<cfg, lookups, xfer>>

-----------------------------------------------------------------------------
(* Deactivation: the MS, T3395, the PDP context status.                    *)

\* Mutant: one expiration too many.
pdpctx_timer_cb_OneMore(p) ==
  /\ pdp[p].timer
  /\ PdpStep([pdp EXCEPT ![p] =
       IF @.nexp > T339X_MAX_RETRANS THEN DeleteOrFree([@ EXCEPT !.timer = FALSE, !.nexp = 0, !.state = "none"])
                                     ELSE [@ EXCEPT !.nexp = @ + 1]])

pdpctx_timer_cb(p) ==
  /\ pdp[p].timer
  /\ PdpStep([pdp EXCEPT ![p] =
       IF @.nexp = T339X_MAX_RETRANS THEN DeleteOrFree([@ EXCEPT !.timer = FALSE, !.nexp = 0, !.state = "none"])
                                     ELSE [@ EXCEPT !.nexp = pdp[p].nexp + 1]])

gsm48_rx_gsm_deact_pdp_req(t) ==
  /\ mm.alive /\ ByTid(t) # <<>>
  /\ PdpStep([pdp EXCEPT ![ByTid(t)[1]] = DeleteOrFree(@)])

gsm48_rx_gsm_deact_pdp_ack(t) ==
  /\ mm.alive /\ ByTid(t) # <<>>
  /\ PdpStep([pdp EXCEPT ![ByTid(t)[1]] = DeleteOrFree(pdpctx_timer_stop(@))])

\* The MS says which NSAPIs are active for it.
process_ms_ctx_status(S) ==
  /\ mm.alive
  /\ PdpStep([p \in Pctx |->
       IF Attached(pdp[p]) /\ pdp[p].nsapi \notin S
         THEN DeleteOrFree(pdp[p]) ELSE pdp[p]])

-----------------------------------------------------------------------------
(* The MM context.                                                         *)

MmStep(m) == mm' = m /\ UNCHANGED <<cfg, pdp, lookups, xfer, noted>>

sgsn_mm_ctx_alloc(r) ==
  /\ ~mm.alive /\ r \in cfg.rans
  /\ MmStep([NoMm EXCEPT !.alive = TRUE, !.ran_type = r])

\* What the GMM state machine says about the registration (see GmmContext).
GmmState(r) ==
  /\ mm.alive /\ mm.reg # r /\ (r = "suspended" => mm.ran_type = "Gb")
  /\ MmStep([mm EXCEPT !.reg = r])

\* Mutant: a transfer is not told that the MM context goes.
ctx_xfer_purge_mm_Never(x) == x

\* Every context is terminated; the look-up of the MM context and a transfer lose
\* their pointers to it.
ctx_xfer_purge_mm(x) == IF x = "linked" THEN "none" ELSE x
Dangling(l) == IF lookups[l].mm = "linked" THEN [lookups[l] EXCEPT !.mm = "dangling"] ELSE lookups[l]
Terminated(f) == [p \in Pctx |-> IF Attached(f[p]) THEN sgsn_pdp_ctx_terminate(f[p]) ELSE f[p]]
sgsn_mm_ctx_cleanup_free(f, x) ==
  /\ pdp' = Terminated(f)
  /\ mm' = [NoMm EXCEPT !.unreach = sgsn_mm_iu_unreachable_timer_stop(mm).unreach]
  /\ lookups' = [l \in LookupIds |->
                   IF l = mm.lookup THEN [lookups[l] EXCEPT !.mm = "null"] ELSE Dangling(l)]
  /\ xfer' = IF ctx_xfer_purge_mm(x) = "linked" THEN "dangling" ELSE ctx_xfer_purge_mm(x)
  /\ UNCHANGED <<cfg, noted>>

MmFree == mm.alive /\ sgsn_mm_ctx_cleanup_free(pdp, xfer)

\* Another SGSN asks for the contexts; one transfer at a time.
cb_sgsn_context_request_ind ==
  /\ mm.alive /\ mm.reg \in {"normal", "suspended"} /\ xfer = "none"
  /\ \E p \in Pctx : Attached(pdp[p]) /\ pdp[p].state = "cr_conf" /\ pdp[p].lib
  /\ xfer' = "linked"
  /\ UNCHANGED <<cfg, mm, pdp, lookups, noted>>

\* It has them: they are deleted here, and the MM context goes.
ctx_xfer_finish(accepted) ==
  /\ xfer = "linked"
  /\ IF accepted THEN sgsn_mm_ctx_cleanup_free(sgsn_mm_ctx_delete_all_pdp_gn(pdp), "none")
     ELSE xfer' = "none" /\ UNCHANGED <<cfg, mm, pdp, lookups, noted>>

-----------------------------------------------------------------------------
(* Iu: connections, PMM states, RAB assignment, loss of the RNC.           *)

\* E_PMM_PS_DETACH: connected and idle stop the timer, connected the connection.
PmmDetach(m) ==
  CASE m.pmm = "connected" ->
         sgsn_mm_ctx_iu_ranap_free([sgsn_mm_iu_unreachable_timer_stop(m) EXCEPT !.pmm = "detached"])
    [] m.pmm = "idle" -> [sgsn_mm_iu_unreachable_timer_stop(m) EXCEPT !.pmm = "detached"]
    [] m.pmm = "detached" -> m

\* The MS comes from the other RAN: it is deregistered and the RAN type changes.
RatChange(r) ==
  /\ mm.alive /\ r \in cfg.rans /\ r # mm.ran_type
  /\ MmStep([(IF mm.ran_type = "Iu" THEN PmmDetach(mm) ELSE mm) EXCEPT !.ran_type = r, !.reg = "other"])

\* An initial UE message: the MM context gets the new connection.
IuConnect == mm.alive /\ mm.ran_type = "Iu" /\ MmStep([mm EXCEPT !.ue = TRUE, !.rabs = {}])

\* Mutant: the unreachable timer goes on.
PmmResume_KeepsTimer(m) == sgsn_mm_ctx_iu_activate_rabs([m EXCEPT !.pmm = "connected"])

\* E_PMM_PS_ATTACH, _CONN_ESTABLISH, _RA_UPDATE in PMM-IDLE.
PmmResume(m) ==
  sgsn_mm_ctx_iu_activate_rabs([sgsn_mm_iu_unreachable_timer_stop(m) EXCEPT !.pmm = "connected"])

\* Attach Complete.
PsAttach ==
  /\ mm.alive /\ mm.ran_type = "Iu" /\ mm.ue /\ mm.pmm # "connected"
  /\ MmStep(IF mm.pmm = "idle" THEN PmmResume(mm) ELSE [mm EXCEPT !.pmm = "connected"])

\* A Service Request was authorised, or an RA Update is complete (signalling).
PsEstablish(signalling) ==
  /\ mm.alive /\ mm.ran_type = "Iu" /\ mm.ue
  /\ \E m \in {IF mm.pmm = "idle" THEN PmmResume(mm) ELSE mm} :
       MmStep(IF signalling THEN m ELSE sgsn_mm_ctx_iu_activate_rabs(m))

\* E_PMM_PS_CONN_RELEASE; then the connection goes in every PMM state.
IuRelease ==
  /\ mm.alive /\ mm.ue
  /\ \E f \in {IF mm.pmm = "connected" THEN PmmIdlePdp(NoId) ELSE pdp} :
       Become(f, IF mm.pmm = "connected" THEN PmmIdleMm(mm, f) ELSE sgsn_mm_ctx_iu_ranap_free(mm))
  /\ UNCHANGED <<cfg, lookups, xfer, noted>>

mm_iu_unreachable_pdp_timer_cb ==
  /\ mm.unreach
  /\ Become(sgsn_mm_ctx_delete_all_pdp_gn(pdp), [mm EXCEPT !.unreach = FALSE])
  /\ UNCHANGED <<cfg, lookups, xfer, noted>>

sgsn_mm_iu_handle_rnc_loss ==
  /\ mm.alive /\ mm.ran_type = "Iu" /\ (mm.ue \/ mm.pmm # "detached")
  /\ \E m \in {sgsn_mm_iu_unreachable_timer_stop(mm)},
        f \in {IF mm.pmm = "connected" THEN PmmIdlePdp(NoId) ELSE pdp} :
       \E n \in {IF mm.pmm = "connected" THEN PmmIdleMm(m, f) ELSE sgsn_mm_ctx_iu_ranap_free(m)} :
         IF cfg.rnc_loss = "delete_gn"
           THEN Become(sgsn_mm_ctx_delete_all_pdp_gn(f), sgsn_mm_iu_unreachable_timer_stop(n))
           ELSE Become(f, n)
  /\ UNCHANGED <<cfg, lookups, xfer, noted>>

\* The GGSN had an Error Indication from the RNC for the direct tunnel of p.
cb_update_context_ind(p) ==
  /\ pdp[p].lib /\ Attached(pdp[p]) /\ mm.ran_type = "Iu" /\ mm.pmm = "connected"
  /\ \E f \in {PmmIdlePdp(p)} : Become(f, PmmIdleMm(mm, f))
  /\ UNCHANGED <<cfg, lookups, xfer, noted>>

\* The RNC's answer about NSAPI n: set up, with the transport address and TEID of
\* the RNC or as before ("same"), or with an address that cannot be used ("bad").
RabConfirmed(c, kind) ==
  LET d == IF kind = "moved" THEN [c EXCEPT !.rnc = TRUE, !.update = TRUE] ELSE c
  IN  IF d.state = "cr_conf" THEN d
      ELSE [send_act_pdp_cont_acc(d) EXCEPT !.state = "cr_conf"]
RabFailed(c) == IF c.state # "cr_conf" THEN sgsn_delete_pdp_ctx(c) ELSE pdpctx_timer_start(c)
sgsn_ranap_rab_ass_resp(n, kind) ==
  /\ mm.alive /\ n \in mm.rabs
  /\ \E m \in {[mm EXCEPT !.rabs = @ \ {n}]} :
       IF ByNsapi(n) = <<>> THEN Become(pdp, sgsn_mm_ctx_iu_ranap_free(m))
       ELSE \E p \in {ByNsapi(n)[1]} :
              Become(IF ~pdp[p].lib THEN pdp
                     ELSE [pdp EXCEPT ![p] = IF kind = "bad" THEN RabFailed(@) ELSE RabConfirmed(@, kind)],
                     m)
  /\ UNCHANGED <<cfg, lookups, xfer, noted>>

-----------------------------------------------------------------------------
\* After an access to freed memory or a crash of libgtp there is no SGSN.
Running == (\A p \in Pctx : ~pdp[p].segv) /\ (\A l \in LookupIds : lookups[l].mm # "used")

MsInput ==
  \/ \E r \in cfg.asks : do_act_pdp_req(r[1], r[2], r[3])
  \/ \E t \in Tis : gsm48_rx_gsm_deact_pdp_req(t)
  \/ \E t \in Tis : gsm48_rx_gsm_deact_pdp_ack(t)
  \/ \E S \in SUBSET {pdp[p].nsapi : p \in {q \in Pctx : Attached(pdp[q])}} : process_ms_ctx_status(S)
  \/ \E r \in Rans : sgsn_mm_ctx_alloc(r)
  \/ \E r \in Rans : RatChange(r)
  \/ \E r \in {"normal", "suspended", "other"} : GmmState(r)
  \/ MmFree
GgsnInput ==
  \/ \E p \in Pctx, res \in {"accepted", "refused", "malformed", "timeout"}, sent \in BOOLEAN :
       CreateConf(p, res, sent)
  \/ \E p \in Pctx, nonexist \in BOOLEAN : update_pdp_conf(p, nonexist)
  \/ \E p \in Pctx : delete_pdp_conf(p)
  \/ \E p \in Pctx : DeleteContextInd(p)
  \/ \E p \in Pctx : cb_update_context_ind(p)
  \/ EchoTimeout
  \/ \E changed \in BOOLEAN, except \in Pctx \cup {NoId} : Recovery(changed, except)
  \/ \E l \in LookupIds, ok \in BOOLEAN : ggsn_lookup_cb(l, ok)
  \/ cb_sgsn_context_request_ind
  \/ \E accepted \in BOOLEAN : ctx_xfer_finish(accepted)
IuInput ==
  \/ IuConnect
  \/ PsAttach
  \/ \E signalling \in BOOLEAN : PsEstablish(signalling)
  \/ IuRelease
  \/ sgsn_mm_iu_handle_rnc_loss
  \/ \E n \in Nsapis, kind \in {"moved", "same", "bad"} : sgsn_ranap_rab_ass_resp(n, kind)
TimerInput ==
  \/ \E p \in Pctx : pdpctx_timer_cb(p)
  \/ mm_iu_unreachable_pdp_timer_cb

Next == Running /\ (MsInput \/ GgsnInput \/ IuInput \/ TimerInput)
Spec == Init /\ [][Next]_vars

\* libgtp answers or times out every request, and T3395 expires.
Fairness ==
  \A p \in Pctx :
    /\ WF_vars(Running /\ \E res \in {"accepted", "refused", "malformed", "timeout"}, sent \in BOOLEAN :
                 CreateConf(p, res, sent))
    /\ WF_vars(Running /\ delete_pdp_conf(p))
    /\ WF_vars(Running /\ pdpctx_timer_cb(p))
FairSpec == Spec /\ Fairness
-----------------------------------------------------------------------------
(* Properties.                                                             *)

\* A libgtp handle, with the requests it has queued, belongs to a context that
\* exists and to a GGSN, whatever freed either meanwhile: cb_conf's cbp never points
\* to freed memory, update_pdp_conf and sgsn_gtp_data_req may follow pdp->ggsn, and
\* sgsn_pdp_ctx_free never finds what it says "shouldn't happen" (pdpctx.c).
HandleHasGgsn ==
  \A p \in Pctx : pdp[p].lib \/ pdp[p].create \/ pdp[p].update \/ pdp[p].delete
                    => pdp[p].alloc /\ pdp[p].ggsn # "none"

\* The look-up that do_act_pdp_req compares a request with is one the resolver still
\* has, and it points back to the MM context: its callback clears the pointer on
\* every path (gprs_sm.c, ggsn_lookup_cb; mmctx.c, sgsn_mm_ctx_cleanup_free).
LookupPointerLive == mm.lookup # NoId => lookups[mm.lookup].mm = "linked"

\* An MS has one context per NSAPI although the check of do_act_pdp_req may be
\* made before a look-up and the context created after it (gprs_sm.c, pdpctx.c).
NsapiUnique ==
  \A p, q \in Pctx : p # q /\ Attached(pdp[p]) /\ Attached(pdp[q]) => pdp[p].nsapi # pdp[q].nsapi

\* T3395 runs only for a context with an MM context, whose callback follows pdp->mm,
\* and the CDR timer only for a context that exists and is attached.
TimersLive == \A p \in Pctx : pdp[p].timer \/ pdp[p].cdr => Attached(pdp[p])

\* When the GGSN side of a context went away the MS is being told: T3395 runs until
\* it answers or the context is freed (gtp_ggsn.c, sgsn_ggsn_ctx_drop_pdp).
ReleasedSupervised ==
  \A p \in Pctx : Attached(pdp[p]) /\ ~pdp[p].lib => pdp[p].timer /\ pdp[p].ggsn = "none"

\* The unreachable timer, which deletes all contexts at the GGSN, runs in PMM-IDLE
\* on Iu only, and never for an MM context that was freed (sgsn_pdp_gn.c).
UnreachableIdle == mm.unreach => mm.alive /\ mm.ran_type = "Iu" /\ mm.pmm = "idle"

\* A context transfer waiting for its Ack never refers to an MM context that was
\* freed meanwhile (sgsn_gtp_ctx.c, ctx_xfer_purge_mm).
XferContextAlive == xfer # "dangling" /\ (xfer = "linked" => mm.alive)

\* A context without an MM context exists only to wait for the GGSN's answer.
\* pdpctx.c, sgsn_pdp_ctx_terminate: "There might still be pending callbacks in
\* libgtp. So the parts of this object relevant to GTP need to remain intact in
\* this case."
OrphanAwaitsGtp == \A p \in Pctx : pdp[p].alloc /\ ~pdp[p].mm => pdp[p].create \/ pdp[p].delete

\* The life of the GTP tunnel of each context, as PdpTunnel promises it.
TunnelOf(c) ==
  CASE ~c.alloc -> "none"
    [] c.alloc /\ c.delete -> "closing"
    [] c.alloc /\ ~c.delete /\ c.create -> "creating"
    [] c.alloc /\ ~c.delete /\ ~c.create /\ c.lib -> "up"
    [] c.alloc /\ ~c.lib -> IF c.mm THEN "released" ELSE "abandoned"
Tunnel == INSTANCE PdpTunnel WITH
  tunnel <- [p \in Pctx |-> IF Running THEN TunnelOf(pdp[p]) ELSE "none"]
TunnelSpec == Tunnel!Spec
=============================================================================
