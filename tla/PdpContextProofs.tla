-------------------------- MODULE PdpContextProofs --------------------------
(***************************************************************************)
(* PdpContext keeps its safety properties and implements PdpTunnel, for    *)
(* every number of contexts, NSAPIs, look-ups and retransmissions and all  *)
(* Gn policies.                                                            *)
(*                                                                         *)
(* An operation on one context is first shown to take a consistent record  *)
(* to a consistent one and to move its tunnel as PdpTunnel allows; the     *)
(* inputs, which apply such operations to one or to all contexts, are then *)
(* shown to preserve the invariant Inv, one lemma per input.               *)
(***************************************************************************)
EXTENDS PdpContext, ListsProofs

\* What holds of one PDP context between any two inputs.
Consistent(c) ==
  /\ c \in PdpType
  /\ ~c.alloc => c = NoPdp
  /\ c.alloc => c.nsapi \in Nsapis /\ c.ti \in Tis /\ (c.lib <=> c.ggsn # "none")
  /\ c.create \/ c.update \/ c.delete => c.lib
  /\ c.timer \/ c.cdr => c.mm
  /\ c.mm /\ ~c.lib => c.timer

\* A context that was c and is d now.
Evolves(c, d) ==
  /\ Consistent(d)
  /\ d.mm => c.mm /\ d.nsapi = c.nsapi
  /\ TunnelOf(d) # TunnelOf(c) => d.segv \/ TunnelOf(d) \in Tunnel!Successors[TunnelOf(c)]

\* The fields of a context have their types, and may be set within them.
LEMMA PdpSet == \A r \in PdpType :
  /\ r.alloc \in BOOLEAN /\ \A x \in BOOLEAN : [r EXCEPT !.alloc = x] \in PdpType
  /\ r.mm \in BOOLEAN /\ \A x \in BOOLEAN : [r EXCEPT !.mm = x] \in PdpType
  /\ r.nsapi \in Nsapis \cup {NoId} /\ \A x \in Nsapis \cup {NoId} : [r EXCEPT !.nsapi = x] \in PdpType
  /\ r.ti \in Tis \cup {NoId} /\ \A x \in Tis \cup {NoId} : [r EXCEPT !.ti = x] \in PdpType
  /\ r.ggsn \in {"none", "static", "dynamic"} /\ \A x \in {"none", "static", "dynamic"} : [r EXCEPT !.ggsn = x] \in PdpType
  /\ r.lib \in BOOLEAN /\ \A x \in BOOLEAN : [r EXCEPT !.lib = x] \in PdpType
  /\ r.state \in {"none", "cr_req", "cr_conf"} /\ \A x \in {"none", "cr_req", "cr_conf"} : [r EXCEPT !.state = x] \in PdpType
  /\ r.timer \in BOOLEAN /\ \A x \in BOOLEAN : [r EXCEPT !.timer = x] \in PdpType
  /\ r.nexp \in 0..T339X_MAX_RETRANS /\ \A x \in 0..T339X_MAX_RETRANS : [r EXCEPT !.nexp = x] \in PdpType
  /\ r.cdr \in BOOLEAN /\ \A x \in BOOLEAN : [r EXCEPT !.cdr = x] \in PdpType
  /\ r.v0 \in BOOLEAN /\ \A x \in BOOLEAN : [r EXCEPT !.v0 = x] \in PdpType
  /\ r.rnc \in BOOLEAN /\ \A x \in BOOLEAN : [r EXCEPT !.rnc = x] \in PdpType
  /\ r.create \in BOOLEAN /\ \A x \in BOOLEAN : [r EXCEPT !.create = x] \in PdpType
  /\ r.update \in BOOLEAN /\ \A x \in BOOLEAN : [r EXCEPT !.update = x] \in PdpType
  /\ r.delete \in BOOLEAN /\ \A x \in BOOLEAN : [r EXCEPT !.delete = x] \in PdpType
  /\ r.conf \in BOOLEAN /\ \A x \in BOOLEAN : [r EXCEPT !.conf = x] \in PdpType
  /\ r.segv \in BOOLEAN /\ \A x \in BOOLEAN : [r EXCEPT !.segv = x] \in PdpType
<1>1. \A r \in PdpType :
    /\ r.alloc \in BOOLEAN /\ \A x \in BOOLEAN : [r EXCEPT !.alloc = x] \in PdpType
    /\ r.mm \in BOOLEAN /\ \A x \in BOOLEAN : [r EXCEPT !.mm = x] \in PdpType
    /\ r.nsapi \in Nsapis \cup {NoId} /\ \A x \in Nsapis \cup {NoId} : [r EXCEPT !.nsapi = x] \in PdpType
    /\ r.ti \in Tis \cup {NoId} /\ \A x \in Tis \cup {NoId} : [r EXCEPT !.ti = x] \in PdpType
    /\ r.ggsn \in {"none", "static", "dynamic"} /\ \A x \in {"none", "static", "dynamic"} : [r EXCEPT !.ggsn = x] \in PdpType
    /\ r.lib \in BOOLEAN /\ \A x \in BOOLEAN : [r EXCEPT !.lib = x] \in PdpType
  BY SMT DEF PdpType
<1>2. \A r \in PdpType :
    /\ r.state \in {"none", "cr_req", "cr_conf"} /\ \A x \in {"none", "cr_req", "cr_conf"} : [r EXCEPT !.state = x] \in PdpType
    /\ r.timer \in BOOLEAN /\ \A x \in BOOLEAN : [r EXCEPT !.timer = x] \in PdpType
    /\ r.nexp \in 0..T339X_MAX_RETRANS /\ \A x \in 0..T339X_MAX_RETRANS : [r EXCEPT !.nexp = x] \in PdpType
    /\ r.cdr \in BOOLEAN /\ \A x \in BOOLEAN : [r EXCEPT !.cdr = x] \in PdpType
    /\ r.v0 \in BOOLEAN /\ \A x \in BOOLEAN : [r EXCEPT !.v0 = x] \in PdpType
    /\ r.rnc \in BOOLEAN /\ \A x \in BOOLEAN : [r EXCEPT !.rnc = x] \in PdpType
  BY SMT DEF PdpType
<1>3. \A r \in PdpType :
    /\ r.create \in BOOLEAN /\ \A x \in BOOLEAN : [r EXCEPT !.create = x] \in PdpType
    /\ r.update \in BOOLEAN /\ \A x \in BOOLEAN : [r EXCEPT !.update = x] \in PdpType
    /\ r.delete \in BOOLEAN /\ \A x \in BOOLEAN : [r EXCEPT !.delete = x] \in PdpType
    /\ r.conf \in BOOLEAN /\ \A x \in BOOLEAN : [r EXCEPT !.conf = x] \in PdpType
    /\ r.segv \in BOOLEAN /\ \A x \in BOOLEAN : [r EXCEPT !.segv = x] \in PdpType
  BY SMT DEF PdpType
<1> QED
  BY <1>1, <1>2, <1>3

\* Free memory is a context record.
LEMMA NoPdpType == NoPdp \in PdpType
  BY PdpAssumption DEF NoPdp, PdpType

\* Free memory is consistent.
LEMMA NoPdpConsistent == Consistent(NoPdp)
  BY NoPdpType DEF Consistent, NoPdp

\* A context whose handle is gone leaves nothing behind when it is freed.
LEMMA HandlelessFree ==
  ASSUME NEW c \in PdpType,
         c.ggsn = "none" => ~c.lib /\ ~c.create /\ ~c.update /\ ~c.delete
  PROVE  sgsn_pdp_ctx_free(c) = NoPdp
<1> DEFINE d == IF c.ggsn # "none" THEN sgsn_ggsn_ctx_remove_pdp(c) ELSE c
<1>1. d.lib = FALSE /\ d.create = FALSE /\ d.update = FALSE /\ d.delete = FALSE
  <2>1. CASE c.ggsn # "none"
    BY <2>1 DEF sgsn_ggsn_ctx_remove_pdp, pdp_freepdp, PdpType
  <2>2. CASE c.ggsn = "none"
    BY <2>2, PdpSet
  <2> QED
    BY <2>1, <2>2
<1>2. sgsn_pdp_ctx_free(c) = [NoPdp EXCEPT !.lib = d.lib, !.create = d.create, !.update = d.update, !.delete = d.delete]
  BY DEF sgsn_pdp_ctx_free
<1> HIDE DEF d
<1>3. sgsn_pdp_ctx_free(c) = [NoPdp EXCEPT !.lib = FALSE, !.create = FALSE, !.update = FALSE, !.delete = FALSE]
  BY <1>1, <1>2
<1> QED
  BY <1>3 DEF NoPdp

\* sgsn_pdp_ctx_free leaves nothing of a consistent context: no handle outlives it.
LEMMA FreeNoPdp ==
  ASSUME NEW c, Consistent(c)
  PROVE  sgsn_pdp_ctx_free(c) = NoPdp
<1>1. c \in PdpType
  BY DEF Consistent
<1>2. c.ggsn = "none" => ~c.lib /\ ~c.create /\ ~c.update /\ ~c.delete
  BY DEF Consistent, NoPdp
<1> QED
  BY <1>1, <1>2, HandlelessFree

\* sgsn_delete_pdp_ctx: a Delete Request, or nothing.
LEMMA DeleteEvolves ==
  ASSUME NEW c, Consistent(c)
  PROVE  Evolves(c, sgsn_delete_pdp_ctx(c))
<1> DEFINE d == sgsn_delete_pdp_ctx(c)
<1>1. d \in PdpType
  BY PdpSet DEF Consistent, sgsn_delete_pdp_ctx, gtp_delete_context_req2
<1>2. Consistent(d)
  <2>1. CASE d = c
    BY <2>1
  <2>2. CASE d = [c EXCEPT !.delete = TRUE] /\ c.lib
    BY <1>1, <2>2 DEF Consistent, NoPdp, PdpType
  <2>3. CASE d = [c EXCEPT !.segv = TRUE] /\ c.lib
    BY <1>1, <2>3 DEF Consistent, NoPdp, PdpType
  <2> QED
    BY <2>1, <2>2, <2>3 DEF sgsn_delete_pdp_ctx, gtp_delete_context_req2
<1>3. d.mm => c.mm /\ d.nsapi = c.nsapi
  BY PdpSet DEF Consistent, sgsn_delete_pdp_ctx, gtp_delete_context_req2, PdpType
<1>4. TunnelOf(d) # TunnelOf(c) => d.segv \/ TunnelOf(d) \in Tunnel!Successors[TunnelOf(c)]
  BY PdpSet DEF Consistent, sgsn_delete_pdp_ctx, gtp_delete_context_req2, PdpType, TunnelOf, Tunnel!Successors
<1> QED
  BY <1>2, <1>3, <1>4 DEF Evolves

\* A step within an input after which the tunnel of the context is what it was.
Keeps(c, d) ==
  /\ Consistent(d)
  /\ d.alloc = c.alloc /\ d.lib = c.lib /\ d.ggsn = c.ggsn /\ d.segv = c.segv
  /\ d.mm => c.mm
  /\ d.nsapi = c.nsapi
  /\ TunnelOf(d) = TunnelOf(c)

\* Within one input, a step that keeps the tunnel may come before one that moves it ...
LEMMA KeepsEvolves ==
  ASSUME NEW c, NEW d, NEW e, Keeps(c, d), Evolves(d, e)
  PROVE  Evolves(c, e)
  BY DEF Keeps, Evolves

\* ... or be the only one.
LEMMA KeepsOnly ==
  ASSUME NEW c, NEW d, Keeps(c, d)
  PROVE  Evolves(c, d)
  BY DEF Keeps, Evolves

\* Two steps that keep the tunnel.
LEMMA KeepsKeeps ==
  ASSUME NEW c, NEW d, NEW e, Keeps(c, d), Keeps(d, e)
  PROVE  Keeps(c, e)
  BY DEF Keeps

\* A context that is left alone.
LEMMA SameEvolves ==
  ASSUME NEW c, Consistent(c)
  PROVE  Evolves(c, c)
  BY DEF Evolves

\* T3395 may be stopped while there is a handle.
LEMMA StopKeeps ==
  ASSUME NEW c, Consistent(c), c.lib
  PROVE  Keeps(c, [c EXCEPT !.timer = FALSE])
<1> DEFINE d == [c EXCEPT !.timer = FALSE]
<1>1. d \in PdpType
  BY PdpSet DEF Consistent
<1>2. Consistent(d)
  BY <1>1 DEF Consistent, NoPdp, PdpType
<1> QED
  BY <1>1, <1>2 DEF Keeps, Consistent, NoPdp, PdpType, TunnelOf

\* T3395 may be started while there is an MM context.
LEMMA StartKeeps ==
  ASSUME NEW c, Consistent(c), c.mm
  PROVE  Keeps(c, [c EXCEPT !.timer = TRUE, !.nexp = 0])
<1> DEFINE d == [c EXCEPT !.timer = TRUE, !.nexp = 0]
<1>0. 0 \in 0..T339X_MAX_RETRANS
  BY PdpAssumption
<1>1. d \in PdpType
  BY <1>0, PdpSet DEF Consistent
<1>2. Consistent(d)
  BY <1>1 DEF Consistent, NoPdp, PdpType
<1> QED
  BY <1>1, <1>2 DEF Keeps, Consistent, NoPdp, PdpType, TunnelOf

\* The last expiration of T3395.
LEMMA ExpiryKeeps ==
  ASSUME NEW c, Consistent(c), c.lib
  PROVE  Keeps(c, [c EXCEPT !.timer = FALSE, !.nexp = 0, !.state = "none"])
<1> DEFINE d == [c EXCEPT !.timer = FALSE, !.nexp = 0, !.state = "none"]
<1>0. 0 \in 0..T339X_MAX_RETRANS
  BY PdpAssumption
<1>1. d \in PdpType
  BY <1>0, PdpSet DEF Consistent
<1>2. Consistent(d)
  BY <1>1 DEF Consistent, NoPdp, PdpType
<1> QED
  BY <1>1, <1>2 DEF Keeps, Consistent, NoPdp, PdpType, TunnelOf

\* A context with a handle may lose its MM context.
LEMMA LeaveKeeps ==
  ASSUME NEW c, Consistent(c), c.lib
  PROVE  Keeps(c, [c EXCEPT !.cdr = FALSE, !.mm = FALSE, !.timer = FALSE])
<1> DEFINE d == [c EXCEPT !.cdr = FALSE, !.mm = FALSE, !.timer = FALSE]
<1>1. d \in PdpType
  BY PdpSet DEF Consistent
<1>2. Consistent(d)
  BY <1>1 DEF Consistent, NoPdp, PdpType
<1> QED
  BY <1>1, <1>2 DEF Keeps, Consistent, NoPdp, PdpType, TunnelOf

\* The accept that starts the CDR timer.
LEMMA CdrKeeps ==
  ASSUME NEW c, Consistent(c), c.mm
  PROVE  Keeps(c, [c EXCEPT !.cdr = TRUE])
<1> DEFINE d == [c EXCEPT !.cdr = TRUE]
<1>1. d \in PdpType
  BY PdpSet DEF Consistent
<1>2. Consistent(d)
  BY <1>1 DEF Consistent, NoPdp, PdpType
<1> QED
  BY <1>1, <1>2 DEF Keeps, Consistent, NoPdp, PdpType, TunnelOf

\* The accept when the RAB is set up.
LEMMA CdrConfKeeps ==
  ASSUME NEW c, Consistent(c), c.mm
  PROVE  Keeps(c, [c EXCEPT !.cdr = TRUE, !.state = "cr_conf"])
<1> DEFINE d == [c EXCEPT !.cdr = TRUE, !.state = "cr_conf"]
<1>1. d \in PdpType
  BY PdpSet DEF Consistent
<1>2. Consistent(d)
  BY <1>1 DEF Consistent, NoPdp, PdpType
<1> QED
  BY <1>1, <1>2 DEF Keeps, Consistent, NoPdp, PdpType, TunnelOf

\* An Update Request, or its answer.
LEMMA RncKeeps ==
  ASSUME NEW c, Consistent(c), c.lib, NEW r \in BOOLEAN, NEW u \in BOOLEAN
  PROVE  Keeps(c, [c EXCEPT !.rnc = r, !.update = u])
<1> DEFINE d == [c EXCEPT !.rnc = r, !.update = u]
<1>1. d \in PdpType
  BY PdpSet DEF Consistent
<1>2. Consistent(d)
  BY <1>1 DEF Consistent, NoPdp, PdpType
<1> QED
  BY <1>1, <1>2 DEF Keeps, Consistent, NoPdp, PdpType, TunnelOf

\* The answer to an Update Request.
LEMMA UpdatedKeeps ==
  ASSUME NEW c, Consistent(c), c.lib
  PROVE  Keeps(c, [c EXCEPT !.update = FALSE])
<1> DEFINE d == [c EXCEPT !.update = FALSE]
<1>1. d \in PdpType
  BY PdpSet DEF Consistent
<1>2. Consistent(d)
  BY <1>1 DEF Consistent, NoPdp, PdpType
<1> QED
  BY <1>1, <1>2 DEF Keeps, Consistent, NoPdp, PdpType, TunnelOf

\* The fall-back to GTPv0.
LEMMA FallbackKeeps ==
  ASSUME NEW c, Consistent(c), c.alloc
  PROVE  Keeps(c, [c EXCEPT !.v0 = TRUE])
<1> DEFINE d == [c EXCEPT !.v0 = TRUE]
<1>1. d \in PdpType
  BY PdpSet DEF Consistent
<1>2. Consistent(d)
  BY <1>1 DEF Consistent, NoPdp, PdpType
<1> QED
  BY <1>1, <1>2 DEF Keeps, Consistent, NoPdp, PdpType, TunnelOf

\* An expiration of T3395 before the last.
LEMMA RetransmitKeeps ==
  ASSUME NEW c, Consistent(c), c.mm, c.nexp # T339X_MAX_RETRANS
  PROVE  Keeps(c, [c EXCEPT !.nexp = @ + 1])
<1> DEFINE d == [c EXCEPT !.nexp = @ + 1]
<1>0. c.nexp + 1 \in 0..T339X_MAX_RETRANS
  <2>1. c.nexp \in 0..T339X_MAX_RETRANS
    BY PdpSet DEF Consistent
  <2> QED
    BY <2>1, PdpAssumption
<1>1. d \in PdpType
  BY <1>0, PdpSet DEF Consistent
<1>2. Consistent(d)
  BY <1>1 DEF Consistent, NoPdp, PdpType
<1> QED
  BY <1>1, <1>2 DEF Keeps, Consistent, NoPdp, PdpType, TunnelOf
\* A step that keeps the tunnel may come after one that moves it.
LEMMA EvolvesKeeps ==
  ASSUME NEW c, NEW d, NEW e, Evolves(c, d), Keeps(d, e)
  PROVE  Evolves(c, e)
  BY DEF Keeps, Evolves

\* A context is freed that has a handle or an MM context.
LEMMA FreeEvolves ==
  ASSUME NEW c, Consistent(c), c.mm \/ c.lib \/ ~c.alloc
  PROVE  Evolves(c, NoPdp)
<1>1. ~NoPdp.mm /\ ~NoPdp.alloc
  BY DEF NoPdp
<1>2. TunnelOf(NoPdp) = "none"
  BY <1>1 DEF TunnelOf
<1>3. "none" # TunnelOf(c) => "none" \in Tunnel!Successors[TunnelOf(c)]
  BY PdpSet DEF Consistent, TunnelOf, Tunnel!Successors
<1> QED
  BY <1>1, <1>2, <1>3, NoPdpConsistent DEF Evolves

\* The GGSN accepts a context.
LEMMA AnswerEvolves ==
  ASSUME NEW c, Consistent(c), c.create
  PROVE  Evolves(c, [c EXCEPT !.create = FALSE, !.conf = TRUE, !.v0 = FALSE])
<1> DEFINE d == [c EXCEPT !.create = FALSE, !.conf = TRUE, !.v0 = FALSE]
<1>1. d \in PdpType
  BY PdpSet DEF Consistent
<1>2. Consistent(d)
  BY <1>1 DEF Consistent, NoPdp, PdpType
<1>3. TunnelOf(d) # TunnelOf(c) => d.segv \/ TunnelOf(d) \in Tunnel!Successors[TunnelOf(c)]
  BY <1>1, <1>2 DEF Consistent, NoPdp, PdpType, TunnelOf, Tunnel!Successors
<1> QED
  BY <1>1, <1>2, <1>3 DEF Evolves, Consistent, PdpType

\* The GGSN side goes, and the MS is told.
Released(c) ==
  [c EXCEPT !.timer = TRUE, !.nexp = 0, !.lib = FALSE, !.create = FALSE, !.update = FALSE,
            !.delete = FALSE, !.v0 = FALSE, !.rnc = FALSE, !.conf = FALSE, !.ggsn = "none"]
\* A context with a handle may be released while it has an MM context.
LEMMA ReleasedEvolves ==
  ASSUME NEW c, Consistent(c), c.mm, c.lib
  PROVE  Evolves(c, Released(c))
<1> DEFINE d == Released(c)
<1>0. 0 \in 0..T339X_MAX_RETRANS
  BY PdpAssumption
<1>1. d \in PdpType
  <2> DEFINE e == [c EXCEPT !.timer = TRUE, !.nexp = 0, !.lib = FALSE, !.create = FALSE, !.update = FALSE]
  <2>1. e \in PdpType
    BY <1>0, PdpSet DEF Consistent
  <2>2. d = [e EXCEPT !.delete = FALSE, !.v0 = FALSE, !.rnc = FALSE, !.conf = FALSE, !.ggsn = "none"]
    BY DEF Released
  <2> HIDE DEF d, e
  <2> QED
    BY <2>1, <2>2, PdpSet
<1>2. /\ d.alloc = c.alloc /\ d.mm = c.mm /\ d.nsapi = c.nsapi /\ d.ti = c.ti
      /\ d.ggsn = "none" /\ d.lib = FALSE /\ d.timer = TRUE
      /\ d.create = FALSE /\ d.update = FALSE /\ d.delete = FALSE
  BY DEF Consistent, PdpType, Released
<1>3. c.alloc
  BY DEF Consistent, NoPdp
<1> HIDE DEF d
<1>4. Consistent(d)
  BY <1>1, <1>2, <1>3 DEF Consistent
<1>5. TunnelOf(d) = "released"
  BY <1>2, <1>3 DEF TunnelOf
<1>6. "released" \in Tunnel!Successors[TunnelOf(c)]
  BY <1>3, PdpSet DEF Consistent, TunnelOf, Tunnel!Successors
<1> QED
  BY <1>2, <1>4, <1>5, <1>6 DEF Evolves, d

\* A released context loses its MM context.
LEMMA AbandonedEvolves ==
  ASSUME NEW c, Consistent(c), c.mm, ~c.lib
  PROVE  Evolves(c, [c EXCEPT !.cdr = FALSE, !.mm = FALSE, !.timer = FALSE])
<1> DEFINE d == [c EXCEPT !.cdr = FALSE, !.mm = FALSE, !.timer = FALSE]
<1>1. d \in PdpType
  BY PdpSet DEF Consistent
<1>2. Consistent(d)
  BY <1>1 DEF Consistent, NoPdp, PdpType
<1>3. TunnelOf(d) # TunnelOf(c) => d.segv \/ TunnelOf(d) \in Tunnel!Successors[TunnelOf(c)]
  BY <1>1, <1>2 DEF Consistent, NoPdp, PdpType, TunnelOf, Tunnel!Successors
<1> QED
  BY <1>1, <1>2, <1>3 DEF Evolves, Consistent, PdpType
-----------------------------------------------------------------------------
(* The operations on one context.                                          *)

\* A consistent context has a GGSN exactly when it has a handle.
LEMMA HandleFacts ==
  ASSUME NEW c, Consistent(c)
  PROVE  /\ c.ggsn # "none" <=> c.lib
         /\ c.mm => c.alloc
         /\ c.lib => c.alloc
  BY DEF Consistent, NoPdp

\* What the MS handlers do with a context.
LEMMA DeleteOrFreeEvolves ==
  ASSUME NEW c, Consistent(c), c.mm \/ c.lib \/ ~c.alloc
  PROVE  Evolves(c, DeleteOrFree(c))
  BY DeleteEvolves, FreeNoPdp, FreeEvolves DEF DeleteOrFree

\* The Deactivate Accept: T3395 stops.
LEMMA AckEvolves ==
  ASSUME NEW c, Consistent(c), c.mm
  PROVE  Evolves(c, DeleteOrFree(pdpctx_timer_stop(c)))
<1> DEFINE d == pdpctx_timer_stop(c)
<1>1. d.ggsn = c.ggsn
  BY DEF Consistent, PdpType, pdpctx_timer_stop
<1>2. CASE c.lib
  <2>1. Keeps(c, d)
    BY <1>2, StopKeeps DEF pdpctx_timer_stop
  <2>2. Consistent(d) /\ d.lib
    BY <1>2, <2>1 DEF Keeps
  <2>3. Evolves(d, DeleteOrFree(d))
    BY <2>2, DeleteOrFreeEvolves
  <2> QED
    BY <2>1, <2>3, KeepsEvolves
<1>3. CASE ~c.lib
  <2>1. c.ggsn = "none" /\ ~c.create /\ ~c.update /\ ~c.delete
    BY <1>3, HandleFacts DEF Consistent
  <2>2. d \in PdpType
    BY PdpSet DEF Consistent, pdpctx_timer_stop
  <2>3. ~d.lib /\ ~d.create /\ ~d.update /\ ~d.delete
    BY <1>3, <2>1, PdpSet DEF Consistent, PdpType, pdpctx_timer_stop
  <2>4. sgsn_pdp_ctx_free(d) = NoPdp
    BY <2>2, <2>3, HandlelessFree
  <2>5. DeleteOrFree(d) = NoPdp
    BY <2>4, <1>1, <2>1 DEF DeleteOrFree
  <2> QED
    BY <2>5, FreeEvolves
<1> QED
  BY <1>2, <1>3
\* T3395 expired for the last time: deact is forced.
LEMMA LastExpiryEvolves ==
  ASSUME NEW c, Consistent(c), c.mm
  PROVE  Evolves(c, DeleteOrFree([c EXCEPT !.timer = FALSE, !.nexp = 0, !.state = "none"]))
<1> DEFINE d == [c EXCEPT !.timer = FALSE, !.nexp = 0, !.state = "none"]
<1>1. d.ggsn = c.ggsn
  BY DEF Consistent, PdpType
<1>2. CASE c.lib
  <2>1. Keeps(c, d)
    BY <1>2, ExpiryKeeps
  <2>2. Consistent(d) /\ d.lib
    BY <1>2, <2>1 DEF Keeps
  <2>3. Evolves(d, DeleteOrFree(d))
    BY <2>2, DeleteOrFreeEvolves
  <2> QED
    BY <2>1, <2>3, KeepsEvolves
<1>3. CASE ~c.lib
  <2>0. 0 \in 0..T339X_MAX_RETRANS
    BY PdpAssumption
  <2>1. c.ggsn = "none" /\ ~c.create /\ ~c.update /\ ~c.delete
    BY <1>3, HandleFacts DEF Consistent
  <2>2. d \in PdpType
    BY <2>0, PdpSet DEF Consistent
  <2>3. ~d.lib /\ ~d.create /\ ~d.update /\ ~d.delete
    BY <1>3, <2>1, PdpSet DEF Consistent, PdpType
  <2>4. sgsn_pdp_ctx_free(d) = NoPdp
    BY <2>2, <2>3, HandlelessFree
  <2>5. DeleteOrFree(d) = NoPdp
    BY <2>4, <1>1, <2>1 DEF DeleteOrFree
  <2> QED
    BY <2>5, FreeEvolves
<1> QED
  BY <1>2, <1>3

\* The MM context goes.
LEMMA TerminateEvolves ==
  ASSUME NEW c, Consistent(c), c.mm
  PROVE  Evolves(c, sgsn_pdp_ctx_terminate(c)) /\ ~sgsn_pdp_ctx_terminate(c).mm
<1> DEFINE d == [c EXCEPT !.cdr = FALSE, !.mm = FALSE, !.timer = FALSE]
<1>1. d.ggsn = c.ggsn /\ d.mm = FALSE
  BY DEF Consistent, PdpType
<1>2. sgsn_pdp_ctx_terminate(c) = IF d.ggsn # "none" THEN sgsn_delete_pdp_ctx(d) ELSE d
  BY DEF sgsn_pdp_ctx_terminate, pdp_ctx_detach_mm_ctx, pdpctx_timer_stop
<1>3. CASE c.lib
  <2>1. Keeps(c, d)
    BY <1>3, LeaveKeeps
  <2>2. Consistent(d)
    BY <2>1 DEF Keeps
  <2>3. Evolves(d, sgsn_delete_pdp_ctx(d))
    BY <2>2, DeleteEvolves
  <2>4. Evolves(c, sgsn_delete_pdp_ctx(d))
    BY <2>1, <2>3, KeepsEvolves
  <2>5. ~sgsn_delete_pdp_ctx(d).mm
    BY <2>3, <1>1 DEF Evolves
  <2> QED
    BY <1>1, <1>2, <1>3, <2>4, <2>5, HandleFacts
<1>4. CASE ~c.lib
  BY <1>1, <1>2, <1>4, HandleFacts, AbandonedEvolves
<1> QED
  BY <1>3, <1>4

\* The GGSN was lost, or has restarted.
LEMMA DropEvolves ==
  ASSUME NEW c, Consistent(c), c.lib
  PROVE  Evolves(c, sgsn_ggsn_ctx_drop_pdp(c))
<1> DEFINE d == IF c.mm /\ mm.reg = "normal" THEN pdpctx_timer_start(c) ELSE c
<1>1. sgsn_ggsn_ctx_drop_pdp(c) = sgsn_delete_pdp_ctx(d)
  BY HandleFacts DEF sgsn_ggsn_ctx_drop_pdp
<1>2. Keeps(c, c)
  BY DEF Keeps
<1>3. c.mm => Keeps(c, pdpctx_timer_start(c))
  BY StartKeeps DEF pdpctx_timer_start
<1>4. Keeps(c, d)
  BY <1>2, <1>3
<1> HIDE DEF d
<1>5. Evolves(d, sgsn_delete_pdp_ctx(d))
  BY <1>4, DeleteEvolves DEF Keeps
<1> QED
  BY <1>1, <1>4, <1>5, KeepsEvolves
\* libgtp has freed the handle: what is left of the record.
LEMMA FreepdpType ==
  ASSUME NEW c \in PdpType
  PROVE  /\ pdp_freepdp(c) \in PdpType
         /\ pdp_freepdp(c).ggsn = c.ggsn /\ pdp_freepdp(c).mm = c.mm
         /\ pdp_freepdp(c).lib = FALSE
         /\ pdp_freepdp(c).create = FALSE /\ pdp_freepdp(c).update = FALSE /\ pdp_freepdp(c).delete = FALSE
<1> DEFINE e == [c EXCEPT !.lib = FALSE, !.create = FALSE, !.update = FALSE, !.delete = FALSE]
           d == pdp_freepdp(c)
<1>1. e \in PdpType
  BY PdpSet
<1>2. d = [e EXCEPT !.v0 = FALSE, !.rnc = FALSE, !.conf = FALSE]
  BY DEF pdp_freepdp
<1>3. d \in PdpType
  <2> HIDE DEF d, e
  <2> QED
    BY <1>1, <1>2, PdpSet
<1>4. /\ d.ggsn = c.ggsn /\ d.mm = c.mm /\ d.lib = FALSE
      /\ d.create = FALSE /\ d.update = FALSE /\ d.delete = FALSE
  BY DEF PdpType, pdp_freepdp
<1> QED
  BY <1>3, <1>4

\* The GGSN side of a context goes.
LEMMA DeletedEvolves ==
  ASSUME NEW c, Consistent(c), c.lib
  PROVE  Evolves(c, cb_delete_context(c))
<1> DEFINE d == pdp_freepdp(c)
           told == c.mm /\ mm.reg = "normal"
<1>1. /\ d \in PdpType /\ d.ggsn = c.ggsn /\ d.mm = c.mm /\ d.lib = FALSE
      /\ d.create = FALSE /\ d.update = FALSE /\ d.delete = FALSE
  BY FreepdpType DEF Consistent
<1>2. d.ggsn # "none"
  BY <1>1, HandleFacts
<1>3. CASE told
  <2>1. cb_delete_context(c) = sgsn_ggsn_ctx_remove_pdp(pdpctx_timer_start(d))
    BY <1>1, <1>2, <1>3 DEF cb_delete_context, sgsn_ggsn_ctx_drop_pdp
  <2>2. cb_delete_context(c) = Released(c)
    BY <2>1 DEF Released, sgsn_ggsn_ctx_remove_pdp, pdpctx_timer_start, pdp_freepdp, Consistent, PdpType
  <2> QED
    BY <2>2, <1>3, ReleasedEvolves
<1>4. CASE ~told
  <2>1. cb_delete_context(c) = sgsn_pdp_ctx_free(d)
    BY <1>1, <1>2, <1>4 DEF cb_delete_context, sgsn_ggsn_ctx_drop_pdp
  <2>2. cb_delete_context(c) = NoPdp
    BY <1>1, <1>2, <2>1, HandlelessFree
  <2> QED
    BY <2>2, FreeEvolves
<1> QED
  BY <1>3, <1>4

\* The GGSN's answer to the Create Request, or none.
LEMMA RejectedEvolves ==
  ASSUME NEW c, Consistent(c), c.lib
  PROVE  Evolves(c, Rejected(c))
<1> DEFINE d == [c EXCEPT !.state = "none"]
<1>1. d \in PdpType
  BY PdpSet DEF Consistent
<1>2. Rejected(c) = NoPdp
  BY <1>1, FreepdpType, HandlelessFree DEF Rejected
<1> QED
  BY <1>2, FreeEvolves

\* create_pdp_conf, for every answer.
LEMMA CreateEvolves ==
  ASSUME NEW c, Consistent(c), c.create, mm.ran_type \in Rans,
         NEW res \in {"accepted", "refused", "malformed", "timeout"}, NEW sent \in BOOLEAN
  PROVE  Evolves(c, create_pdp_conf(c, res, sent))
<1>0. c.lib /\ c.alloc
  BY HandleFacts DEF Consistent
<1> DEFINE d == [c EXCEPT !.create = FALSE, !.conf = TRUE, !.v0 = FALSE]
<1>1. Evolves(c, Rejected(c))
  BY <1>0, RejectedEvolves
<1>2. Evolves(c, d)
  BY AnswerEvolves
<1>3. Evolves(c, [c EXCEPT !.v0 = TRUE])
  BY <1>0, FallbackKeeps, KeepsOnly
<1>4. c.mm => Evolves(c, send_act_pdp_cont_acc(d))
  <2>1. Consistent(d) /\ d.mm = c.mm
    BY <1>2 DEF Evolves, Consistent, PdpType
  <2>2. c.mm => Keeps(d, send_act_pdp_cont_acc(d))
    <3> HIDE DEF d
    <3> QED
      BY <2>1, CdrKeeps DEF send_act_pdp_cont_acc
  <2> QED
    BY <1>2, <2>2, EvolvesKeeps
<1> HIDE DEF d
<1> QED
  BY <1>1, <1>2, <1>3, <1>4 DEF create_pdp_conf, d, Rans

\* The RNC's answer.
LEMMA RabEvolves ==
  ASSUME NEW c, Consistent(c), c.mm, c.lib, NEW kind
  PROVE  /\ Evolves(c, RabFailed(c))
         /\ Evolves(c, RabConfirmed(c, kind))
<1>1. Evolves(c, RabFailed(c))
  BY DeleteEvolves, StartKeeps, KeepsOnly DEF RabFailed, pdpctx_timer_start
<1> DEFINE d == IF kind = "moved" THEN [c EXCEPT !.rnc = TRUE, !.update = TRUE] ELSE c
<1>2. Keeps(c, d) /\ d.mm
  <2>1. Keeps(c, [c EXCEPT !.rnc = TRUE, !.update = TRUE])
    BY RncKeeps
  <2>2. Keeps(c, c)
    BY DEF Keeps
  <2>3. d.mm
    BY DEF Consistent, PdpType
  <2> QED
    BY <2>1, <2>2, <2>3
<1>3. RabConfirmed(c, kind) = IF d.state = "cr_conf" THEN d ELSE [send_act_pdp_cont_acc(d) EXCEPT !.state = "cr_conf"]
  BY DEF RabConfirmed
<1> HIDE DEF d
<1>4. Keeps(d, [d EXCEPT !.cdr = TRUE, !.state = "cr_conf"])
  BY <1>2, CdrConfKeeps DEF Keeps
<1>5. Keeps(c, [d EXCEPT !.cdr = TRUE, !.state = "cr_conf"])
  BY <1>2, <1>4, KeepsKeeps
<1> QED
  BY <1>1, <1>2, <1>3, <1>5, KeepsOnly DEF send_act_pdp_cont_acc
-----------------------------------------------------------------------------
(* Deletion twice, in one input: RNC loss after the release of the         *)
(* connection, and a context transfer.                                     *)

\* A Delete Request is under way, or libgtp did not survive sending it.
Closing(c) == c.lib /\ (c.delete \/ c.segv)

\* A tunnel with a handle may start to close in every state.
LEMMA ClosingEvolves ==
  ASSUME NEW c, NEW e, Consistent(c), Consistent(e), c.lib, Closing(e), e.mm => c.mm /\ e.nsapi = c.nsapi
  PROVE  Evolves(c, e)
<1>1. e.alloc /\ c.alloc /\ e.lib /\ c.lib /\ (e.delete \/ e.segv)
  BY HandleFacts DEF Closing
<1>2. e.segv \/ TunnelOf(e) = "closing"
  BY <1>1 DEF TunnelOf
<1>3. "closing" # TunnelOf(c) => "closing" \in Tunnel!Successors[TunnelOf(c)]
  BY <1>1 DEF TunnelOf, Tunnel!Successors
<1> QED
  BY <1>2, <1>3 DEF Evolves

\* sgsn_delete_pdp_ctx does nothing, or the tunnel closes.
LEMMA DeleteCases ==
  ASSUME NEW c, Consistent(c)
  PROVE  sgsn_delete_pdp_ctx(c) = c \/ (c.lib /\ Closing(sgsn_delete_pdp_ctx(c)))
<1>1. CASE c.lib /\ sgsn_delete_pdp_ctx(c) = [c EXCEPT !.delete = TRUE]
  BY <1>1 DEF Closing, Consistent, PdpType
<1>2. CASE c.lib /\ sgsn_delete_pdp_ctx(c) = [c EXCEPT !.segv = TRUE]
  BY <1>2 DEF Closing, Consistent, PdpType
<1> QED
  BY <1>1, <1>2 DEF sgsn_delete_pdp_ctx, gtp_delete_context_req2

\* A second deletion in the same input changes nothing that matters.
LEMMA DeleteAgainEvolves ==
  ASSUME NEW c, Consistent(c)
  PROVE  Evolves(c, sgsn_delete_pdp_ctx(sgsn_delete_pdp_ctx(c)))
<1> DEFINE d == sgsn_delete_pdp_ctx(c)
           e == sgsn_delete_pdp_ctx(d)
<1>1. CASE d = c
  BY <1>1, DeleteEvolves
<1>2. CASE c.lib /\ Closing(d)
  <2>1. Evolves(c, d) /\ Consistent(d)
    BY DeleteEvolves DEF Evolves
  <2> HIDE DEF d
  <2>2. Evolves(d, e) /\ (e = d \/ Closing(e))
    BY <2>1, DeleteEvolves, DeleteCases
  <2>3. Closing(e)
    BY <1>2, <2>2
  <2>4. Consistent(e) /\ (e.mm => c.mm /\ e.nsapi = c.nsapi)
    BY <2>1, <2>2 DEF Evolves
  <2> QED
    BY <1>2, <2>3, <2>4, ClosingEvolves DEF d
<1> QED
  BY <1>1, <1>2, DeleteCases

\* A context transfer: deleted at the GGSN, then terminated.
LEMMA DeleteTerminateEvolves ==
  ASSUME NEW c, Consistent(c), c.mm, sgsn_delete_pdp_ctx(c).mm
  PROVE  /\ Evolves(c, sgsn_pdp_ctx_terminate(sgsn_delete_pdp_ctx(c)))
         /\ ~sgsn_pdp_ctx_terminate(sgsn_delete_pdp_ctx(c)).mm
<1> DEFINE d == sgsn_delete_pdp_ctx(c)
           e == sgsn_pdp_ctx_terminate(d)
<1>1. CASE d = c
  BY <1>1, TerminateEvolves
<1>2. CASE c.lib /\ Closing(d)
  <2>1. Evolves(c, d) /\ Consistent(d) /\ d.mm
    BY DeleteEvolves DEF Evolves
  <2> HIDE DEF d
  <2>2. Evolves(d, e) /\ ~e.mm
    BY <2>1, TerminateEvolves
  <2>3. Closing(e)
    <3> DEFINE l == [d EXCEPT !.cdr = FALSE, !.mm = FALSE, !.timer = FALSE]
    <3>1. d.ggsn # "none" /\ d.lib
      BY <1>2, <2>1, HandleFacts DEF Closing
    <3>2. Keeps(d, l)
      BY <2>1, <3>1, LeaveKeeps
    <3>3. l.delete = d.delete /\ l.segv = d.segv /\ l.lib = d.lib
      BY <2>1 DEF Consistent, PdpType
    <3>4. l.ggsn = d.ggsn
      BY <3>2 DEF Keeps
    <3>5. e = sgsn_delete_pdp_ctx(l)
      BY <3>1, <3>4 DEF sgsn_pdp_ctx_terminate, pdp_ctx_detach_mm_ctx, pdpctx_timer_stop
    <3> HIDE DEF l, e
    <3>6. Closing(l)
      BY <1>2, <3>3 DEF Closing
    <3> QED
      BY <3>2, <3>5, <3>6, DeleteCases DEF Keeps
  <2>4. Consistent(e)
    BY <2>2 DEF Evolves
  <2> QED
    BY <1>2, <2>2, <2>3, <2>4, ClosingEvolves DEF d
<1> QED
  BY <1>1, <1>2, DeleteCases
-----------------------------------------------------------------------------
(* The inductive invariant.                                                *)

\* pdp_list has exactly the contexts that point to the MM context, which exists.
Listed == \A p \in Pctx : pdp[p].mm <=> p \in Range(mm.list)
Owned == \A p \in Pctx : pdp[p].mm => mm.alive

\* A look-up with a pointer to the MM context is for an NSAPI and a TI of the MS.
LookupsOwned ==
  \A l \in LookupIds : lookups[l].mm = "linked"
    => mm.alive /\ lookups[l].nsapi \in Nsapis /\ lookups[l].ti \in Tis

Inv ==
  /\ TypeOK
  /\ \A p \in Pctx : Consistent(pdp[p])
  /\ Listed
  /\ Owned
  /\ NsapiUnique
  /\ LookupsOwned
  /\ LookupPointerLive
  /\ UnreachableIdle
  /\ XferContextAlive

\* What one input may do to the tunnels.
TunnelStep ==
  \A p \in Pctx : TunnelOf(pdp'[p]) # TunnelOf(pdp[p])
    => pdp'[p].segv \/ TunnelOf(pdp'[p]) \in Tunnel!Successors[TunnelOf(pdp[p])]

\* An input makes f of the contexts.
Evolved(f) == f \in [Pctx -> PdpType] /\ \A p \in Pctx : Evolves(pdp[p], f[p])

\* What the invariant says of one context.
LEMMA InvFacts ==
  ASSUME Inv, NEW p \in Pctx
  PROVE  /\ pdp \in [Pctx -> PdpType]
         /\ Consistent(pdp[p]) /\ pdp[p] \in PdpType
         /\ pdp[p].mm => pdp[p].alloc
         /\ pdp[p].lib => pdp[p].alloc
         /\ pdp[p].lib <=> pdp[p].ggsn # "none"
         /\ Attached(pdp[p]) <=> pdp[p].mm
  BY HandleFacts DEF Inv, TypeOK, Attached

\* No context changes.
LEMMA SameEvolved == Inv => Evolved(pdp)
  BY SameEvolves, InvFacts DEF Evolved, Inv, TypeOK

\* One context changes.
LEMMA OneEvolved ==
  ASSUME Inv, NEW p \in Pctx, NEW c, Evolves(pdp[p], c)
  PROVE  Evolved([pdp EXCEPT ![p] = c])
<1>1. c \in PdpType
  BY DEF Evolves, Consistent
<1>2. pdp \in [Pctx -> PdpType]
  BY DEF Inv, TypeOK
<1>3. \A q \in Pctx : Evolves(pdp[q], pdp[q])
  BY InvFacts, SameEvolves
<1> QED
  BY <1>1, <1>2, <1>3 DEF Evolved

\* The list of contexts after the input.
LEMMA BecomePart ==
  ASSUME Inv, NEW f, NEW m \in MmType, Evolved(f), Become(f, m), m.list = mm.list, m.alive = mm.alive
  PROVE  /\ pdp' = f
         /\ mm' \in MmType
         /\ mm'.alive = m.alive /\ mm'.lookup = m.lookup /\ mm'.unreach = m.unreach
         /\ mm'.ran_type = m.ran_type /\ mm'.pmm = m.pmm
         /\ Listed' /\ Owned' /\ NsapiUnique'
         /\ \A p \in Pctx : Consistent(pdp'[p])
         /\ TunnelStep
<1> DEFINE S == {p \in Pctx : Attached(f[p])}
           l == Kept(m.list, S)
<1>1. pdp' = f /\ mm' = [m EXCEPT !.list = l]
  BY DEF Become
<1>2. m.list \in Seq(Pctx)
  BY DEF MmType
<1>3. l \in Seq(Pctx) /\ \A p : p \in Range(l) <=> p \in Range(m.list) /\ p \in S
  <2> HIDE DEF S
  <2> QED
    BY <1>2, KeptProperties
<1> HIDE DEF l
<1>4. /\ mm' \in MmType /\ mm'.alive = m.alive /\ mm'.lookup = m.lookup /\ mm'.unreach = m.unreach
      /\ mm'.ran_type = m.ran_type /\ mm'.pmm = m.pmm
      /\ mm'.list = l
  BY <1>1, <1>3 DEF MmType
<1>5. \A p \in Pctx : Evolves(pdp[p], f[p]) /\ Consistent(f[p])
  BY DEF Evolved, Evolves
<1>6. \A p \in Pctx : Attached(f[p]) <=> f[p].mm
  BY <1>5, HandleFacts DEF Attached
<1>7. \A p \in Pctx : f[p].mm => pdp[p].mm /\ f[p].nsapi = pdp[p].nsapi
  BY <1>5 DEF Evolves
<1>8. Listed'
  <2>1. \A p \in Pctx : f[p].mm <=> p \in Range(l)
    BY <1>3, <1>6, <1>7 DEF Inv, Listed
  <2> QED
    BY <1>1, <1>4, <2>1 DEF Listed
<1>9. Owned'
  BY <1>1, <1>4, <1>7 DEF Inv, Owned
<1>10. NsapiUnique'
  <2>1. SUFFICES ASSUME NEW p \in Pctx, NEW q \in Pctx, p # q, Attached(f[p]), Attached(f[q])
                 PROVE  f[p].nsapi # f[q].nsapi
    BY <1>1 DEF NsapiUnique, Attached
  <2>2. Attached(pdp[p]) /\ Attached(pdp[q]) /\ f[p].nsapi = pdp[p].nsapi /\ f[q].nsapi = pdp[q].nsapi
    BY <2>1, <1>6, <1>7, InvFacts
  <2> QED
    BY <2>1, <2>2 DEF Inv, NsapiUnique
<1>11. TunnelStep
  BY <1>1, <1>5 DEF TunnelStep, Evolves
<1> QED
  BY <1>1, <1>4, <1>5, <1>8, <1>9, <1>10, <1>11
\* The unreachable timer runs in PMM-IDLE on Iu only.
Reachable(m) == m.unreach => m.alive /\ m.ran_type = "Iu" /\ m.pmm = "idle"

\* m is the MM context with its list, its look-up and its life as they were.
MmKeeps(m) ==
  m \in MmType /\ m.list = mm.list /\ m.alive = mm.alive /\ m.lookup = mm.lookup /\ Reachable(m)

\* An input that leaves look-ups and transfers alone.
LEMMA BecomeInv ==
  ASSUME Inv, NEW f, NEW m, Evolved(f), MmKeeps(m), Become(f, m),
         UNCHANGED <<cfg, lookups, xfer>>, noted' \in BOOLEAN
  PROVE  Inv' /\ TunnelStep
<1>0. m \in MmType /\ m.list = mm.list /\ m.alive = mm.alive /\ m.lookup = mm.lookup /\ Reachable(m)
  BY DEF MmKeeps
<1>1. /\ pdp' = f
      /\ mm' \in MmType
      /\ mm'.alive = m.alive /\ mm'.lookup = m.lookup /\ mm'.unreach = m.unreach
      /\ mm'.ran_type = m.ran_type /\ mm'.pmm = m.pmm
      /\ Listed' /\ Owned' /\ NsapiUnique'
      /\ \A p \in Pctx : Consistent(pdp'[p])
      /\ TunnelStep
  BY <1>0, BecomePart
<1>2. TypeOK'
  BY <1>1 DEF Inv, TypeOK, Evolved
<1>3. LookupsOwned' /\ LookupPointerLive'
  BY <1>0, <1>1 DEF Inv, LookupsOwned, LookupPointerLive
<1>4. UnreachableIdle'
  BY <1>0, <1>1 DEF Reachable, UnreachableIdle
<1>5. XferContextAlive'
  BY <1>0, <1>1 DEF Inv, XferContextAlive
<1>6. (\A p \in Pctx : Consistent(pdp[p]))'
  BY <1>1
<1> QED
  BY <1>1, <1>2, <1>3, <1>4, <1>5, <1>6 DEF Inv

\* An input that changes contexts only.
LEMMA PdpStepInv ==
  ASSUME Inv, NEW f, Evolved(f), PdpStep(f)
  PROVE  Inv' /\ TunnelStep
<1>1. MmKeeps(mm)
  BY DEF MmKeeps, Reachable, Inv, UnreachableIdle, TypeOK
<1>2. noted' \in BOOLEAN
  BY DEF PdpStep, Inv, TypeOK
<1> QED
  BY <1>1, <1>2, BecomeInv DEF PdpStep

\* An input that changes the MM context only.
LEMMA MmStepInv ==
  ASSUME Inv, NEW m, MmKeeps(m), MmStep(m)
  PROVE  Inv' /\ TunnelStep
<1>0. m \in MmType /\ m.list = mm.list /\ m.alive = mm.alive /\ m.lookup = mm.lookup /\ Reachable(m)
  BY DEF MmKeeps
<1>1. mm' = m /\ UNCHANGED <<cfg, pdp, lookups, xfer, noted>>
  BY DEF MmStep
<1>2. TypeOK'
  BY <1>0, <1>1 DEF Inv, TypeOK
<1>3. Listed' /\ Owned' /\ NsapiUnique' /\ (\A p \in Pctx : Consistent(pdp[p]))'
  BY <1>0, <1>1 DEF Inv, Listed, Owned, NsapiUnique
<1>4. LookupsOwned' /\ LookupPointerLive' /\ XferContextAlive'
  BY <1>0, <1>1 DEF Inv, LookupsOwned, LookupPointerLive, XferContextAlive
<1>5. UnreachableIdle'
  BY <1>0, <1>1 DEF Reachable, UnreachableIdle
<1>6. TunnelStep
  BY <1>1 DEF TunnelStep
<1> QED
  BY <1>2, <1>3, <1>4, <1>5, <1>6 DEF Inv
-----------------------------------------------------------------------------
(* Operations on all contexts, and on the MM context.                      *)

\* sgsn_mm_ctx_delete_all_pdp_gn moves every tunnel as it may.
LEMMA DeleteAllEvolved == Inv => Evolved(sgsn_mm_ctx_delete_all_pdp_gn(pdp))
<1> SUFFICES ASSUME Inv PROVE Evolved(sgsn_mm_ctx_delete_all_pdp_gn(pdp))
  OBVIOUS
<1> DEFINE f == sgsn_mm_ctx_delete_all_pdp_gn(pdp)
<1>1. \A p \in Pctx : f[p] = sgsn_delete_pdp_ctx(pdp[p]) \/ f[p] = pdp[p]
  BY DEF sgsn_mm_ctx_delete_all_pdp_gn
<1>2. \A p \in Pctx : Evolves(pdp[p], f[p])
  BY <1>1, InvFacts, SameEvolves, DeleteEvolves
<1>3. \A p \in Pctx : f[p] \in PdpType
  BY <1>2 DEF Evolves, Consistent
<1>4. f \in [Pctx -> PdpType]
  BY <1>3 DEF sgsn_mm_ctx_delete_all_pdp_gn
<1> QED
  BY <1>2, <1>4 DEF Evolved

\* The way back to the SGSN: the tunnels stay.
LEMMA EndpointsKeep ==
  ASSUME Inv, NEW skip, NEW p \in Pctx
  PROVE  Keeps(pdp[p], mmctx_change_gtpu_endpoints_to_sgsn(pdp, skip)[p])
<1> DEFINE c == pdp[p]
           u == c.update \/ p # skip
<1>1. Consistent(c) /\ c.update \in BOOLEAN /\ u \in BOOLEAN
  BY InvFacts, PdpSet
<1>2. c.lib => Keeps(c, [c EXCEPT !.rnc = FALSE, !.update = u])
  <2> HIDE DEF c, u
  <2> QED
    BY <1>1, RncKeeps
<1>3. Keeps(c, c)
  BY <1>1 DEF Keeps
<1>4. \/ mmctx_change_gtpu_endpoints_to_sgsn(pdp, skip)[p] = c
      \/ c.lib /\ mmctx_change_gtpu_endpoints_to_sgsn(pdp, skip)[p] = [c EXCEPT !.rnc = FALSE, !.update = u]
  BY DEF mmctx_change_gtpu_endpoints_to_sgsn
<1> QED
  BY <1>2, <1>3, <1>4

\* Leaving PMM-CONNECTED, with either policy.
LEMMA PmmIdleEvolved ==
  ASSUME Inv, NEW skip
  PROVE  Evolved(PmmIdlePdp(skip))
<1> DEFINE f == mmctx_change_gtpu_endpoints_to_sgsn(pdp, skip)
<1>1. \A p \in Pctx : Evolves(pdp[p], f[p])
  BY EndpointsKeep, KeepsOnly
<1>2. \A p \in Pctx : f[p] \in PdpType
  BY <1>1 DEF Evolves, Consistent
<1>3. f \in [Pctx -> PdpType]
  BY <1>2 DEF mmctx_change_gtpu_endpoints_to_sgsn
<1>4. Evolved(f)
  BY <1>1, <1>3 DEF Evolved
<1> QED
  BY <1>4, DeleteAllEvolved DEF PmmIdlePdp

\* The RNC is lost: after the release, everything is deleted at the GGSN.
LEMMA LossEvolved ==
  ASSUME Inv, NEW skip
  PROVE  Evolved(sgsn_mm_ctx_delete_all_pdp_gn(PmmIdlePdp(skip)))
<1> DEFINE g == PmmIdlePdp(skip)
           f == sgsn_mm_ctx_delete_all_pdp_gn(g)
<1>1. \A p \in Pctx : f[p] = sgsn_delete_pdp_ctx(g[p]) \/ f[p] = g[p]
  BY DEF sgsn_mm_ctx_delete_all_pdp_gn
<1>2. \A p \in Pctx : Evolves(pdp[p], g[p])
  BY PmmIdleEvolved DEF Evolved
<1>3. ASSUME NEW p \in Pctx PROVE Evolves(pdp[p], sgsn_delete_pdp_ctx(g[p]))
  <2>1. CASE cfg.iu_release = "delete_gn"
    <3>1. g[p] = sgsn_delete_pdp_ctx(pdp[p]) \/ g[p] = pdp[p]
      BY <2>1 DEF PmmIdlePdp, sgsn_mm_ctx_delete_all_pdp_gn
    <3> QED
      BY <3>1, InvFacts, DeleteEvolves, DeleteAgainEvolves
  <2>2. CASE cfg.iu_release # "delete_gn"
    <3>1. g[p] = mmctx_change_gtpu_endpoints_to_sgsn(pdp, skip)[p]
      BY <2>2 DEF PmmIdlePdp
    <3>2. Keeps(pdp[p], g[p])
      BY <3>1, EndpointsKeep
    <3>3. Evolves(g[p], sgsn_delete_pdp_ctx(g[p]))
      BY <3>2, DeleteEvolves DEF Keeps
    <3> QED
      BY <3>2, <3>3, KeepsEvolves
  <2> QED
    BY <2>1, <2>2
<1>4. \A p \in Pctx : Evolves(pdp[p], f[p])
  BY <1>1, <1>2, <1>3
<1>5. \A p \in Pctx : f[p] \in PdpType
  BY <1>4 DEF Evolves, Consistent
<1>6. f \in [Pctx -> PdpType]
  BY <1>5 DEF sgsn_mm_ctx_delete_all_pdp_gn
<1> QED
  BY <1>4, <1>6 DEF Evolved

\* The Recovery IE, and the loss of the GGSN.
LEMMA RecoveryEvolved ==
  ASSUME Inv, NEW changed, NEW except
  PROVE  Evolved(cb_recovery3(changed, except))
<1> DEFINE f == cb_recovery3(changed, except)
<1>1. \A p \in Pctx : (pdp[p].ggsn = "static" /\ f[p] = sgsn_ggsn_ctx_drop_pdp(pdp[p])) \/ f[p] = pdp[p]
  BY DEF cb_recovery3
<1>2. \A p \in Pctx : pdp[p].ggsn = "static" => pdp[p].lib
  BY InvFacts
<1>3. \A p \in Pctx : Evolves(pdp[p], f[p])
  BY <1>1, <1>2, InvFacts, SameEvolves, DropEvolves
<1>4. \A p \in Pctx : f[p] \in PdpType
  BY <1>3 DEF Evolves, Consistent
<1>5. f \in [Pctx -> PdpType]
  BY <1>4 DEF cb_recovery3
<1> QED
  BY <1>3, <1>5 DEF Evolved
\* The fields of the MM context have their types, and may be set within them.
LEMMA MmSet == \A r \in MmType :
  /\ r.alive \in BOOLEAN /\ \A x \in BOOLEAN : [r EXCEPT !.alive = x] \in MmType
  /\ r.ran_type \in Rans /\ \A x \in Rans : [r EXCEPT !.ran_type = x] \in MmType
  /\ \A x \in {"normal", "suspended", "other"} : [r EXCEPT !.reg = x] \in MmType
  /\ r.pmm \in {"detached", "connected", "idle"}
  /\ \A x \in {"detached", "connected", "idle"} : [r EXCEPT !.pmm = x] \in MmType
  /\ \A x \in BOOLEAN : [r EXCEPT !.ue = x] \in MmType
  /\ r.unreach \in BOOLEAN /\ \A x \in BOOLEAN : [r EXCEPT !.unreach = x] \in MmType
  /\ r.lookup \in LookupIds \cup {NoId} /\ \A x \in LookupIds \cup {NoId} : [r EXCEPT !.lookup = x] \in MmType
  /\ r.list \in Seq(Pctx) /\ \A x \in Seq(Pctx) : [r EXCEPT !.list = x] \in MmType
  /\ r.rabs \in SUBSET Nsapis /\ \A x \in SUBSET Nsapis : [r EXCEPT !.rabs = x] \in MmType
<1>1. \A r \in MmType :
    /\ r.alive \in BOOLEAN /\ \A x \in BOOLEAN : [r EXCEPT !.alive = x] \in MmType
    /\ r.ran_type \in Rans /\ \A x \in Rans : [r EXCEPT !.ran_type = x] \in MmType
    /\ \A x \in {"normal", "suspended", "other"} : [r EXCEPT !.reg = x] \in MmType
    /\ r.pmm \in {"detached", "connected", "idle"}
    /\ \A x \in {"detached", "connected", "idle"} : [r EXCEPT !.pmm = x] \in MmType
    /\ \A x \in BOOLEAN : [r EXCEPT !.ue = x] \in MmType
  BY SMTT(30) DEF MmType
<1>2. \A r \in MmType :
    /\ r.unreach \in BOOLEAN /\ \A x \in BOOLEAN : [r EXCEPT !.unreach = x] \in MmType
    /\ r.lookup \in LookupIds \cup {NoId} /\ \A x \in LookupIds \cup {NoId} : [r EXCEPT !.lookup = x] \in MmType
    /\ r.list \in Seq(Pctx) /\ \A x \in Seq(Pctx) : [r EXCEPT !.list = x] \in MmType
    /\ r.rabs \in SUBSET Nsapis /\ \A x \in SUBSET Nsapis : [r EXCEPT !.rabs = x] \in MmType
  BY SMT DEF MmType
<1> QED
  BY <1>1, <1>2

\* A freed MM context is an MM context record.
LEMMA NoMmType == NoMm \in MmType
<1>1. <<>> \in Seq(Pctx) /\ {} \in SUBSET Nsapis /\ "Gb" \in Rans
  BY DEF Rans
<1> QED
  BY <1>1 DEF NoMm, MmType

\* n is m after an operation that leaves the list, the look-up and the life alone.
MmFollows(m, n) ==
  n \in MmType /\ n.list = m.list /\ n.alive = m.alive /\ n.lookup = m.lookup

\* The MM context itself.
LEMMA MmSelf == Inv => MmKeeps(mm) /\ mm \in MmType /\ MmFollows(mm, mm)
  BY DEF MmKeeps, MmFollows, Reachable, Inv, UnreachableIdle, TypeOK

\* Stopping the unreachable timer: it does not run afterwards.
LEMMA UnreachableStop ==
  ASSUME NEW m \in MmType
  PROVE  LET n == sgsn_mm_iu_unreachable_timer_stop(m)
         IN  /\ MmFollows(m, n) /\ n.ran_type = m.ran_type /\ n.pmm = m.pmm /\ n.ue = m.ue
             /\ Reachable(m) => ~n.unreach
<1> DEFINE n == sgsn_mm_iu_unreachable_timer_stop(m)
<1>1. n \in MmType
  BY MmSet DEF sgsn_mm_iu_unreachable_timer_stop
<1> QED
  BY <1>1 DEF sgsn_mm_iu_unreachable_timer_stop, MmType, MmFollows, Reachable

\* Starting the unreachable timer: it runs in PMM-IDLE on Iu only.
LEMMA UnreachableStart ==
  ASSUME NEW m \in MmType, NEW f, m.alive, ~m.unreach
  PROVE  LET n == sgsn_mm_iu_unreachable_timer_start(m, f)
         IN  MmFollows(m, n) /\ Reachable(n)
<1> DEFINE n == sgsn_mm_iu_unreachable_timer_start(m, f)
<1>1. n = m \/ (m.ran_type = "Iu" /\ m.pmm = "idle" /\ n = [m EXCEPT !.unreach = TRUE])
  BY DEF sgsn_mm_iu_unreachable_timer_start
<1>2. n \in MmType
  BY <1>1, MmSet
<1> HIDE DEF n
<1> QED
  BY <1>1, <1>2 DEF MmType, MmFollows, Reachable, n

\* Giving up the Iu connection.
LEMMA RanapFree ==
  ASSUME NEW m \in MmType
  PROVE  LET n == sgsn_mm_ctx_iu_ranap_free(m)
         IN  /\ MmFollows(m, n) /\ n.ran_type = m.ran_type /\ n.pmm = m.pmm /\ n.unreach = m.unreach
<1>1. sgsn_mm_ctx_iu_ranap_free(m) \in MmType
  BY MmSet DEF sgsn_mm_ctx_iu_ranap_free
<1> QED
  BY <1>1 DEF sgsn_mm_ctx_iu_ranap_free, MmType, MmFollows

\* A RAB Assignment Request for NSAPIs of the MS.
LEMMA RabRequest ==
  ASSUME NEW m \in MmType, NEW S \in SUBSET Nsapis
  PROVE  LET n == RabActivate(m, S)
         IN  /\ MmFollows(m, n) /\ n.ran_type = m.ran_type /\ n.pmm = m.pmm /\ n.unreach = m.unreach
<1>1. RabActivate(m, S) \in MmType
  BY MmSet DEF RabActivate
<1> QED
  BY <1>1 DEF RabActivate, MmType, MmFollows

\* RAB Assignment Requests for all contexts with a handle.
LEMMA RabRequests ==
  ASSUME Inv, NEW m \in MmType
  PROVE  LET n == sgsn_mm_ctx_iu_activate_rabs(m)
         IN  /\ MmFollows(m, n) /\ n.ran_type = m.ran_type /\ n.pmm = m.pmm /\ n.unreach = m.unreach
<1> DEFINE S == {pdp[p].nsapi : p \in {q \in Pctx : Attached(pdp[q]) /\ pdp[q].lib}}
<1>1. S \in SUBSET Nsapis
  BY InvFacts DEF Consistent, Attached
<1> HIDE DEF S
<1> QED
  BY <1>1, RabRequest DEF sgsn_mm_ctx_iu_activate_rabs, S

\* Two operations on the MM context.
LEMMA MmFollowsTwice ==
  ASSUME NEW m, NEW n, NEW o, MmFollows(m, n), MmFollows(n, o)
  PROVE  MmFollows(m, o)
  BY DEF MmFollows

\* An operation on the MM context within an input.
LEMMA MmFollowsKeeps ==
  ASSUME NEW m, NEW n, MmKeeps(m), MmFollows(m, n), Reachable(n)
  PROVE  MmKeeps(n)
  BY DEF MmFollows, MmKeeps

\* Into PMM-IDLE.
LEMMA PmmIdleMmFollows ==
  ASSUME NEW m \in MmType, NEW f, m.alive, ~m.unreach
  PROVE  MmFollows(m, PmmIdleMm(m, f)) /\ Reachable(PmmIdleMm(m, f))
<1> DEFINE r == sgsn_mm_ctx_iu_ranap_free(m)
           d == [r EXCEPT !.pmm = "idle"]
           e == IF cfg.iu_release = "delete_gn" THEN sgsn_mm_iu_unreachable_timer_stop(d) ELSE d
<1>1. MmFollows(m, r) /\ r \in MmType /\ ~r.unreach
  BY RanapFree DEF MmFollows
<1> HIDE DEF r
<1>2. MmFollows(r, d) /\ d \in MmType /\ ~d.unreach
  <2>1. d \in MmType
    BY <1>1, MmSet
  <2>2. d.list = r.list /\ d.alive = r.alive /\ d.lookup = r.lookup /\ d.unreach = r.unreach
    BY <1>1 DEF MmType
  <2> QED
    BY <1>1, <2>1, <2>2 DEF MmFollows
<1> HIDE DEF d
<1>3. MmFollows(d, e) /\ e \in MmType /\ ~e.unreach
  <2>1. Reachable(d) /\ MmFollows(d, d)
    BY <1>2 DEF Reachable, MmFollows
  <2>2. LET n == sgsn_mm_iu_unreachable_timer_stop(d) IN MmFollows(d, n) /\ ~n.unreach
    BY <1>2, <2>1, UnreachableStop
  <2> QED
    BY <1>2, <2>1, <2>2 DEF MmFollows
<1> HIDE DEF e
<1>4. MmFollows(m, e) /\ e.alive
  BY <1>1, <1>2, <1>3 DEF MmFollows
<1>5. PmmIdleMm(m, f) = sgsn_mm_iu_unreachable_timer_start(e, f)
  BY DEF PmmIdleMm, e, d, r
<1>6. MmFollows(e, PmmIdleMm(m, f)) /\ Reachable(PmmIdleMm(m, f))
  BY <1>3, <1>4, <1>5, UnreachableStart
<1> QED
  BY <1>4, <1>6, MmFollowsTwice
-----------------------------------------------------------------------------
(* One lemma per input.                                                    *)

\* T3395.
LEMMA TimerStep == ASSUME Inv, NEW p \in Pctx, pdpctx_timer_cb(p) PROVE Inv' /\ TunnelStep
<1> DEFINE c == pdp[p]
           d == IF c.nexp = T339X_MAX_RETRANS THEN DeleteOrFree([c EXCEPT !.timer = FALSE, !.nexp = 0, !.state = "none"])
                                              ELSE [c EXCEPT !.nexp = @ + 1]
<1>1. Consistent(c) /\ c.mm
  BY InvFacts DEF pdpctx_timer_cb, Consistent
<1>2. PdpStep([pdp EXCEPT ![p] = d])
  BY DEF pdpctx_timer_cb
<1>3. Evolves(c, d)
  <2> HIDE DEF c
  <2> QED
    BY <1>1, LastExpiryEvolves, RetransmitKeeps, KeepsOnly
<1> HIDE DEF d
<1>4. Evolved([pdp EXCEPT ![p] = d])
  BY <1>3, OneEvolved
<1> QED
  BY <1>2, <1>4, PdpStepInv

\* The first context that a list search finds is attached.
LEMMA FoundAttached ==
  ASSUME Inv, NEW S, Kept(mm.list, S) # <<>>
  PROVE  LET p == Kept(mm.list, S)[1] IN p \in Pctx /\ p \in S /\ pdp[p].mm
<1> DEFINE l == Kept(mm.list, S)
<1>1. mm.list \in Seq(Pctx)
  BY DEF Inv, TypeOK, MmType
<1>2. l \in Seq(Pctx) /\ \A x : x \in Range(l) <=> x \in Range(mm.list) /\ x \in S
  BY <1>1, KeptProperties
<1> HIDE DEF l
<1>3. l[1] \in Range(l) /\ l[1] \in Pctx
  <2>1. 1 \in 1..Len(l)
    BY <1>2 DEF l
  <2> QED
    BY <1>2, <2>1 DEF Range
<1>4. l[1] \in Range(mm.list) /\ l[1] \in S
  BY <1>2, <1>3
<1>5. pdp[l[1]].mm
  BY <1>3, <1>4 DEF Inv, Listed
<1> QED
  BY <1>3, <1>4, <1>5 DEF l

\* Deactivate PDP Context Request of the MS.
LEMMA DeactReqStep == ASSUME Inv, NEW t, gsm48_rx_gsm_deact_pdp_req(t) PROVE Inv' /\ TunnelStep
<1> DEFINE p == ByTid(t)[1]
<1>1. p \in Pctx /\ pdp[p].mm
  BY FoundAttached DEF ByTid, gsm48_rx_gsm_deact_pdp_req
<1>2. PdpStep([pdp EXCEPT ![p] = DeleteOrFree(pdp[p])])
  BY DEF gsm48_rx_gsm_deact_pdp_req
<1> HIDE DEF p
<1>3. Evolved([pdp EXCEPT ![p] = DeleteOrFree(pdp[p])])
  BY <1>1, InvFacts, DeleteOrFreeEvolves, OneEvolved
<1> QED
  BY <1>2, <1>3, PdpStepInv

\* Deactivate PDP Context Accept of the MS.
LEMMA DeactAckStep == ASSUME Inv, NEW t, gsm48_rx_gsm_deact_pdp_ack(t) PROVE Inv' /\ TunnelStep
<1> DEFINE p == ByTid(t)[1]
<1>1. p \in Pctx /\ pdp[p].mm
  BY FoundAttached DEF ByTid, gsm48_rx_gsm_deact_pdp_ack
<1>2. PdpStep([pdp EXCEPT ![p] = DeleteOrFree(pdpctx_timer_stop(pdp[p]))])
  BY DEF gsm48_rx_gsm_deact_pdp_ack
<1> HIDE DEF p
<1>3. Evolved([pdp EXCEPT ![p] = DeleteOrFree(pdpctx_timer_stop(pdp[p]))])
  BY <1>1, InvFacts, AckEvolves, OneEvolved
<1> QED
  BY <1>2, <1>3, PdpStepInv

\* The PDP context status IE of the MS.
LEMMA StatusStep == ASSUME Inv, NEW S, process_ms_ctx_status(S) PROVE Inv' /\ TunnelStep
<1> DEFINE f == [p \in Pctx |-> IF Attached(pdp[p]) /\ pdp[p].nsapi \notin S THEN DeleteOrFree(pdp[p]) ELSE pdp[p]]
<1>1. \A p \in Pctx : (pdp[p].mm /\ f[p] = DeleteOrFree(pdp[p])) \/ f[p] = pdp[p]
  BY DEF Attached
<1>2. \A p \in Pctx : Evolves(pdp[p], f[p])
  BY <1>1, InvFacts, SameEvolves, DeleteOrFreeEvolves
<1>3. \A p \in Pctx : f[p] \in PdpType
  BY <1>2 DEF Evolves, Consistent
<1>4. Evolved(f)
  BY <1>2, <1>3 DEF Evolved
<1> QED
  BY <1>4, PdpStepInv DEF process_ms_ctx_status

\* Update PDP Context Response.
LEMMA UpdateConfStep ==
  ASSUME Inv, NEW p \in Pctx, NEW nonexist, update_pdp_conf(p, nonexist)
  PROVE  Inv' /\ TunnelStep
<1> DEFINE c == pdp[p]
           d == IF nonexist THEN cb_delete_context(c) ELSE [c EXCEPT !.update = FALSE]
<1>1. Consistent(c) /\ c.lib
  BY InvFacts DEF update_pdp_conf, Consistent
<1>2. PdpStep([pdp EXCEPT ![p] = d])
  BY DEF update_pdp_conf
<1>3. Evolves(c, d)
  <2> HIDE DEF c
  <2> QED
    BY <1>1, DeletedEvolves, UpdatedKeeps, KeepsOnly
<1> HIDE DEF d
<1> QED
  BY <1>2, <1>3, OneEvolved, PdpStepInv

\* Delete PDP Context Response, or its timeout.
LEMMA DeleteConfStep == ASSUME Inv, NEW p \in Pctx, delete_pdp_conf(p) PROVE Inv' /\ TunnelStep
<1>1. Consistent(pdp[p]) /\ pdp[p].lib
  BY InvFacts DEF delete_pdp_conf, Consistent
<1>2. PdpStep([pdp EXCEPT ![p] = sgsn_pdp_ctx_free(pdp[p])])
  BY DEF delete_pdp_conf
<1>3. Evolves(pdp[p], sgsn_pdp_ctx_free(pdp[p]))
  BY <1>1, FreeNoPdp, FreeEvolves
<1> QED
  BY <1>2, <1>3, OneEvolved, PdpStepInv

\* Delete PDP Context Request of the GGSN.
LEMMA DeleteIndStep == ASSUME Inv, NEW p \in Pctx, DeleteContextInd(p) PROVE Inv' /\ TunnelStep
<1>1. PdpStep([pdp EXCEPT ![p] = cb_delete_context(pdp[p])])
  BY DEF DeleteContextInd
<1>2. Evolves(pdp[p], cb_delete_context(pdp[p]))
  BY InvFacts, DeletedEvolves DEF DeleteContextInd
<1> QED
  BY <1>1, <1>2, OneEvolved, PdpStepInv

\* The GGSN does not answer Echo Requests.
LEMMA EchoStep == ASSUME Inv, EchoTimeout PROVE Inv' /\ TunnelStep
<1> DEFINE f == [p \in Pctx |-> IF pdp[p].ggsn = "static" THEN sgsn_ggsn_ctx_drop_pdp(pdp[p]) ELSE pdp[p]]
<1>1. \A p \in Pctx : (pdp[p].ggsn = "static" /\ f[p] = sgsn_ggsn_ctx_drop_pdp(pdp[p])) \/ f[p] = pdp[p]
  OBVIOUS
<1>2. \A p \in Pctx : pdp[p].ggsn = "static" => pdp[p].lib
  BY InvFacts
<1>3. \A p \in Pctx : Evolves(pdp[p], f[p])
  BY <1>1, <1>2, InvFacts, SameEvolves, DropEvolves
<1>4. \A p \in Pctx : f[p] \in PdpType
  BY <1>3 DEF Evolves, Consistent
<1>5. Evolved(f)
  BY <1>3, <1>4 DEF Evolved
<1> QED
  BY <1>5, PdpStepInv DEF EchoTimeout

\* The GGSN has restarted.
LEMMA RecoveryStep ==
  ASSUME Inv, NEW changed, NEW except, Recovery(changed, except)
  PROVE  Inv' /\ TunnelStep
<1>1. Evolved(cb_recovery3(changed, except))
  BY RecoveryEvolved
<1> QED
  BY <1>1, MmSelf, BecomeInv DEF Recovery

\* Create PDP Context Response, after its Recovery IE.
LEMMA CreateConfStep ==
  ASSUME Inv, NEW p \in Pctx, NEW res \in {"accepted", "refused", "malformed", "timeout"},
         NEW sent \in BOOLEAN, CreateConf(p, res, sent)
  PROVE  Inv' /\ TunnelStep
<1>1. PICK changed \in BOOLEAN :
        \E f \in {cb_recovery3(changed, p)} : \E c \in {create_pdp_conf(f[p], res, sent)} :
          Become([f EXCEPT ![p] = c], IF c.conf /\ mm.ran_type = "Iu" THEN RabActivate(mm, {c.nsapi}) ELSE mm)
  BY DEF CreateConf
<1> DEFINE f == cb_recovery3(changed, p)
           c == create_pdp_conf(pdp[p], res, sent)
           m == IF c.conf /\ mm.ran_type = "Iu" THEN RabActivate(mm, {c.nsapi}) ELSE mm
<1>2. f[p] = pdp[p]
  BY DEF cb_recovery3
<1>3. Become([f EXCEPT ![p] = c], m)
  BY <1>1, <1>2
<1>4. Evolves(pdp[p], c)
  BY InvFacts, MmSelf, MmSet, CreateEvolves DEF CreateConf
<1>5. Evolved(f)
  BY RecoveryEvolved
<1> HIDE DEF c, f
<1>6. Evolved([f EXCEPT ![p] = c])
  BY <1>4, <1>5 DEF Evolved, Evolves, Consistent
<1>7. MmKeeps(m)
  <2>1. CASE c.conf /\ mm.ran_type = "Iu"
    <3>1. c.alloc
      BY <1>4, <2>1 DEF Evolves, Consistent, NoPdp
    <3>2. {c.nsapi} \in SUBSET Nsapis
      BY <1>4, <3>1 DEF Evolves, Consistent
    <3>3. MmFollows(mm, m) /\ m.ran_type = mm.ran_type /\ m.pmm = mm.pmm /\ m.unreach = mm.unreach
      BY <2>1, <3>2, MmSelf, RabRequest
    <3> QED
      BY <3>3, MmSelf DEF MmFollows, MmKeeps, Reachable
  <2>2. CASE ~(c.conf /\ mm.ran_type = "Iu")
    BY <2>2, MmSelf
  <2> QED
    BY <2>1, <2>2
<1> HIDE DEF m
<1>8. noted' \in BOOLEAN /\ UNCHANGED <<cfg, lookups, xfer>>
  BY DEF CreateConf
<1> QED
  BY <1>3, <1>6, <1>7, <1>8, BecomeInv
\* Update PDP Context Request of the GGSN.
LEMMA UpdateIndStep == ASSUME Inv, NEW p \in Pctx, cb_update_context_ind(p) PROVE Inv' /\ TunnelStep
<1> DEFINE f == PmmIdlePdp(p)
           m == PmmIdleMm(mm, f)
<1>1. Become(f, m) /\ UNCHANGED <<cfg, lookups, xfer, noted>>
  BY DEF cb_update_context_ind
<1>2. mm.alive /\ ~mm.unreach
  BY InvFacts DEF cb_update_context_ind, Inv, Owned, UnreachableIdle
<1>3. Evolved(f)
  BY PmmIdleEvolved
<1> HIDE DEF f
<1>4. MmKeeps(m)
  BY <1>2, MmSelf, PmmIdleMmFollows, MmFollowsKeeps
<1> HIDE DEF m
<1>5. noted' \in BOOLEAN
  BY <1>1 DEF Inv, TypeOK
<1> QED
  BY <1>1, <1>3, <1>4, <1>5, BecomeInv

\* The Iu connection is released.
LEMMA ReleaseStep == ASSUME Inv, IuRelease PROVE Inv' /\ TunnelStep
<1> DEFINE f == IF mm.pmm = "connected" THEN PmmIdlePdp(NoId) ELSE pdp
           m == IF mm.pmm = "connected" THEN PmmIdleMm(mm, f) ELSE sgsn_mm_ctx_iu_ranap_free(mm)
<1>1. Become(f, m) /\ UNCHANGED <<cfg, lookups, xfer, noted>> /\ mm.alive
  BY DEF IuRelease
<1>2. mm.pmm = "connected" => ~mm.unreach
  BY DEF Inv, UnreachableIdle
<1>3. Evolved(f)
  BY PmmIdleEvolved, SameEvolved
<1> HIDE DEF f
<1>4. MmKeeps(m)
  <2>1. CASE mm.pmm = "connected"
    BY <1>1, <1>2, <2>1, MmSelf, PmmIdleMmFollows, MmFollowsKeeps
  <2>2. CASE mm.pmm # "connected"
    BY <2>2, MmSelf, RanapFree DEF MmFollows, MmKeeps, Reachable
  <2> QED
    BY <2>1, <2>2
<1> HIDE DEF m
<1>5. noted' \in BOOLEAN
  BY <1>1 DEF Inv, TypeOK
<1> QED
  BY <1>1, <1>3, <1>4, <1>5, BecomeInv

\* The unreachable timer.
LEMMA UnreachableStep == ASSUME Inv, mm_iu_unreachable_pdp_timer_cb PROVE Inv' /\ TunnelStep
<1> DEFINE m == [mm EXCEPT !.unreach = FALSE]
<1>1. Become(sgsn_mm_ctx_delete_all_pdp_gn(pdp), m) /\ UNCHANGED <<cfg, lookups, xfer, noted>>
  BY DEF mm_iu_unreachable_pdp_timer_cb
<1>2. m \in MmType
  BY MmSelf, MmSet
<1>3. MmKeeps(m)
  BY <1>2, MmSelf DEF MmKeeps, Reachable, MmType
<1> HIDE DEF m
<1>4. noted' \in BOOLEAN
  BY <1>1 DEF Inv, TypeOK
<1> QED
  BY <1>1, <1>3, <1>4, DeleteAllEvolved, BecomeInv

\* The RNC is lost.
LEMMA RncLossStep == ASSUME Inv, sgsn_mm_iu_handle_rnc_loss PROVE Inv' /\ TunnelStep
<1> DEFINE m == sgsn_mm_iu_unreachable_timer_stop(mm)
           f == IF mm.pmm = "connected" THEN PmmIdlePdp(NoId) ELSE pdp
           n == IF mm.pmm = "connected" THEN PmmIdleMm(m, f) ELSE sgsn_mm_ctx_iu_ranap_free(m)
           g == sgsn_mm_ctx_delete_all_pdp_gn(f)
           o == sgsn_mm_iu_unreachable_timer_stop(n)
<1>1. mm.alive /\ (Become(g, o) \/ Become(f, n)) /\ UNCHANGED <<cfg, lookups, xfer, noted>>
  BY DEF sgsn_mm_iu_handle_rnc_loss
<1>2. Evolved(f)
  BY PmmIdleEvolved, SameEvolved
<1>3. Evolved(g)
  BY LossEvolved, DeleteAllEvolved
<1> HIDE DEF f, g
<1>4. MmFollows(mm, m) /\ ~m.unreach /\ m \in MmType /\ m.alive
  BY <1>1, MmSelf, UnreachableStop DEF MmFollows, MmKeeps
<1> HIDE DEF m
<1>5. MmFollows(m, n) /\ Reachable(n)
  <2>1. CASE mm.pmm = "connected"
    BY <1>4, <2>1, PmmIdleMmFollows
  <2>2. CASE mm.pmm # "connected"
    BY <1>4, <2>2, RanapFree DEF Reachable
  <2> QED
    BY <2>1, <2>2
<1> HIDE DEF n
<1>6. MmKeeps(n)
  BY <1>4, <1>5, MmSelf, MmFollowsTwice, MmFollowsKeeps
<1>7. MmFollows(n, o) /\ Reachable(o)
  BY <1>5, UnreachableStop DEF MmFollows, Reachable
<1> HIDE DEF o
<1>8. MmKeeps(o)
  BY <1>6, <1>7, MmFollowsKeeps
<1>9. noted' \in BOOLEAN
  BY <1>1 DEF Inv, TypeOK
<1> QED
  BY <1>1, <1>2, <1>3, <1>6, <1>8, <1>9, BecomeInv

\* RAB Assignment Response.
LEMMA RabStep ==
  ASSUME Inv, NEW n \in Nsapis, NEW kind, sgsn_ranap_rab_ass_resp(n, kind)
  PROVE  Inv' /\ TunnelStep
<1> DEFINE m == [mm EXCEPT !.rabs = @ \ {n}]
           p == ByNsapi(n)[1]
           c == IF kind = "bad" THEN RabFailed(pdp[p]) ELSE RabConfirmed(pdp[p], kind)
<1>0. UNCHANGED <<cfg, lookups, xfer, noted>> /\ noted' \in BOOLEAN
  BY DEF sgsn_ranap_rab_ass_resp, Inv, TypeOK
<1>1. m \in MmType
  BY MmSelf, MmSet
<1>2. MmKeeps(m)
  BY <1>1, MmSelf DEF MmKeeps, Reachable, MmType
<1>3. CASE ByNsapi(n) = <<>>
  <2> DEFINE o == sgsn_mm_ctx_iu_ranap_free(m)
  <2>1. Become(pdp, o)
    BY <1>3 DEF sgsn_ranap_rab_ass_resp
  <2> HIDE DEF m
  <2>2. MmKeeps(o)
    BY <1>1, <1>2, RanapFree DEF MmFollows, MmKeeps, Reachable
  <2> HIDE DEF o
  <2> QED
    BY <1>0, <2>1, <2>2, SameEvolved, BecomeInv
<1>4. CASE ByNsapi(n) # <<>>
  <2>1. p \in Pctx /\ pdp[p].mm
    BY <1>4, FoundAttached DEF ByNsapi
  <2>2. Become(IF ~pdp[p].lib THEN pdp ELSE [pdp EXCEPT ![p] = c], m)
    BY <1>4 DEF sgsn_ranap_rab_ass_resp
  <2> HIDE DEF p
  <2>3. pdp[p].lib => Evolves(pdp[p], c)
    BY <2>1, InvFacts, RabEvolves
  <2> HIDE DEF c, m
  <2>4. Evolved(IF ~pdp[p].lib THEN pdp ELSE [pdp EXCEPT ![p] = c])
    BY <2>1, <2>3, OneEvolved, SameEvolved
  <2> QED
    BY <1>0, <1>2, <2>2, <2>4, BecomeInv
<1> QED
  BY <1>3, <1>4
\* The GMM state changes.
LEMMA GmmStateStep ==
  ASSUME Inv, NEW r \in {"normal", "suspended", "other"}, GmmState(r)
  PROVE  Inv' /\ TunnelStep
<1>1. [mm EXCEPT !.reg = r] \in MmType
  BY MmSelf, MmSet
<1>2. MmKeeps([mm EXCEPT !.reg = r])
  BY <1>1, MmSelf DEF MmKeeps, Reachable, MmType
<1> QED
  BY <1>2, MmStepInv DEF GmmState

\* A new Iu connection.
LEMMA ConnectStep == ASSUME Inv, IuConnect PROVE Inv' /\ TunnelStep
<1>1. [mm EXCEPT !.ue = TRUE, !.rabs = {}] \in MmType
  BY MmSelf, MmSet
<1>2. MmKeeps([mm EXCEPT !.ue = TRUE, !.rabs = {}])
  BY <1>1, MmSelf DEF MmKeeps, Reachable, MmType
<1> QED
  BY <1>2, MmStepInv DEF IuConnect

\* PMM-DETACHED: the timer has stopped.
LEMMA DetachFollows ==
  ASSUME NEW m \in MmType, Reachable(m)
  PROVE  MmFollows(m, PmmDetach(m)) /\ ~PmmDetach(m).unreach
<1> DEFINE s == sgsn_mm_iu_unreachable_timer_stop(m)
           d == [s EXCEPT !.pmm = "detached"]
<1>1. MmFollows(m, s) /\ ~s.unreach /\ s \in MmType
  BY UnreachableStop DEF MmFollows
<1> HIDE DEF s
<1>2. d \in MmType
  BY <1>1, MmSet
<1>3. MmFollows(m, d) /\ ~d.unreach
  BY <1>1, <1>2 DEF MmFollows, MmType
<1> HIDE DEF d
<1>4. MmFollows(m, sgsn_mm_ctx_iu_ranap_free(d)) /\ ~sgsn_mm_ctx_iu_ranap_free(d).unreach
  BY <1>2, <1>3, RanapFree DEF MmFollows
<1>5. CASE m.pmm = "connected"
  BY <1>4, <1>5 DEF PmmDetach, d, s
<1>6. CASE m.pmm = "idle"
  BY <1>3, <1>6 DEF PmmDetach, d, s
<1>7. CASE m.pmm = "detached"
  BY <1>7 DEF PmmDetach, MmFollows, Reachable
<1> QED
  BY <1>5, <1>6, <1>7, MmSet

\* The MS comes from the other RAN.
LEMMA RatChangeStep == ASSUME Inv, NEW r \in Rans, RatChange(r) PROVE Inv' /\ TunnelStep
<1> DEFINE d == IF mm.ran_type = "Iu" THEN PmmDetach(mm) ELSE mm
           m == [d EXCEPT !.ran_type = r, !.reg = "other"]
<1>1. MmStep(m)
  BY DEF RatChange
<1>2. MmFollows(mm, d) /\ ~d.unreach /\ d \in MmType
  <2>1. CASE mm.ran_type = "Iu"
    BY <2>1, MmSelf, DetachFollows DEF MmFollows, MmKeeps
  <2>2. CASE mm.ran_type # "Iu"
    BY <2>2, MmSelf DEF MmKeeps, Reachable
  <2> QED
    BY <2>1, <2>2
<1> HIDE DEF d
<1>3. m \in MmType
  BY <1>2, MmSet
<1>4. m.list = d.list /\ m.alive = d.alive /\ m.lookup = d.lookup /\ m.unreach = d.unreach
  BY <1>2 DEF MmType
<1>5. MmKeeps(m)
  BY <1>2, <1>3, <1>4, MmSelf DEF MmFollows, MmKeeps, Reachable
<1> HIDE DEF m
<1> QED
  BY <1>1, <1>5, MmStepInv

\* Out of PMM-IDLE.
LEMMA ResumeFollows ==
  ASSUME Inv, NEW m \in MmType, Reachable(m)
  PROVE  MmFollows(m, PmmResume(m)) /\ ~PmmResume(m).unreach
<1> DEFINE s == sgsn_mm_iu_unreachable_timer_stop(m)
           d == [s EXCEPT !.pmm = "connected"]
<1>1. MmFollows(m, s) /\ ~s.unreach /\ s \in MmType
  BY UnreachableStop DEF MmFollows
<1> HIDE DEF s
<1>2. d \in MmType
  BY <1>1, MmSet
<1>3. MmFollows(m, d) /\ ~d.unreach
  BY <1>1, <1>2 DEF MmFollows, MmType
<1> HIDE DEF d
<1>4. MmFollows(d, sgsn_mm_ctx_iu_activate_rabs(d)) /\ ~sgsn_mm_ctx_iu_activate_rabs(d).unreach
  BY <1>2, <1>3, RabRequests
<1> QED
  BY <1>3, <1>4, MmFollowsTwice DEF PmmResume, d, s

\* Attach Complete on Iu.
LEMMA PsAttachStep == ASSUME Inv, PsAttach PROVE Inv' /\ TunnelStep
<1> DEFINE m == IF mm.pmm = "idle" THEN PmmResume(mm) ELSE [mm EXCEPT !.pmm = "connected"]
<1>1. MmStep(m)
  BY DEF PsAttach
<1>2. MmKeeps(m)
  <2>1. CASE mm.pmm = "idle"
    BY <2>1, MmSelf, ResumeFollows, MmFollowsKeeps DEF MmKeeps, Reachable
  <2>2. CASE mm.pmm # "idle"
    <3>1. m \in MmType
      BY <2>2, MmSelf, MmSet
    <3>2. m.list = mm.list /\ m.alive = mm.alive /\ m.lookup = mm.lookup /\ m.unreach = mm.unreach
      BY <2>2, MmSelf DEF MmType
    <3> QED
      BY <2>2, <3>1, <3>2, MmSelf DEF MmKeeps, Reachable
  <2> QED
    BY <2>1, <2>2
<1> HIDE DEF m
<1> QED
  BY <1>1, <1>2, MmStepInv

\* Service Request or RA Update on Iu.
LEMMA PsEstablishStep == ASSUME Inv, NEW signalling, PsEstablish(signalling) PROVE Inv' /\ TunnelStep
<1> DEFINE m == IF mm.pmm = "idle" THEN PmmResume(mm) ELSE mm
           n == IF signalling THEN m ELSE sgsn_mm_ctx_iu_activate_rabs(m)
<1>1. MmStep(n)
  BY DEF PsEstablish
<1>2. MmKeeps(m)
  <2>1. CASE mm.pmm = "idle"
    BY <2>1, MmSelf, ResumeFollows, MmFollowsKeeps DEF MmKeeps, Reachable
  <2>2. CASE mm.pmm # "idle"
    BY <2>2, MmSelf
  <2> QED
    BY <2>1, <2>2
<1> HIDE DEF m
<1>3. m \in MmType
  BY <1>2 DEF MmKeeps
<1>4. MmKeeps(sgsn_mm_ctx_iu_activate_rabs(m))
  BY <1>2, <1>3, RabRequests DEF MmFollows, MmKeeps, Reachable
<1>5. MmKeeps(n)
  BY <1>2, <1>4
<1> HIDE DEF n
<1> QED
  BY <1>1, <1>5, MmStepInv

\* A new MM context: none of the contexts that are left points to it.
LEMMA MmAllocStep == ASSUME Inv, NEW r \in Rans, sgsn_mm_ctx_alloc(r) PROVE Inv' /\ TunnelStep
<1> DEFINE m == [NoMm EXCEPT !.alive = TRUE, !.ran_type = r]
<1>1. mm' = m /\ ~mm.alive /\ UNCHANGED <<cfg, pdp, lookups, xfer, noted>>
  BY DEF sgsn_mm_ctx_alloc, MmStep
<1>2. m \in MmType /\ m.alive /\ ~m.unreach /\ m.lookup = NoId /\ m.list = <<>>
  <2>1. m \in MmType
    BY NoMmType, MmSet
  <2> QED
    BY <2>1 DEF NoMm
<1>3. \A p \in Pctx : ~pdp[p].mm
  BY <1>1 DEF Inv, Owned
<1>4. Range(m.list) = {}
  BY <1>2 DEF Range
<1> HIDE DEF m
<1>5. TypeOK'
  BY <1>1, <1>2 DEF Inv, TypeOK
<1>6. Listed' /\ Owned' /\ NsapiUnique' /\ (\A p \in Pctx : Consistent(pdp[p]))'
  <2>1. Listed'
    BY <1>1, <1>3, <1>4 DEF Listed
  <2> QED
    BY <1>1, <1>2, <2>1 DEF Inv, Owned, NsapiUnique
<1>7. LookupsOwned' /\ LookupPointerLive' /\ XferContextAlive' /\ UnreachableIdle'
  BY <1>1, <1>2 DEF Inv, LookupsOwned, LookupPointerLive, XferContextAlive, UnreachableIdle
<1>8. TunnelStep
  BY <1>1 DEF TunnelStep
<1> QED
  BY <1>5, <1>6, <1>7, <1>8 DEF Inv
\* Every context is terminated, of those that f has.
LEMMA CleanupStep ==
  ASSUME Inv, NEW f, NEW x, x \in {xfer, "none"}, mm.alive,
         f = pdp \/ f = sgsn_mm_ctx_delete_all_pdp_gn(pdp),
         sgsn_mm_ctx_cleanup_free(f, x)
  PROVE  Inv' /\ TunnelStep
<1> DEFINE g == Terminated(f)
           m == [NoMm EXCEPT !.unreach = sgsn_mm_iu_unreachable_timer_stop(mm).unreach]
<1>1. pdp' = g /\ mm' = m /\ UNCHANGED <<cfg, noted>>
  BY DEF sgsn_mm_ctx_cleanup_free
<1>2. ASSUME NEW p \in Pctx PROVE Evolves(pdp[p], g[p]) /\ ~g[p].mm
  <2>1. g[p] = IF Attached(f[p]) THEN sgsn_pdp_ctx_terminate(f[p]) ELSE f[p]
    BY DEF Terminated
  <2>2. CASE f[p] = pdp[p]
    BY <2>1, <2>2, InvFacts, SameEvolves, TerminateEvolves
  <2>3. CASE f[p] = sgsn_delete_pdp_ctx(pdp[p]) /\ pdp[p].mm
    <3>1. Evolves(pdp[p], f[p]) /\ Consistent(f[p])
      BY <2>3, InvFacts, DeleteEvolves DEF Evolves
    <3>2. Attached(f[p]) <=> f[p].mm
      BY <3>1, HandleFacts DEF Attached
    <3> QED
      BY <2>1, <2>3, <3>1, <3>2, InvFacts, DeleteTerminateEvolves
  <2> QED
    BY <2>2, <2>3, InvFacts DEF sgsn_mm_ctx_delete_all_pdp_gn
<1>3. \A p \in Pctx : g[p] \in PdpType /\ Consistent(g[p])
  BY <1>2 DEF Evolves, Consistent
<1>4. g \in [Pctx -> PdpType]
  BY <1>3 DEF Terminated
<1> HIDE DEF g
<1>5. ~sgsn_mm_iu_unreachable_timer_stop(mm).unreach /\ sgsn_mm_iu_unreachable_timer_stop(mm).unreach \in BOOLEAN
  BY MmSelf, UnreachableStop, MmSet DEF MmKeeps, MmFollows
<1>6. m \in MmType /\ ~m.unreach /\ m.lookup = NoId /\ m.list = <<>>
  <2>1. m \in MmType
    BY <1>5, NoMmType, MmSet
  <2> QED
    BY <1>5, <2>1 DEF NoMm
<1>7. Range(m.list) = {}
  BY <1>6 DEF Range
<1> HIDE DEF m
<1>8. lookups' \in [LookupIds -> LookupType] /\ \A l \in LookupIds : lookups'[l].mm # "linked"
  <2> DEFINE h == [l \in LookupIds |-> IF l = mm.lookup THEN [lookups[l] EXCEPT !.mm = "null"] ELSE Dangling(l)]
  <2>1. lookups' = h
    BY DEF sgsn_mm_ctx_cleanup_free
  <2>2. \A l \in LookupIds : lookups[l] \in LookupType
    BY DEF Inv, TypeOK
  <2>3. \A l \in LookupIds : h[l] \in LookupType /\ h[l].mm # "linked"
    BY <2>2 DEF Dangling, LookupType
  <2> HIDE DEF h
  <2>4. h \in [LookupIds -> LookupType]
    BY <2>3 DEF h
  <2> QED
    BY <2>1, <2>3, <2>4
<1>9. xfer' = "none"
  BY DEF sgsn_mm_ctx_cleanup_free, ctx_xfer_purge_mm, Inv, TypeOK, XferContextAlive
<1>10. TypeOK'
  BY <1>1, <1>4, <1>6, <1>8, <1>9 DEF Inv, TypeOK
<1>11. Listed'
  BY <1>1, <1>2, <1>7 DEF Listed
<1>12. Owned' /\ NsapiUnique' /\ (\A p \in Pctx : Consistent(pdp[p]))'
  BY <1>1, <1>2, <1>3 DEF Owned, NsapiUnique, Attached
<1>13. LookupsOwned' /\ LookupPointerLive' /\ XferContextAlive' /\ UnreachableIdle'
  BY <1>1, <1>6, <1>8, <1>9 DEF LookupsOwned, LookupPointerLive, XferContextAlive, UnreachableIdle
<1>14. TunnelStep
  BY <1>1, <1>2 DEF TunnelStep, Evolves
<1> QED
  BY <1>10, <1>11, <1>12, <1>13, <1>14 DEF Inv

\* The MM context is freed.
LEMMA MmFreeStep == ASSUME Inv, MmFree PROVE Inv' /\ TunnelStep
  BY CleanupStep DEF MmFree

\* SGSN Context Request of another SGSN.
LEMMA ContextRequestStep == ASSUME Inv, cb_sgsn_context_request_ind PROVE Inv' /\ TunnelStep
<1>1. xfer' = "linked" /\ mm.alive /\ UNCHANGED <<cfg, mm, pdp, lookups, noted>>
  BY DEF cb_sgsn_context_request_ind
<1>2. TypeOK' /\ XferContextAlive'
  BY <1>1 DEF Inv, TypeOK, XferContextAlive
<1>3. Listed' /\ Owned' /\ NsapiUnique' /\ (\A p \in Pctx : Consistent(pdp[p]))'
  BY <1>1 DEF Inv, Listed, Owned, NsapiUnique
<1>4. LookupsOwned' /\ LookupPointerLive' /\ UnreachableIdle'
  BY <1>1 DEF Inv, LookupsOwned, LookupPointerLive, UnreachableIdle
<1>5. TunnelStep
  BY <1>1 DEF TunnelStep
<1> QED
  BY <1>2, <1>3, <1>4, <1>5 DEF Inv

\* SGSN Context Acknowledge, or its timeout.
LEMMA FinishStep == ASSUME Inv, NEW accepted, ctx_xfer_finish(accepted) PROVE Inv' /\ TunnelStep
<1>1. CASE accepted
  <2>1. mm.alive
    BY DEF ctx_xfer_finish, Inv, XferContextAlive
  <2> QED
    BY <1>1, <2>1, CleanupStep DEF ctx_xfer_finish
<1>2. CASE ~accepted
  <2>1. xfer' = "none" /\ UNCHANGED <<cfg, mm, pdp, lookups, noted>>
    BY <1>2 DEF ctx_xfer_finish
  <2>2. TypeOK' /\ XferContextAlive'
    BY <2>1 DEF Inv, TypeOK, XferContextAlive
  <2>3. Listed' /\ Owned' /\ NsapiUnique' /\ (\A p \in Pctx : Consistent(pdp[p]))'
    BY <2>1 DEF Inv, Listed, Owned, NsapiUnique
  <2>4. LookupsOwned' /\ LookupPointerLive' /\ UnreachableIdle'
    BY <2>1 DEF Inv, LookupsOwned, LookupPointerLive, UnreachableIdle
  <2>5. TunnelStep
    BY <2>1 DEF TunnelStep
  <2> QED
    BY <2>2, <2>3, <2>4, <2>5 DEF Inv
<1> QED
  BY <1>1, <1>2
\* The new context, between its Create Request and its answer.
LEMMA NewContext ==
  ASSUME NEW n \in Nsapis, NEW t \in Tis, NEW g \in {"static", "dynamic"}
  PROVE  LET c == sgsn_create_pdp_ctx(n, t, g)
         IN  Consistent(c) /\ c.mm /\ c.alloc /\ c.nsapi = n /\ TunnelOf(c) = "creating"
<1> DEFINE c == sgsn_create_pdp_ctx(n, t, g)
<1>1. c \in PdpType
  BY NoPdpType, PdpSet DEF sgsn_create_pdp_ctx
<1>2. /\ c.alloc = TRUE /\ c.mm = TRUE /\ c.nsapi = n /\ c.ti = t /\ c.ggsn = g /\ c.lib = TRUE
      /\ c.create = TRUE /\ c.timer = FALSE /\ c.cdr = FALSE /\ c.delete = FALSE
  BY DEF sgsn_create_pdp_ctx, NoPdp
<1> HIDE DEF c
<1>3. Consistent(c)
  BY <1>1, <1>2 DEF Consistent
<1>4. TunnelOf(c) = "creating"
  BY <1>2 DEF TunnelOf
<1> QED
  BY <1>2, <1>3, <1>4 DEF c

\* A context is made, or not, for an NSAPI without one.
LEMMA AllocPart ==
  ASSUME Inv, NEW n \in Nsapis, NEW t \in Tis, NEW g \in {"static", "dynamic"}, NEW m \in MmType,
         m.list = mm.list, m.alive = mm.alive, mm.alive, sgsn_pdp_ctx_alloc(n, t, g, m)
  PROVE  /\ pdp' \in [Pctx -> PdpType]
         /\ mm' \in MmType
         /\ mm'.alive = m.alive /\ mm'.lookup = m.lookup /\ mm'.unreach = m.unreach
         /\ mm'.ran_type = m.ran_type /\ mm'.pmm = m.pmm
         /\ Listed' /\ Owned' /\ NsapiUnique'
         /\ \A p \in Pctx : Consistent(pdp'[p])
         /\ TunnelStep
<1>1. CASE CannotCreate(n)
  <2>1. Become(pdp, m)
    BY <1>1 DEF sgsn_pdp_ctx_alloc
  <2> QED
    BY <2>1, SameEvolved, BecomePart DEF Inv, TypeOK
<1>2. CASE ~CannotCreate(n)
  <2>1. PICK p \in cfg.memory :
          /\ ~pdp[p].alloc /\ ~pdp[p].lib
          /\ Become([pdp EXCEPT ![p] = sgsn_create_pdp_ctx(n, t, g)], [m EXCEPT !.list = <<p>> \o @])
    BY <1>2 DEF sgsn_pdp_ctx_alloc
  <2>2. p \in Pctx
    BY DEF Inv, TypeOK, ConfigType
  <2> DEFINE c == sgsn_create_pdp_ctx(n, t, g)
             f == [pdp EXCEPT ![p] = c]
             k == <<p>> \o m.list
             o == [m EXCEPT !.list = k]
             S == {q \in Pctx : Attached(f[q])}
             l == Kept(k, S)
  <2>3. Consistent(c) /\ c.mm /\ c.alloc /\ c.nsapi = n /\ TunnelOf(c) = "creating" /\ c \in PdpType
    BY NewContext DEF Consistent
  <2> HIDE DEF c
  <2>4. pdp \in [Pctx -> PdpType] /\ f \in [Pctx -> PdpType] /\ f[p] = c /\ \A q \in Pctx : q # p => f[q] = pdp[q]
    BY <2>2, <2>3 DEF Inv, TypeOK
  <2>5. pdp' = f /\ mm' = [o EXCEPT !.list = Kept(@, S)]
    BY <2>1 DEF Become, c
  <2> HIDE DEF f
  <2>6. m.list \in Seq(Pctx) /\ k \in Seq(Pctx)
    BY <2>2, ConsProperties DEF MmType
  <2>7. \A q : q \in Range(k) <=> q = p \/ q \in Range(m.list)
    BY <2>2, <2>6, ConsProperties
  <2> HIDE DEF k
  <2>8. l \in Seq(Pctx) /\ \A q : q \in Range(l) <=> (q = p \/ q \in Range(m.list)) /\ q \in S
    <3> HIDE DEF S
    <3> QED
      BY <2>6, <2>7, KeptProperties
  <2>9. o \in MmType /\ o.list = k
    <3>1. o \in MmType
      BY <2>6, MmSet
    <3> QED
      BY <3>1 DEF MmType
  <2>10. mm' = [o EXCEPT !.list = l]
    BY <2>5, <2>9
  <2> HIDE DEF l, S
  <2>11. /\ mm' \in MmType /\ mm'.list = l
         /\ mm'.alive = m.alive /\ mm'.lookup = m.lookup /\ mm'.unreach = m.unreach
         /\ mm'.ran_type = m.ran_type /\ mm'.pmm = m.pmm
    <3>1. mm' \in MmType
      BY <2>8, <2>9, <2>10, MmSet
    <3> QED
      BY <3>1, <2>10 DEF MmType
  <2>12. \A q \in Pctx : Consistent(f[q]) /\ (Attached(f[q]) <=> f[q].mm)
    BY <2>3, <2>4, InvFacts DEF Attached
  <2>13. Listed'
    <3>1. \A q \in Pctx : f[q].mm <=> q \in Range(l)
      BY <2>3, <2>4, <2>8, <2>12 DEF Inv, Listed, S
    <3> QED
      BY <2>5, <2>11, <3>1 DEF Listed
  <2>14. Owned'
    BY <2>11 DEF Owned
  <2>15. NsapiUnique'
    <3>1. \A q \in Pctx : pdp[q].mm => pdp[q].nsapi # n
      <4>1. ByNsapi(n) = <<>>
        BY <1>2 DEF CannotCreate
      <4> DEFINE N == {q \in Pctx : pdp[q].nsapi = n}
      <4>2. \A q : ~(q \in Range(mm.list) /\ q \in N)
        <5>1. \A q : q \notin Range(<<>>)
          BY DEF Range
        <5> HIDE DEF N
        <5>2. Kept(mm.list, N) = <<>>
          BY <4>1 DEF ByNsapi, N
        <5> QED
          BY <5>1, <5>2, <2>6, KeptProperties
      <4> QED
        BY <4>2 DEF Inv, Listed
    <3>2. SUFFICES ASSUME NEW q \in Pctx, NEW r \in Pctx, q # r, f[q].mm, f[r].mm
                   PROVE  f[q].nsapi # f[r].nsapi
      BY <2>5, <2>12 DEF NsapiUnique
    <3>3. CASE q # p /\ r # p
      BY <3>2, <3>3, <2>4, InvFacts DEF Inv, NsapiUnique
    <3>4. CASE q = p \/ r = p
      BY <3>1, <3>2, <3>4, <2>3, <2>4
    <3> QED
      BY <3>3, <3>4
  <2>16. TunnelStep
    <3>1. TunnelOf(pdp[p]) = "none"
      BY <2>1 DEF TunnelOf
    <3> QED
      BY <2>3, <2>4, <2>5, <3>1 DEF TunnelStep, Tunnel!Successors
  <2> QED
    BY <2>4, <2>5, <2>11, <2>12, <2>13, <2>14, <2>15, <2>16
<1> QED
  BY <1>1, <1>2
\* Activate Request for an NSAPI that has a context.
LEMMA ActAgainStep ==
  ASSUME Inv, NEW p \in Pctx, pdp[p].mm, NEW t, ActPdpAgain(p, t)
  PROVE  Inv' /\ TunnelStep
<1> DEFINE m == RabActivate(mm, {pdp[p].nsapi})
<1>1. Become(pdp, m) /\ UNCHANGED <<cfg, lookups, xfer, noted>> /\ noted' \in BOOLEAN
  BY DEF ActPdpAgain, Inv, TypeOK
<1>2. {pdp[p].nsapi} \in SUBSET Nsapis
  BY InvFacts DEF Consistent
<1>3. MmKeeps(m)
  BY <1>2, MmSelf, RabRequest DEF MmFollows, MmKeeps, Reachable
<1> HIDE DEF m
<1> QED
  BY <1>1, <1>3, SameEvolved, BecomeInv

\* Activate Request at the static GGSN.
LEMMA ActStaticStep ==
  ASSUME Inv, NEW n \in Nsapis, NEW t \in Tis, mm.alive, ActPdpStatic(n, t)
  PROVE  Inv' /\ TunnelStep
<1>1. /\ sgsn_pdp_ctx_alloc(n, t, "static", mm) /\ UNCHANGED <<cfg, lookups, xfer, noted>>
      /\ mm \in MmType /\ "static" \in {"static", "dynamic"}
  BY DEF ActPdpStatic, Inv, TypeOK
<1>2. /\ pdp' \in [Pctx -> PdpType]
      /\ mm' \in MmType
      /\ mm'.alive = mm.alive /\ mm'.lookup = mm.lookup /\ mm'.unreach = mm.unreach
      /\ mm'.ran_type = mm.ran_type /\ mm'.pmm = mm.pmm
      /\ Listed' /\ Owned' /\ NsapiUnique'
      /\ \A p \in Pctx : Consistent(pdp'[p])
      /\ TunnelStep
  BY <1>1, AllocPart
<1>3. TypeOK'
  BY <1>1, <1>2 DEF Inv, TypeOK
<1>4. LookupsOwned' /\ LookupPointerLive' /\ XferContextAlive' /\ UnreachableIdle'
  BY <1>1, <1>2 DEF Inv, LookupsOwned, LookupPointerLive, XferContextAlive, UnreachableIdle
<1>5. (\A p \in Pctx : Consistent(pdp[p]))'
  BY <1>2
<1> QED
  BY <1>2, <1>3, <1>4, <1>5 DEF Inv

\* Activate Request at a GGSN that has to be looked up.
LEMMA ActLookupStep ==
  ASSUME Inv, NEW n \in Nsapis, NEW t \in Tis, mm.alive, ActPdpLookup(n, t)
  PROVE  Inv' /\ TunnelStep
<1> DEFINE k == [mm |-> "linked", ti |-> t, nsapi |-> n, digits |-> 2]
<1>1. PICK l \in LookupIds : lookups' = [lookups EXCEPT ![l] = k] /\ mm' = [mm EXCEPT !.lookup = l]
  BY DEF ActPdpLookup
<1>2. UNCHANGED <<cfg, pdp, xfer, noted>>
  BY DEF ActPdpLookup
<1>3. k \in LookupType /\ k.mm = "linked" /\ k.nsapi = n /\ k.ti = t
  BY DEF LookupType
<1> HIDE DEF k
<1>4. /\ mm' \in MmType /\ mm'.lookup = l /\ mm'.alive = mm.alive /\ mm'.list = mm.list
      /\ mm'.unreach = mm.unreach /\ mm'.ran_type = mm.ran_type /\ mm'.pmm = mm.pmm
  <2>1. mm' \in MmType
    BY <1>1, MmSelf, MmSet
  <2> QED
    BY <1>1, <2>1, MmSelf DEF MmType
<1>5. lookups' \in [LookupIds -> LookupType] /\ lookups'[l] = k /\ \A i \in LookupIds : i # l => lookups'[i] = lookups[i]
  BY <1>1, <1>3 DEF Inv, TypeOK
<1>6. TypeOK'
  BY <1>2, <1>4, <1>5 DEF Inv, TypeOK
<1>7. Listed' /\ Owned' /\ NsapiUnique' /\ (\A p \in Pctx : Consistent(pdp[p]))'
  BY <1>2, <1>4 DEF Inv, Listed, Owned, NsapiUnique
<1>8. LookupsOwned' /\ LookupPointerLive'
  BY <1>3, <1>4, <1>5 DEF Inv, LookupsOwned, LookupPointerLive
<1>9. XferContextAlive' /\ UnreachableIdle'
  BY <1>2, <1>4 DEF Inv, XferContextAlive, UnreachableIdle
<1>10. TunnelStep
  BY <1>2 DEF TunnelStep
<1> QED
  BY <1>6, <1>7, <1>8, <1>9, <1>10 DEF Inv

\* Activate PDP Context Request.
LEMMA ActReqStep ==
  ASSUME Inv, NEW r \in cfg.asks, do_act_pdp_req(r[1], r[2], r[3])
  PROVE  Inv' /\ TunnelStep
<1>1. r[1] \in Nsapis /\ r[2] \in Tis
  BY PdpAssumption DEF Inv, TypeOK, ConfigType
<1>2. ASSUME NEW p \in Pctx, ByNsapi(r[1]) # <<>>, p = ByNsapi(r[1])[1], ActPdpAgain(p, r[2])
      PROVE  Inv' /\ TunnelStep
  <2>1. pdp[p].mm
    BY <1>2, FoundAttached DEF ByNsapi
  <2> QED
    BY <1>2, <2>1, ActAgainStep
<1> QED
  BY <1>1, <1>2, ActStaticStep, ActLookupStep DEF do_act_pdp_req

\* The resolver's answer to look-up l leaves its memory as k.
LEMMA LookupTypes ==
  ASSUME Inv, NEW l \in LookupIds, NEW k \in LookupType, lookups' = [lookups EXCEPT ![l] = k]
  PROVE  lookups' \in [LookupIds -> LookupType] /\ lookups'[l] = k /\ \A i \in LookupIds : i # l => lookups'[i] = lookups[i]
  BY DEF Inv, TypeOK

\* Neither contexts nor MM context change.
LEMMA LookupOnlyStep ==
  ASSUME Inv, NEW l \in LookupIds, NEW k \in LookupType, lookups' = [lookups EXCEPT ![l] = k],
         UNCHANGED <<cfg, mm, pdp, xfer, noted>>,
         k.mm = "linked" => k.nsapi = lookups[l].nsapi /\ k.ti = lookups[l].ti,
         lookups[l].mm = "linked" <=> k.mm = "linked"
  PROVE  Inv' /\ TunnelStep
<1>1. lookups' \in [LookupIds -> LookupType] /\ lookups'[l] = k /\ \A i \in LookupIds : i # l => lookups'[i] = lookups[i]
  BY LookupTypes
<1>2. TypeOK'
  BY <1>1 DEF Inv, TypeOK
<1>3. Listed' /\ Owned' /\ NsapiUnique' /\ (\A p \in Pctx : Consistent(pdp[p]))'
  BY DEF Inv, Listed, Owned, NsapiUnique
<1>4. LookupsOwned'
  BY <1>1 DEF Inv, LookupsOwned
<1>5. LookupPointerLive'
  <2>1. mm.lookup # NoId => mm.lookup \in LookupIds
    BY MmSelf, MmSet
  <2> QED
    BY <1>1, <2>1 DEF Inv, LookupPointerLive
<1>6. XferContextAlive' /\ UnreachableIdle'
  BY DEF Inv, XferContextAlive, UnreachableIdle
<1>7. TunnelStep
  BY DEF TunnelStep
<1> QED
  BY <1>2, <1>3, <1>4, <1>5, <1>6, <1>7 DEF Inv

\* The look-up is over, and with it the MM context's pointer.
LEMMA LookupOverStep ==
  ASSUME Inv, NEW l \in LookupIds, lookups' = [lookups EXCEPT ![l] = NoLookup], UNCHANGED <<cfg, xfer, noted>>,
         lookups[l].mm = "linked",
         \/ Become(pdp, [mm EXCEPT !.lookup = NoId])
         \/ sgsn_pdp_ctx_alloc(lookups[l].nsapi, lookups[l].ti, "dynamic", [mm EXCEPT !.lookup = NoId])
  PROVE  Inv' /\ TunnelStep
<1> DEFINE m == [mm EXCEPT !.lookup = NoId]
<1>1. NoLookup \in LookupType /\ NoLookup.mm = "free"
  BY DEF NoLookup, LookupType
<1>2. lookups' \in [LookupIds -> LookupType] /\ lookups'[l] = NoLookup /\ \A i \in LookupIds : i # l => lookups'[i] = lookups[i]
  BY <1>1, LookupTypes
<1>3. m \in MmType
  BY MmSelf, MmSet
<1>4. /\ m.lookup = NoId /\ m.alive = mm.alive /\ m.list = mm.list
      /\ m.unreach = mm.unreach /\ m.ran_type = mm.ran_type /\ m.pmm = mm.pmm
  BY <1>3, MmSelf DEF MmType
<1>5. mm.alive /\ lookups[l].nsapi \in Nsapis /\ lookups[l].ti \in Tis
  BY DEF Inv, LookupsOwned
<1>6. Become(pdp, m) \/ sgsn_pdp_ctx_alloc(lookups[l].nsapi, lookups[l].ti, "dynamic", m)
  OBVIOUS
<1> HIDE DEF m
<1>7. /\ pdp' \in [Pctx -> PdpType]
      /\ mm' \in MmType
      /\ mm'.alive = m.alive /\ mm'.lookup = m.lookup /\ mm'.unreach = m.unreach
      /\ mm'.ran_type = m.ran_type /\ mm'.pmm = m.pmm
      /\ Listed' /\ Owned' /\ NsapiUnique'
      /\ \A p \in Pctx : Consistent(pdp'[p])
      /\ TunnelStep
  <2>1. CASE Become(pdp, m)
    BY <1>3, <1>4, <2>1, SameEvolved, BecomePart DEF Inv, TypeOK
  <2>2. CASE sgsn_pdp_ctx_alloc(lookups[l].nsapi, lookups[l].ti, "dynamic", m)
    <3>1. "dynamic" \in {"static", "dynamic"}
      OBVIOUS
    <3> QED
      BY <1>3, <1>4, <1>5, <2>2, <3>1, AllocPart
  <2> QED
    BY <1>6, <2>1, <2>2
<1>8. TypeOK'
  BY <1>2, <1>7 DEF Inv, TypeOK
<1>9. LookupsOwned'
  BY <1>1, <1>2, <1>4, <1>7 DEF Inv, LookupsOwned
<1>10. LookupPointerLive' /\ XferContextAlive' /\ UnreachableIdle'
  BY <1>4, <1>7 DEF Inv, LookupPointerLive, XferContextAlive, UnreachableIdle
<1>11. (\A p \in Pctx : Consistent(pdp[p]))'
  BY <1>7
<1> QED
  BY <1>7, <1>8, <1>9, <1>10, <1>11 DEF Inv

\* The resolver answers.
LEMMA LookupCbStep ==
  ASSUME Inv, NEW l \in LookupIds, NEW ok, ggsn_lookup_cb(l, ok)
  PROVE  Inv' /\ TunnelStep
<1> DEFINE k == lookups[l]
<1>0. k \in LookupType /\ UNCHANGED <<cfg, xfer, noted>>
  BY DEF Inv, TypeOK, ggsn_lookup_cb
<1>1. CASE k.mm = "null"
  <2>1. lookups' = [lookups EXCEPT ![l] = NoLookup] /\ UNCHANGED <<mm, pdp>>
    BY <1>1 DEF ggsn_lookup_cb
  <2>2. NoLookup \in LookupType /\ NoLookup.mm = "free"
    BY DEF NoLookup, LookupType
  <2> QED
    BY <1>0, <1>1, <2>1, <2>2, LookupOnlyStep
<1>2. CASE k.mm = "dangling"
  <2>1. lookups' = [lookups EXCEPT ![l] = [k EXCEPT !.mm = "used"]] /\ UNCHANGED <<mm, pdp>>
    BY <1>2 DEF ggsn_lookup_cb
  <2>2. [k EXCEPT !.mm = "used"] \in LookupType /\ [k EXCEPT !.mm = "used"].mm = "used"
    BY <1>0 DEF LookupType
  <2> QED
    BY <1>0, <1>2, <2>1, <2>2, LookupOnlyStep
<1>3. CASE k.mm = "linked" /\ ~ok /\ k.digits = 2
  <2> DEFINE e == [k EXCEPT !.digits = 3]
  <2>1. lookups' = [lookups EXCEPT ![l] = e] /\ UNCHANGED <<mm, pdp>>
    BY <1>3 DEF ggsn_lookup_cb
  <2>2. e \in LookupType /\ e.mm = k.mm /\ e.nsapi = k.nsapi /\ e.ti = k.ti
    BY <1>0 DEF LookupType
  <2> HIDE DEF e
  <2> QED
    BY <1>0, <1>3, <2>1, <2>2, LookupOnlyStep
<1>4. CASE k.mm = "linked" /\ ~ok /\ k.digits = 3
  BY <1>0, <1>4, LookupOverStep DEF ggsn_lookup_cb, LookupGivenUp
<1>5. CASE k.mm = "linked" /\ ok
  BY <1>0, <1>5, LookupOverStep DEF ggsn_lookup_cb
<1>6. \/ k.mm = "null" \/ k.mm = "dangling"
      \/ k.mm = "linked" /\ ~ok /\ k.digits = 2
      \/ k.mm = "linked" /\ ~ok /\ k.digits = 3
      \/ k.mm = "linked" /\ ok
  BY DEF ggsn_lookup_cb
<1> QED
  BY <1>1, <1>2, <1>3, <1>4, <1>5, <1>6
-----------------------------------------------------------------------------
(* The theorems.                                                           *)

\* The invariant holds at the start.
LEMMA InitInv == Init => Inv
<1> SUFFICES ASSUME Init PROVE Inv
  OBVIOUS
<1>1. mm = NoMm /\ \A p \in Pctx : pdp[p] = NoPdp
  BY DEF Init
<1>2. ~NoPdp.mm /\ ~NoMm.unreach /\ NoMm.lookup = NoId /\ NoMm.list = <<>>
  BY DEF NoPdp, NoMm
<1>3. NoLookup \in LookupType /\ NoLookup.mm = "free"
  BY DEF NoLookup, LookupType
<1>4. TypeOK
  <2>1. cfg \in ConfigType
    BY PdpAssumption DEF Init
  <2> QED
    BY <2>1, <1>3, NoMmType, NoPdpType DEF Init, TypeOK
<1>5. Listed
  BY <1>1, <1>2 DEF Listed, Range
<1>6. Owned /\ NsapiUnique /\ UnreachableIdle /\ LookupPointerLive
  BY <1>1, <1>2 DEF Owned, NsapiUnique, UnreachableIdle, LookupPointerLive, Attached
<1>7. LookupsOwned /\ XferContextAlive
  BY <1>3 DEF Init, LookupsOwned, XferContextAlive
<1>8. \A p \in Pctx : Consistent(pdp[p])
  BY <1>1, NoPdpConsistent
<1> QED
  BY <1>4, <1>5, <1>6, <1>7, <1>8 DEF Inv

\* Every input keeps the invariant, and moves the tunnels as PdpTunnel allows.
LEMMA NextInv == ASSUME Inv, Next PROVE Inv' /\ TunnelStep
<1>1. CASE MsInput
  BY <1>1, ActReqStep, DeactReqStep, DeactAckStep, StatusStep, MmAllocStep, RatChangeStep, GmmStateStep, MmFreeStep DEF MsInput
<1>2. CASE GgsnInput
  BY <1>2, CreateConfStep, UpdateConfStep, DeleteConfStep, DeleteIndStep, UpdateIndStep, EchoStep, RecoveryStep,
     LookupCbStep, ContextRequestStep, FinishStep DEF GgsnInput
<1>3. CASE IuInput
  BY <1>3, ConnectStep, PsAttachStep, PsEstablishStep, ReleaseStep, RncLossStep, RabStep DEF IuInput
<1>4. CASE TimerInput
  BY <1>4, TimerStep, UnreachableStep DEF TimerInput
<1> QED
  BY <1>1, <1>2, <1>3, <1>4 DEF Next

\* Nothing happens.
LEMMA StutterInv == ASSUME Inv, UNCHANGED vars PROVE Inv'
<1>1. UNCHANGED <<cfg, mm, pdp, lookups, xfer, noted>>
  BY DEF vars
<1>2. TypeOK' /\ (\A p \in Pctx : Consistent(pdp[p]))' /\ Listed' /\ Owned' /\ NsapiUnique'
  BY <1>1 DEF Inv, TypeOK, Listed, Owned, NsapiUnique
<1>3. LookupsOwned' /\ LookupPointerLive' /\ XferContextAlive' /\ UnreachableIdle'
  BY <1>1 DEF Inv, LookupsOwned, LookupPointerLive, XferContextAlive, UnreachableIdle
<1> QED
  BY <1>2, <1>3 DEF Inv

\* The invariant holds in every state.
LEMMA Invariance == Spec => []Inv
<1>1. Inv /\ [Next]_vars => Inv'
  BY NextInv, StutterInv
<1> QED
  BY InitInv, <1>1, PTL DEF Spec

\* Every variable keeps its type: a handler finds the contexts, the look-ups and the
\* transfer as it expects them, and T3395 never expires more often than T339X_MAX_RETRANS.
THEOREM TypeCorrect == Spec => []TypeOK
<1>1. Inv => TypeOK
  BY DEF Inv
<1> QED
  BY <1>1, Invariance, PTL

\* Whatever the order of answers, timeouts, restarts of the GGSN, messages of the MS and
\* losses of the RNC, a libgtp handle and its queued requests belong to a context that
\* exists and that has a GGSN: no callback of libgtp finds its cbp freed (sgsn_libgtp.c).
THEOREM HandlesOwned == Spec => []HandleHasGgsn
<1>1. Inv => HandleHasGgsn
  BY DEF Inv, Consistent, NoPdp, HandleHasGgsn
<1> QED
  BY <1>1, Invariance, PTL

\* The MM context never keeps a pointer to a look-up that the resolver has freed, for
\* every number of look-ups that replace each other (gprs_sm.c, ggsn_lookup_cb).
THEOREM LookupPointers == Spec => []LookupPointerLive
<1>1. Inv => LookupPointerLive
  BY DEF Inv
<1> QED
  BY <1>1, Invariance, PTL

\* An MS has at most one context per NSAPI, although a look-up lies between the test
\* of do_act_pdp_req and the creation of the context (gprs_sm.c, sgsn_create_pdp_ctx).
THEOREM OneContextPerNsapi == Spec => []NsapiUnique
<1>1. Inv => NsapiUnique
  BY DEF Inv
<1> QED
  BY <1>1, Invariance, PTL

\* T3395 and the CDR timer never run for a context that was freed or has lost its MM
\* context: pdpctx_timer_cb may follow pdp->mm (pdpctx.c, gprs_sm.c).
THEOREM TimersAttached == Spec => []TimersLive
<1>1. Inv => TimersLive
  BY InvFacts DEF Consistent, TimersLive
<1> QED
  BY <1>1, Invariance, PTL

\* A context whose GGSN side is gone is supervised by T3395 as long as it has an MM
\* context, for every T339X_MAX_RETRANS (gtp_ggsn.c, sgsn_ggsn_ctx_drop_pdp).
THEOREM ReleaseSupervision == Spec => []ReleasedSupervised
<1>1. Inv => ReleasedSupervised
  BY InvFacts DEF Consistent, ReleasedSupervised
<1> QED
  BY <1>1, Invariance, PTL

\* The unreachable timer runs in PMM-IDLE on Iu only and dies with the MM context,
\* whatever order release, RNC loss, RAN change and resumption come in (sgsn_pdp_gn.c).
THEOREM UnreachableTimer == Spec => []UnreachableIdle
<1>1. Inv => UnreachableIdle
  BY DEF Inv
<1> QED
  BY <1>1, Invariance, PTL

\* A context transfer that awaits its Ack never points to a freed MM context
\* (sgsn_gtp_ctx.c, ctx_xfer_purge_mm).
THEOREM TransferOwned == Spec => []XferContextAlive
<1>1. Inv => XferContextAlive
  BY DEF Inv
<1> QED
  BY <1>1, Invariance, PTL

\* Every behaviour of the session management is one that PdpTunnel allows, its liveness
\* aside: no input takes a tunnel back, one that is closing is never used again, and
\* a released one never gets a GGSN again.  After a crash of libgtp there is none.
THEOREM TunnelRefinement == Spec => Tunnel!SafeSpec
<1> DEFINE tunnel == [p \in Pctx |-> IF Running THEN TunnelOf(pdp[p]) ELSE "none"]
<1>1. Init => Tunnel!Init
  <2> SUFFICES ASSUME Init PROVE Tunnel!Init
    OBVIOUS
  <2>1. \A p \in Pctx : ~pdp[p].alloc
    BY DEF Init, NoPdp
  <2>2. \A p \in Pctx : TunnelOf(pdp[p]) = "none"
    BY <2>1 DEF TunnelOf
  <2> QED
    BY <2>2 DEF Tunnel!Init
<1>2. ASSUME Inv, Inv', Next, TunnelStep PROVE Tunnel!Next
  <2>1. Running
    BY <1>2 DEF Next
  <2>2. CASE ~Running'
    BY <2>2 DEF Tunnel!Next, Tunnel!Crash
  <2>3. CASE Running'
    <3>1. \A p \in Pctx : ~pdp'[p].segv
      BY <2>3 DEF Running
    <3>2. \A p \in Pctx : tunnel[p] = TunnelOf(pdp[p])
      BY <2>1
    <3>3. tunnel' = [p \in Pctx |-> TunnelOf(pdp'[p])]
      BY <2>3
    <3>4. ASSUME NEW p \in Pctx PROVE TunnelOf(pdp'[p]) \in Tunnel!States
      <4>1. Consistent(pdp'[p])
        BY <1>2 DEF Inv
      <4>2. pdp'[p] \in PdpType
        BY <4>1 DEF Consistent
      <4> QED
        BY <4>2, PdpSet DEF TunnelOf, Tunnel!States
    <3>5. \A p \in Pctx : TunnelOf(pdp'[p]) # TunnelOf(pdp[p]) => TunnelOf(pdp'[p]) \in Tunnel!Successors[TunnelOf(pdp[p])]
      BY <3>1, <1>2 DEF TunnelStep
    <3> QED
      BY <3>2, <3>3, <3>4, <3>5 DEF Tunnel!Next, Tunnel!Step
  <2> QED
    BY <2>2, <2>3
<1>3. UNCHANGED vars => UNCHANGED tunnel
  BY DEF vars, Running
<1>4. Inv /\ Inv' /\ [Next]_vars => [Tunnel!Next]_tunnel
  BY <1>2, <1>3, NextInv
<1> QED
  BY <1>1, <1>4, Invariance, PTL DEF Spec, Tunnel!SafeSpec
=============================================================================
