----------------------------- MODULE GmmContext -----------------------------
(***************************************************************************)
(* One GPRS Mobility Management context of the SGSN: the attach procedure  *)
(* FSM (gprs_gmm_attach.c), the GMM FSM (gprs_gmm_fsm.c), the Gb and Iu    *)
(* mobility FSMs, the authorisation layer (sgsn_auth.c), the subscriber    *)
(* record with its asynchronous HLR requests (gprs_subscriber.c), and the  *)
(* message, timer and Iu event handlers of gprs_gmm.c and gprs_ranap.c     *)
(* that drive them.                                                        *)
(*                                                                         *)
(* The SGSN is single threaded: the select loop delivers one input, and    *)
(* its handler runs to completion.  What makes it hard is that a handler   *)
(* dispatches FSM events synchronously, and those dispatch again, so that  *)
(* code resumes after a nested call has changed the state, or freed the    *)
(* context.  The model keeps that structure: stack is the C call stack,    *)
(* the first frame is what runs next, an input is taken only when stack is *)
(* empty, and a call followed by more code is a frame in front of a frame. *)
(*                                                                         *)
(* Message contents, GMM causes, P-TMSI/TLLI values and logging are        *)
(* abstracted.  The MS is one subscriber with one context at a time; the   *)
(* RAN type does not change (cfg.ran).                                     *)
(***************************************************************************)
EXTENDS Naturals, Sequences

CONSTANTS
  Configs,    \* configurations of the SGSN to consider
  MaxExpiry,  \* expirations of a retransmission timer before giving up (5)
  MaxVec,     \* authentication vectors in one Send Auth Info Result (5)
  MaxOut,     \* bound: no new input with this many HLR requests outstanding
  Sends       \* results a send may have: {TRUE}, or {TRUE, FALSE}

ASSUME ConstAssumption ==
  /\ Configs \subseteq [ran : {"Gb", "Iu"}, policy : {"open", "acl", "remote"},
                        listed : BOOLEAN, require_auth : BOOLEAN,
                        require_ul : BOOLEAN]
  /\ MaxExpiry \in Nat \ {0}
  /\ MaxVec \in Nat \ {0}
  /\ MaxOut \in Nat \ {0}
  /\ Sends \subseteq BOOLEAN

VARIABLES
  cfg,    \* sgsn->cfg and the RAN the MS uses
  mm,     \* struct sgsn_mm_ctx: identity, GMM state, MM or PMM state
  att,    \* the attach FSM: state, timer, request stored, identity, reattempt
  auth,   \* auth_state, sec_ctx, auth_triplet; whether the MS got its challenge
  leg,    \* mm->timer: which one runs, num_T_exp, t3370_id_type; pending_req
  iu,     \* the Iu connection of the UE
  sub,    \* struct gprs_subscr
  hlr,    \* requests the HLR has not answered yet
  stack,  \* call stack of the handler in progress: frames that use the context
  gsup,   \* what a GSUP handler does with the subscriber when they returned
  obs     \* history: AKA run and subscriber data received in this attach,
          \* dangling pointer uses

vars == <<cfg, mm, att, auth, leg, iu, sub, hlr, stack, gsup, obs>>

-----------------------------------------------------------------------------
(* States and types.                                                       *)

AttachStates == {"INIT", "IDENTIY", "AUTH", "ASK_VLR", "IU_SECURITY_CMD",
                 "ACCEPT", "REJECT"}
GmmStates == {"DEREGISTERED", "COMMON_PROC_INIT", "REGISTERED_NORMAL",
              "REGISTERED_SUSPENDED"}
MmStates == {"MM_IDLE", "MM_READY", "MM_STANDBY",
             "PMM_DETACHED", "PMM_CONNECTED", "PMM_IDLE"}
AuthStates == {"UNKNOWN", "AUTHENTICATE", "UMTS_RESYNC", "ACCEPTED", "REJECTED"}
IdTypes == {"NONE", "IMSI", "IMEI", "OTHER"}

\* An Attach Request: the stored one again, or one that gprs_gmm_msg_cmp tells
\* from it.
Reqs == {"same", "different"}

\* Functions that use the MM context, by their names or the event dispatched:
\* with an Attach Request, or without an argument that matters.
ReqFns == {"E_ATTACH_REQ_RECV", "st_init"}
PlainFns ==
  {"E_AUTH_RESP_RECV_SUCCESS", "E_AUTH_RESP_RECV_RESYNC",
   "E_IU_SECURITY_CMD_COMPLETE", "E_ATTACH_COMPLETE_RECV", "E_REJECT",
   "E_VLR_ANSWERED", "on_enter", "auth_reattempt++",
   "attach_proceed_after_auth", "sgsn_auth_request", "sgsn_auth_update",
   "gsm0408_gprs_authenticate", "gsm0408_gprs_access_granted",
   "gsm0408_gprs_access_denied", "gsm0408_gprs_access_cancelled",
   "gsm48_gmm_authorize", "gprs_gmm_mm_ctx_cleanup_free", "rnc_loss_release"}

Frame ==
  [fn : ReqFns, d : Reqs] \cup [fn : {"E_IDEN_RESP_RECV"}, d : IdTypes]
  \cup [fn : {"state_chg"}, d : AttachStates] \cup [fn : PlainFns, d : {"-"}]

Call(f) == [fn |-> f, d |-> "-"]
CallWith(f, x) == [fn |-> f, d |-> x]

MmType == [alive : BOOLEAN, imsi : BOOLEAN, imei : BOOLEAN,
           gmm : GmmStates, st : MmStates]
AttType == [st : AttachStates, timer : BOOLEAN, req : BOOLEAN,
            id : IdTypes, reatt : Nat]
Challenges == {"none", "current"}
AuthType == [state : AuthStates, sec : BOOLEAN, key : BOOLEAN, chal : Challenges]
LegTimers == {"off", "T3350", "T3360", "T3370"}
Expirations == 0..MaxExpiry
PendingReqs == {"none", "ATTACH", "RAU", "SERVICE"}
LegType == [T : LegTimers, n : Expirations, id : IdTypes, preq : PendingReqs]
IuType == [ue : BOOLEAN, smc : BOOLEAN, integ : BOOLEAN]
SubType == [ex : BOOLEAN, mm : BOOLEAN, aip : BOOLEAN, ulp : BOOLEAN,
            authz : BOOLEAN, err : BOOLEAN, upd : BOOLEAN, vec : Nat,
            purge : BOOLEAN, canc : BOOLEAN]
HlrType == [sai : Nat, ul : Nat, purge : Nat]
GsupType == {"idle", "cancel", "put"}
ObsType == [aka : BOOLEAN, loc : BOOLEAN, uaf : BOOLEAN, null : BOOLEAN]

TypeOK ==
  /\ cfg \in Configs
  /\ mm \in MmType
  /\ att \in AttType
  /\ auth \in AuthType
  /\ leg \in LegType
  /\ iu \in IuType
  /\ sub \in SubType
  /\ hlr \in HlrType
  /\ stack \in Seq(Frame)
  /\ gsup \in GsupType
  /\ obs \in ObsType

-----------------------------------------------------------------------------
(* Initial values: no context, no subscriber.                              *)

NoMm == [alive |-> FALSE, imsi |-> FALSE, imei |-> FALSE,
         gmm |-> "DEREGISTERED",
         st |-> IF cfg.ran = "Gb" THEN "MM_IDLE" ELSE "PMM_DETACHED"]
NewAtt == [st |-> "INIT", timer |-> FALSE, req |-> FALSE, id |-> "NONE", reatt |-> 0]
NewAuth == [state |-> "UNKNOWN", sec |-> FALSE, key |-> FALSE, chal |-> "none"]
NewLeg == [T |-> "off", n |-> 0, id |-> "NONE", preq |-> "none"]
NoIu == [ue |-> FALSE, smc |-> FALSE, integ |-> FALSE]
NoSub == [ex |-> FALSE, mm |-> FALSE, aip |-> FALSE, ulp |-> FALSE,
          authz |-> FALSE, err |-> FALSE, upd |-> FALSE, vec |-> 0,
          purge |-> FALSE, canc |-> FALSE]

Init ==
  /\ cfg \in Configs
  /\ mm = NoMm
  /\ att = NewAtt
  /\ auth = NewAuth
  /\ leg = NewLeg
  /\ iu = NoIu
  /\ sub = NoSub
  /\ hlr = [sai |-> 0, ul |-> 0, purge |-> 0]
  /\ stack = <<>>
  /\ gsup = "idle"
  /\ obs = [aka |-> FALSE, loc |-> FALSE, uaf |-> FALSE, null |-> FALSE]

-----------------------------------------------------------------------------
(* The call stack.                                                         *)

Quiet == stack = <<>> /\ gsup = "idle"
Running(f) == stack # <<>> /\ Head(stack).fn = f
Data == Head(stack).d
Return == stack' = Tail(stack)
Do(calls) == stack' = calls \o Tail(stack)

\* An input is taken when no handler runs; the bound keeps the number of
\* outstanding HLR requests finite.
Input == Quiet /\ hlr.sai + hlr.ul + hlr.purge < MaxOut

Gb == cfg.ran = "Gb"
Remote == cfg.policy = "remote"
Pending == sub.aip \/ sub.ulp

\* gsm48_gmm_sendmsg: nothing can be sent on Iu without a UE context.
TxResults == IF ~Gb /\ ~iu.ue THEN {FALSE} ELSE Sends

-----------------------------------------------------------------------------
(* The authorisation layer's view of a context.                            *)

\* Local policies: open, or a check of the IMSI against the access list and,
\* under the policy closed, against the home network ("acl" stands for both).
LocalAuthState ==
  IF cfg.policy = "open" THEN "ACCEPTED"
  ELSE IF ~mm.imsi THEN "UNKNOWN"
  ELSE IF cfg.listed THEN "ACCEPTED" ELSE "REJECTED"

\* Mutant: a subscriber that may attach is not authenticated.
RemoteAuthState_AuthorizedFirst ==
  IF ~sub.mm \/ Pending THEN auth.state
  ELSE IF sub.authz THEN "ACCEPTED"
  ELSE IF sub.err THEN "REJECTED"
  ELSE IF cfg.require_auth /\ (~auth.sec \/ sub.upd) THEN "AUTHENTICATE" ELSE "REJECTED"

\* What the subscriber record says; while the HLR has not answered it says
\* nothing new.
RemoteAuthState ==
  IF ~sub.mm \/ Pending THEN auth.state
  ELSE IF sub.err /\ ~sub.authz THEN "REJECTED"
  ELSE IF cfg.require_auth /\ (~auth.sec \/ sub.upd) THEN "AUTHENTICATE"
  ELSE IF sub.authz THEN "ACCEPTED" ELSE "REJECTED"

SgsnAuthState == IF Remote THEN RemoteAuthState ELSE LocalAuthState

AttachNeedsUpdateLocation ==
  /\ Remote
  /\ cfg.require_ul
  /\ ~sub.mm \/ sub.ulp \/ ~sub.authz

\* sgsn_auth_get_tuple: take an unused vector; the answer to a challenge with
\* the vector used before does not match it.
TakeTuple == [auth EXCEPT !.key = TRUE, !.chal = "none"]

\* key_seq = GSM_KEY_SEQ_INVAL: no answer is compared with the vector.
NoVector(a) == [a EXCEPT !.key = FALSE, !.chal = "none"]

-----------------------------------------------------------------------------
(* The attach FSM.                                                         *)

\* gprs_gmm_mm_timer_stop_all: the FSM has a timer of its own.
TimerStopAll(l) == [l EXCEPT !.T = "off"]

\* Mutant: out_state_mask of Authenticate without AskVLR.
OutStates_NoAskVlr(s) ==
  CASE s = "INIT" -> {"INIT", "IDENTIY", "AUTH", "ACCEPT"}
    [] s = "IDENTIY" -> {"INIT", "AUTH", "ACCEPT", "IDENTIY", "REJECT"}
    [] s = "AUTH" -> {"INIT", "AUTH", "IU_SECURITY_CMD", "ACCEPT", "REJECT"}
    [] s = "ACCEPT" -> {"INIT", "REJECT"}
    [] s = "REJECT" -> {"INIT"}
    [] OTHER -> {"INIT", "AUTH", "IU_SECURITY_CMD", "ACCEPT", "REJECT", "ASK_VLR"}

\* out_state_mask of every state.
OutStates(s) ==
  CASE s = "INIT" -> {"INIT", "IDENTIY", "AUTH", "ACCEPT"}
    [] s = "IDENTIY" -> {"INIT", "AUTH", "ACCEPT", "IDENTIY", "REJECT"}
    [] s = "AUTH" -> {"INIT", "AUTH", "IU_SECURITY_CMD", "ACCEPT", "ASK_VLR", "REJECT"}
    [] s = "ASK_VLR" -> {"INIT", "AUTH", "IU_SECURITY_CMD", "ACCEPT", "REJECT", "ASK_VLR"}
    [] s = "IU_SECURITY_CMD" ->
         {"INIT", "AUTH", "ACCEPT", "REJECT", "ASK_VLR", "IU_SECURITY_CMD"}
    [] s = "ACCEPT" -> {"INIT", "REJECT"}
    [] s = "REJECT" -> {"INIT"}

\* osmo_fsm_inst_state_chg to a state with a timer: refused without a change
\* when the mask does not allow it.
StateChg ==
  /\ Running("state_chg")
  /\ IF Data \in OutStates(att.st)
     THEN /\ att' = [att EXCEPT !.st = Data, !.timer = TRUE]
          /\ Do(<<Call("on_enter")>>)
     ELSE Return /\ UNCHANGED att
  /\ UNCHANGED <<cfg, gsup, mm, auth, leg, iu, sub, hlr, obs>>

StInit ==
  /\ Running("st_init")
  /\ att' = [att EXCEPT !.req = TRUE, !.reatt = 0, !.id = "IMEI"]
  /\ auth' = [NoVector(auth) EXCEPT !.state = "UNKNOWN", !.sec = FALSE]
  /\ leg' = [TimerStopAll(leg) EXCEPT !.preq = "ATTACH"]
  /\ obs' = [obs EXCEPT !.aka = FALSE, !.loc = FALSE, !.uaf = FALSE]
  /\ Do(<<CallWith("state_chg", "IDENTIY")>>)
  /\ UNCHANGED <<cfg, gsup, mm, iu, sub, hlr>>

IdentityOnEnter ==
  /\ Running("on_enter") /\ att.st = "IDENTIY"
  /\ IF att.id \in {"IMEI", "IMSI"}
     THEN /\ leg' = [leg EXCEPT !.n = 0, !.id = att.id]
          /\ \E ok \in TxResults : IF ok THEN Return ELSE Do(<<Call("E_REJECT")>>)
     ELSE /\ leg' = [leg EXCEPT !.n = 0]
          /\ Do(<<Call("E_REJECT")>>)
  /\ UNCHANGED <<cfg, gsup, mm, att, auth, iu, sub, hlr, obs>>

\* The state st_auth_on_enter acts on: with a remote HLR the cached one.
AuthStateOnEnter == IF Remote THEN auth.state ELSE SgsnAuthState

AuthOnEnter ==
  /\ Running("on_enter") /\ att.st = "AUTH"
  /\ leg' = [leg EXCEPT !.n = 0]
  /\ \/ /\ \/ AuthStateOnEnter \in {"UMTS_RESYNC", "UNKNOWN"}
           \/ AuthStateOnEnter = "AUTHENTICATE" /\ ~auth.key
        /\ Do(<<CallWith("state_chg", "ASK_VLR")>>)
        /\ UNCHANGED <<att, auth>>
     \/ /\ AuthStateOnEnter = "REJECTED"
        /\ Do(<<Call("E_REJECT")>>)
        /\ UNCHANGED <<att, auth>>
     \/ /\ AuthStateOnEnter = "ACCEPTED"
        /\ Do(<<CallWith("state_chg", "ACCEPT")>>)
        /\ UNCHANGED <<att, auth>>
     \/ /\ AuthStateOnEnter = "AUTHENTICATE" /\ auth.key
        /\ \E ok \in TxResults :
             IF ok THEN /\ auth' = [auth EXCEPT !.chal = "current"]
                        /\ att' = [att EXCEPT !.reatt = @ + 1]
                        /\ Return
             ELSE /\ Do(<<Call("E_REJECT"), Call("auth_reattempt++")>>)
                  /\ UNCHANGED <<att, auth>>
  /\ UNCHANGED <<cfg, gsup, mm, iu, sub, hlr, obs>>

\* Waiting for the HLR; after AUTS the request was already sent.
AskVlrOnEnter ==
  /\ Running("on_enter") /\ att.st = "ASK_VLR"
  /\ IF auth.state = "UMTS_RESYNC" THEN Return ELSE Do(<<Call("sgsn_auth_request")>>)
  /\ UNCHANGED <<cfg, gsup, mm, att, auth, leg, iu, sub, hlr, obs>>

IuSecurityCmdOnEnter ==
  /\ Running("on_enter") /\ att.st = "IU_SECURITY_CMD"
  /\ IF iu.integ
     THEN Do(<<CallWith("state_chg", "ACCEPT")>>) /\ UNCHANGED iu
     ELSE Return /\ iu' = [iu EXCEPT !.smc = TRUE]
  /\ obs' = [obs EXCEPT !.null = @ \/ ~iu.ue]
  /\ UNCHANGED <<cfg, gsup, mm, att, auth, leg, sub, hlr>>

\* The Attach Accept is sent here.
AcceptOnEnter ==
  /\ Running("on_enter") /\ att.st = "ACCEPT"
  /\ leg' = [TimerStopAll(leg) EXCEPT !.n = 0, !.preq = "none"]
  /\ obs' = [obs EXCEPT !.loc = FALSE]
  /\ Return
  /\ UNCHANGED <<cfg, gsup, mm, att, auth, iu, sub, hlr>>

\* Mutant: integrity protection is not looked at.
NeedsIuSecurity_Never == FALSE

NeedsIuSecurity == ~Gb /\ iu.ue /\ ~iu.integ

AttachProceedAfterAuth ==
  /\ Running("attach_proceed_after_auth")
  /\ IF NeedsIuSecurity
     THEN IF att.st # "IU_SECURITY_CMD"
          THEN Do(<<CallWith("state_chg", "IU_SECURITY_CMD")>>) ELSE Return
     ELSE Do(<<CallWith("state_chg",
                        IF AttachNeedsUpdateLocation THEN "ASK_VLR" ELSE "ACCEPT")>>)
  /\ UNCHANGED <<cfg, gsup, mm, att, auth, leg, iu, sub, hlr, obs>>

\* E_ATTACH_REQ_RECV is handled in every state; a procedure in progress is
\* restarted only by a request that differs from the stored one.
Restarts(m) ==
  \/ att.st \in {"INIT", "REJECT", "ACCEPT"}
  \/ att.st \in {"ASK_VLR", "AUTH", "IDENTIY"} /\ att.req /\ m = "different"

EvAttachReq ==
  /\ Running("E_ATTACH_REQ_RECV")
  /\ IF Restarts(Data)
     THEN /\ att' = [att EXCEPT !.st = IF @ = "REJECT" THEN @ ELSE "INIT",
                                !.timer = FALSE]
          /\ Do(<<CallWith("st_init", Data)>>)
     ELSE Return /\ UNCHANGED att
  /\ UNCHANGED <<cfg, gsup, mm, auth, leg, iu, sub, hlr, obs>>

\* E_REJECT ends the FSM and frees the context, whatever the state.
EvReject ==
  /\ Running("E_REJECT")
  /\ att' = [att EXCEPT !.st = IF "REJECT" \in OutStates(@) THEN "REJECT" ELSE @,
                        !.timer = FALSE, !.req = FALSE]
  /\ leg' = TimerStopAll(leg)
  /\ Do(<<Call("gprs_gmm_mm_ctx_cleanup_free")>>)
  /\ UNCHANGED <<cfg, gsup, mm, auth, iu, sub, hlr, obs>>

\* Mutant: the IMEI is enough.
MustAskImsi_Never(type) == FALSE

\* Mutant: the IMSI is asked for again although the MS gave it.
MustAskImsi_Always(type) == TRUE

\* The IMEI is asked first; the IMSI only if the MS did not give it.
MustAskImsi(type) == type = "IMEI" /\ ~mm.imsi

EvIdenResp ==
  /\ Running("E_IDEN_RESP_RECV")
  /\ IF att.st # "IDENTIY" THEN Return /\ UNCHANGED att
     ELSE IF Data = "OTHER" THEN Do(<<Call("E_REJECT")>>) /\ UNCHANGED att
     ELSE IF Data # att.id THEN Return /\ UNCHANGED att
     ELSE IF MustAskImsi(Data)
          THEN /\ att' = [att EXCEPT !.id = "IMSI"]
               /\ Do(<<CallWith("state_chg", "IDENTIY")>>)
          ELSE Do(<<CallWith("state_chg", "AUTH")>>) /\ UNCHANGED att
  /\ UNCHANGED <<cfg, gsup, mm, auth, leg, iu, sub, hlr, obs>>

EvAuthSuccess ==
  /\ Running("E_AUTH_RESP_RECV_SUCCESS")
  /\ IF att.st = "AUTH"
     THEN Do(<<Call("sgsn_auth_request"), Call("attach_proceed_after_auth")>>)
     ELSE Return
  /\ UNCHANGED <<cfg, gsup, mm, att, auth, leg, iu, sub, hlr, obs>>

ResyncAllowed == att.reatt <= 1

EvAuthResync ==
  /\ Running("E_AUTH_RESP_RECV_RESYNC")
  /\ IF ResyncAllowed THEN Do(<<CallWith("state_chg", "ASK_VLR")>>)
                      ELSE Do(<<Call("E_REJECT")>>)
  /\ UNCHANGED <<cfg, gsup, mm, att, auth, leg, iu, sub, hlr, obs>>

\* Ignored in IDENTIY and INIT, without effect in IU_SECURITY_CMD and ACCEPT.
EvVlrAnswered ==
  /\ Running("E_VLR_ANSWERED")
  /\ IF att.st \in {"AUTH", "ASK_VLR"} /\ auth.sec
     THEN Do(<<Call("attach_proceed_after_auth")>>)
     ELSE IF att.st = "ASK_VLR" THEN Do(<<CallWith("state_chg", "AUTH")>>)
     ELSE Return
  /\ UNCHANGED <<cfg, gsup, mm, att, auth, leg, iu, sub, hlr, obs>>

EvIuSecurityCmdComplete ==
  /\ Running("E_IU_SECURITY_CMD_COMPLETE")
  /\ IF att.st = "IU_SECURITY_CMD" THEN Do(<<Call("attach_proceed_after_auth")>>)
                                   ELSE Return
  /\ UNCHANGED <<cfg, gsup, mm, att, auth, leg, iu, sub, hlr, obs>>

\* The stored request and id_type are not read again before st_init sets them.
EvAttachComplete ==
  /\ Running("E_ATTACH_COMPLETE_RECV")
  /\ att' = IF att.st = "ACCEPT" THEN [NewAtt EXCEPT !.reatt = att.reatt] ELSE att
  /\ Return
  /\ UNCHANGED <<cfg, gsup, mm, auth, leg, iu, sub, hlr, obs>>

AttachFsmStep ==
  \/ StateChg \/ StInit \/ IdentityOnEnter \/ AuthOnEnter \/ AskVlrOnEnter
  \/ IuSecurityCmdOnEnter \/ AcceptOnEnter \/ AttachProceedAfterAuth
  \/ EvAttachReq \/ EvReject \/ EvIdenResp \/ EvAuthSuccess \/ EvAuthResync
  \/ EvVlrAnswered \/ EvIuSecurityCmdComplete \/ EvAttachComplete


-----------------------------------------------------------------------------
(* The authorisation layer (sgsn_auth.c) and its callbacks in gprs_gmm.c.  *)

LinkedSub == [sub EXCEPT !.ex = TRUE, !.mm = TRUE]

\* Mutant: the location is updated only for a new subscriber.
NeedUpdateLocation_NewOnly == cfg.require_ul /\ ~sub.mm

\* Evaluated before sgsn_auth_request links the subscriber.
NeedUpdateLocation == cfg.require_ul /\ (~sub.mm \/ leg.preq = "ATTACH")

FreshAttach == leg.preq = "ATTACH"

\* Mutant: nobody looks whether a vector is stored.
MustFetchVectors_AttachOnly == cfg.require_auth /\ ~auth.sec /\ FreshAttach

\* An attach always asks the HLR, anything else may use a stored vector.
MustFetchVectors == cfg.require_auth /\ ~auth.sec /\ (FreshAttach \/ sub.vec = 0)

\* gprs_subscr_reset_auth_triplets
ResetAuthTriplets(b) == [b EXCEPT !.vec = 0, !.upd = FALSE, !.aip = FALSE]

AuthRequest ==
  /\ Running("sgsn_auth_request")
  /\ \/ /\ ~Remote \/ (sub.err /\ ~sub.authz)
        /\ sub' = IF Remote THEN LinkedSub ELSE sub
        /\ Do(<<Call("sgsn_auth_update")>>)
        /\ UNCHANGED <<auth, hlr>>
     \/ /\ Remote /\ ~(sub.err /\ ~sub.authz)
        /\ MustFetchVectors
        /\ auth' = [NoVector(auth) EXCEPT !.sec = FALSE]
        /\ \E ok \in Sends :
             /\ sub' = [(IF FreshAttach THEN ResetAuthTriplets(LinkedSub) ELSE LinkedSub)
                         EXCEPT !.aip = ok]
             /\ hlr' = IF ok THEN [hlr EXCEPT !.sai = @ + 1] ELSE hlr
        /\ Return
     \/ /\ Remote /\ ~(sub.err /\ ~sub.authz)
        /\ ~MustFetchVectors
        /\ LET take == cfg.require_auth /\ ~auth.sec
               b == [LinkedSub EXCEPT !.vec = IF take THEN @ - 1 ELSE @]
           IN /\ auth' = IF take THEN TakeTuple ELSE auth
              /\ IF NeedUpdateLocation /\ ~sub.ulp
                 THEN /\ sub' = [b EXCEPT !.ulp = TRUE]
                      /\ \E ok \in Sends :
                           hlr' = IF ok THEN [hlr EXCEPT !.ul = @ + 1] ELSE hlr
                      /\ Return
                 ELSE /\ sub' = b
                      /\ Do(<<Call("sgsn_auth_update")>>)
                      /\ UNCHANGED hlr
  /\ UNCHANGED <<cfg, mm, att, leg, iu, gsup, obs>>

\* The end of sgsn_auth_update: only a change of the state has an effect.
SetAuthState(a, b, s) ==
  /\ auth' = [a EXCEPT !.state = s]
  /\ IF s = auth.state
     THEN Return /\ sub' = b
     ELSE /\ sub' = IF s = "AUTHENTICATE" THEN [b EXCEPT !.upd = FALSE] ELSE b
          /\ CASE s = "AUTHENTICATE" -> Do(<<Call("gsm0408_gprs_authenticate")>>)
               [] s = "ACCEPTED" -> Do(<<Call("gsm0408_gprs_access_granted")>>)
               [] s = "REJECTED" ->
                    Do(<<Call(IF sub.canc THEN "gsm0408_gprs_access_cancelled"
                                          ELSE "gsm0408_gprs_access_denied")>>)
               [] OTHER -> Return

\* Without information and without a request under way there is nothing to
\* wait for.
UpdatedAuthState ==
  IF SgsnAuthState = "UNKNOWN" /\ sub.mm /\ ~Pending THEN "REJECTED" ELSE SgsnAuthState

NeedsTuple == UpdatedAuthState = "AUTHENTICATE" /\ ~auth.key
MayAskForTuples == cfg.require_auth /\ sub.mm /\ ~sub.aip /\ ~sub.err

AuthUpdate ==
  /\ Running("sgsn_auth_update")
  /\ \/ /\ ~NeedsTuple
        /\ SetAuthState(auth, sub, UpdatedAuthState)
        /\ UNCHANGED hlr
     \/ /\ NeedsTuple /\ sub.mm /\ sub.vec > 0
        /\ SetAuthState(TakeTuple, [sub EXCEPT !.vec = @ - 1], "AUTHENTICATE")
        /\ UNCHANGED hlr
     \/ /\ NeedsTuple /\ ~(sub.mm /\ sub.vec > 0) /\ ~MayAskForTuples
        /\ SetAuthState(auth, sub, "REJECTED")
        /\ UNCHANGED hlr
     \/ /\ NeedsTuple /\ ~(sub.mm /\ sub.vec > 0) /\ MayAskForTuples
        /\ \E ok \in Sends :
             IF ok THEN /\ auth' = [auth EXCEPT !.sec = FALSE]
                        /\ sub' = [sub EXCEPT !.aip = TRUE]
                        /\ hlr' = [hlr EXCEPT !.sai = @ + 1]
                        /\ Return
             ELSE /\ SetAuthState([auth EXCEPT !.sec = FALSE], sub, "REJECTED")
                  /\ UNCHANGED hlr
  /\ UNCHANGED <<cfg, mm, att, leg, iu, gsup, obs>>

GprsAuthenticate ==
  /\ Running("gsm0408_gprs_authenticate")
  /\ auth' = [auth EXCEPT !.sec = FALSE]
  /\ Do(<<Call(IF att.st # "INIT" THEN "E_VLR_ANSWERED" ELSE "gsm48_gmm_authorize")>>)
  /\ UNCHANGED <<cfg, mm, att, leg, iu, sub, hlr, gsup, obs>>

AccessGranted ==
  /\ Running("gsm0408_gprs_access_granted")
  /\ IF mm.gmm = "COMMON_PROC_INIT" /\ att.st # "INIT"
     THEN Do(<<Call("E_VLR_ANSWERED")>>) ELSE Return
  /\ UNCHANGED <<cfg, mm, att, auth, leg, iu, sub, hlr, gsup, obs>>

AccessDenied ==
  /\ Running("gsm0408_gprs_access_denied")
  /\ IF mm.gmm # "COMMON_PROC_INIT" THEN Do(<<Call("gprs_gmm_mm_ctx_cleanup_free")>>)
     ELSE IF att.st # "INIT" THEN Do(<<Call("E_REJECT")>>) ELSE Return
  /\ UNCHANGED <<cfg, mm, att, auth, leg, iu, sub, hlr, gsup, obs>>

AccessCancelled ==
  /\ Running("gsm0408_gprs_access_cancelled")
  /\ Do(<<Call(IF sub.err THEN "gsm0408_gprs_access_denied"
                          ELSE "gprs_gmm_mm_ctx_cleanup_free")>>)
  /\ UNCHANGED <<cfg, mm, att, auth, leg, iu, sub, hlr, gsup, obs>>

\* Mutant: mmctx_timer_start does not look at the attach FSM.
AttachFsmOwnsTimer_Never == FALSE

\* mmctx_timer_start: refused while the attach FSM owns the timers.
AttachFsmOwnsTimer == att.st # "INIT"
TimerStart(l, t) ==
  IF AttachFsmOwnsTimer THEN l ELSE [l EXCEPT !.T = t, !.n = 0]

\* E_PMM_PS_CONN_ESTABLISH and E_PMM_RA_UPDATE
PmmConnect(st) == IF st = "PMM_IDLE" THEN "PMM_CONNECTED" ELSE st

\* gsm48_gmm_authorize: ask for what is missing, else answer the request
\* in pending_req.
GmmAuthorize ==
  /\ Running("gsm48_gmm_authorize")
  /\ \/ /\ ~mm.imei \/ ~mm.imsi
        /\ leg' = [TimerStart(leg, "T3370") EXCEPT !.id = IF mm.imei THEN "IMSI" ELSE "IMEI"]
        /\ Return
        /\ UNCHANGED <<mm, auth, iu, obs>>
     \/ /\ mm.imei /\ mm.imsi
        /\ \/ auth.state = "UNKNOWN"
           \/ auth.state = "AUTHENTICATE" /\ auth.sec /\ auth.key
        /\ leg' = [leg EXCEPT !.id = "NONE"]
        /\ Do(<<Call("sgsn_auth_request")>>)
        /\ UNCHANGED <<mm, auth, iu, obs>>
     \/ /\ mm.imei /\ mm.imsi
        /\ auth.state = "AUTHENTICATE" /\ ~auth.sec
        /\ leg' = [TimerStart(leg, "T3360") EXCEPT !.id = "NONE"]
        /\ \E ok \in TxResults : auth' = [auth EXCEPT !.chal = IF ok THEN "current" ELSE @]
        /\ Return
        /\ UNCHANGED <<mm, iu, obs>>
     \/ /\ mm.imei /\ mm.imsi
        /\ \/ auth.state \in {"REJECTED", "UMTS_RESYNC"}
           \/ auth.state = "AUTHENTICATE" /\ auth.sec /\ ~auth.key
        /\ leg' = [leg EXCEPT !.id = "NONE"]
        /\ Return
        /\ UNCHANGED <<mm, auth, iu, obs>>
     \/ /\ mm.imei /\ mm.imsi
        /\ auth.state = "ACCEPTED" /\ ~Gb /\ ~iu.integ
        /\ leg' = [leg EXCEPT !.id = "NONE"]
        /\ iu' = [iu EXCEPT !.smc = TRUE]
        /\ obs' = [obs EXCEPT !.null = @ \/ ~iu.ue]
        /\ Return
        /\ UNCHANGED <<mm, auth>>
     \/ /\ mm.imei /\ mm.imsi
        /\ auth.state = "ACCEPTED" /\ (Gb \/ iu.integ)
        /\ leg' = IF leg.preq = "ATTACH" /\ att.st = "INIT"
                  THEN [TimerStart(leg, "T3350") EXCEPT !.id = "NONE", !.preq = "none"]
                  ELSE [leg EXCEPT !.id = "NONE", !.preq = "none"]
        /\ mm' = IF leg.preq = "SERVICE" THEN [mm EXCEPT !.st = PmmConnect(@)] ELSE mm
        /\ Return
        /\ UNCHANGED <<auth, iu, obs>>
  /\ UNCHANGED <<cfg, att, sub, hlr, gsup>>

AuthStep ==
  \/ AuthRequest \/ AuthUpdate \/ GprsAuthenticate \/ AccessGranted
  \/ AccessDenied \/ AccessCancelled \/ GmmAuthorize

-----------------------------------------------------------------------------
(* The end of a context, and of a GSUP handler.                            *)

\* Mutant: the subscriber keeps its pointer to the context.
Unlinked_Dangling(b) == IF gsup = "idle" THEN NoSub ELSE [b EXCEPT !.purge = FALSE]

\* Mutant: the context does not drop its reference.
Unlinked_Leak(b) == [b EXCEPT !.mm = FALSE, !.purge = FALSE]

\* The subscriber when its context lets go of it: freed, unless the GSUP
\* handler in progress still holds a reference.
Unlinked(b) ==
  IF gsup = "idle" THEN NoSub ELSE [b EXCEPT !.mm = FALSE, !.purge = FALSE]

\* gprs_gmm_mm_ctx_cleanup_free.  Frames that are left on the stack go on
\* with a context that no longer exists; the model drops them and remembers.
\* E_REJECT always ends here, so "auth_reattempt++" (the rest of
\* st_auth_on_enter after a failed send) never gets to run.
CleanupFree ==
  /\ Running("gprs_gmm_mm_ctx_cleanup_free")
  /\ mm' = NoMm /\ att' = NewAtt /\ auth' = NewAuth /\ leg' = NewLeg /\ iu' = NoIu
  /\ sub' = IF sub.mm THEN Unlinked(sub) ELSE sub
  /\ \E ok \in Sends :
       hlr' = IF sub.mm /\ sub.purge /\ ok THEN [hlr EXCEPT !.purge = @ + 1] ELSE hlr
  /\ stack' = <<>>
  /\ obs' = [obs EXCEPT !.aka = FALSE, !.loc = FALSE, !.uaf = Len(stack) > 1]
  /\ UNCHANGED <<cfg, gsup>>

\* E_PMM_PS_CONN_RELEASE
PmmRelease(st) == IF st = "PMM_CONNECTED" THEN "PMM_IDLE" ELSE st

\* The rest of sgsn_mm_iu_handle_rnc_loss, when there was no attach to abort.
RncLossRelease ==
  /\ Running("rnc_loss_release")
  /\ mm' = [mm EXCEPT !.st = PmmRelease(@)]
  /\ iu' = NoIu
  /\ Return
  /\ UNCHANGED <<cfg, att, auth, leg, sub, hlr, gsup, obs>>

\* gprs_subscr_cancel, after the context was told: gprs_subscr_cleanup
\* takes the subscriber away from a context that is still there.
SubscrCleanup ==
  /\ stack = <<>> /\ gsup = "cancel"
  /\ sub' = [sub EXCEPT !.mm = FALSE]
  /\ gsup' = "put"
  /\ UNCHANGED <<cfg, mm, att, auth, leg, iu, hlr, stack, obs>>

\* gprs_subscr_put at the end of gprs_subscr_rx_gsup_message
SubscrPut ==
  /\ stack = <<>> /\ gsup = "put"
  /\ sub' = IF sub.mm THEN sub ELSE NoSub
  /\ gsup' = "idle"
  /\ UNCHANGED <<cfg, mm, att, auth, leg, iu, hlr, stack, obs>>

EndStep == CleanupFree \/ RncLossRelease \/ SubscrCleanup \/ SubscrPut

HandlerStep == AttachFsmStep \/ AuthStep \/ EndStep

-----------------------------------------------------------------------------
(* GMM messages from the MS.                                               *)

\* The message finds the context: by TLLI on Gb, by UE context on Iu.
Rx == Input /\ mm.alive /\ (Gb \/ iu.ue)

\* E_MM_PDU_RECEPTION: every Gb PDU ends Standby.
Heard(m) == [m EXCEPT !.st = IF @ = "MM_STANDBY" THEN "MM_READY" ELSE @]

\* A message on a new Iu connection: msgid2mmctx replaces the UE context.
Connection(newconn) ==
  IF ~Gb /\ (newconn \/ ~iu.ue) THEN [ue |-> TRUE, smc |-> FALSE, integ |-> FALSE] ELSE iu

\* The MS identifies itself by IMSI (known) or by P-TMSI; ptmsi_update
\* starts the common procedure.
RxAttachReq(m, known, newconn) ==
  /\ Input
  /\ mm' = Heard([mm EXCEPT !.alive = TRUE, !.gmm = "COMMON_PROC_INIT",
                            !.imsi = IF mm.alive THEN @ ELSE known])
  /\ iu' = Connection(newconn)
  /\ stack' = <<CallWith("E_ATTACH_REQ_RECV", m)>>
  /\ UNCHANGED <<cfg, att, auth, leg, sub, hlr, gsup, obs>>

\* Inputs that end the context: an Attach or RA Update Request that is
\* refused, a Detach Request or Accept, the LLME or the operator giving up.
Drop ==
  /\ stack' = <<Call("gprs_gmm_mm_ctx_cleanup_free")>>
  /\ UNCHANGED <<cfg, mm, att, auth, leg, iu, sub, hlr, gsup, obs>>

RxAttachReqRefused == Input /\ mm.alive /\ Drop
RxRauReqRefused == Input /\ mm.alive /\ Drop
RxDetach == Rx /\ Drop
AccessCancelledByOperator == Input /\ mm.alive /\ Drop

\* A response is only expected while t3370_id_type says so.
RxIdResp(type) ==
  /\ Rx /\ leg.id # "NONE"
  /\ leg' = IF type = leg.id THEN TimerStopAll(leg) ELSE leg
  /\ mm' = Heard([mm EXCEPT !.imsi = @ \/ type = "IMSI", !.imei = @ \/ type = "IMEI"])
  /\ stack' = <<CallWith("E_IDEN_RESP_RECV", type)>>
  /\ UNCHANGED <<cfg, att, auth, iu, sub, hlr, gsup, obs>>

\* Only the stored vector and the reference number are looked at.  The MS can
\* answer correctly if it was challenged with the vector that is stored.
RxAuthCiphResp(good) ==
  /\ Rx /\ auth.key
  /\ leg' = TimerStopAll(leg)
  /\ mm' = Heard([mm EXCEPT !.imei = TRUE])
  /\ auth' = [auth EXCEPT !.sec = good /\ auth.chal = "current"]
  /\ obs' = [obs EXCEPT !.aka = @ \/ (good /\ auth.chal = "current")]
  /\ stack' = <<Call(IF good /\ auth.chal = "current" THEN "E_AUTH_RESP_RECV_SUCCESS"
                     ELSE "gprs_gmm_mm_ctx_cleanup_free")>>
  /\ UNCHANGED <<cfg, att, iu, sub, hlr, gsup>>

\* A response without its mandatory IEs: the timer is stopped all the same.
RxAuthCiphRespMalformed ==
  /\ Rx /\ auth.key
  /\ leg' = TimerStopAll(leg)
  /\ mm' = Heard(mm)
  /\ UNCHANGED <<cfg, att, auth, iu, sub, hlr, stack, gsup, obs>>

\* Synchronisation failure with AUTS goes to the HLR, any other failure
\* ends the context.  Nobody asks whether a challenge was sent, or whether the
\* policy is to challenge at all.
RxAuthCiphFail(auts) ==
  /\ Rx
  /\ mm' = Heard(mm)
  /\ IF auts
     THEN /\ auth' = [NoVector(auth) EXCEPT !.state = "UMTS_RESYNC"]
          /\ \E ok \in Sends :
               /\ sub' = [LinkedSub EXCEPT !.aip = ok]
               /\ hlr' = IF ok THEN [hlr EXCEPT !.sai = @ + 1] ELSE hlr
               /\ stack' = <<Call(IF ok THEN "E_AUTH_RESP_RECV_RESYNC"
                                        ELSE "gprs_gmm_mm_ctx_cleanup_free")>>
     ELSE /\ stack' = <<Call("gprs_gmm_mm_ctx_cleanup_free")>>
          /\ UNCHANGED <<auth, sub, hlr>>
  /\ UNCHANGED <<cfg, att, leg, iu, gsup, obs>>

\* E_GMM_ATTACH_SUCCESS and E_GMM_COMMON_PROC_SUCCESS
Registered(gmm) == IF gmm = "COMMON_PROC_INIT" THEN "REGISTERED_NORMAL" ELSE gmm

\* The end of the procedure that assigned a P-TMSI.
PtmsiAssigned(l) == [TimerStopAll(l) EXCEPT !.preq = "none"]

RxAttachCompl ==
  /\ Rx
  /\ leg' = PtmsiAssigned(leg)
  /\ mm' = [Heard(mm) EXCEPT !.gmm = Registered(@),
                             !.st = IF Gb THEN (IF @ = "MM_IDLE" THEN "MM_READY" ELSE @)
                                          ELSE "PMM_CONNECTED"]
  /\ stack' = <<Call("E_ATTACH_COMPLETE_RECV")>>
  /\ UNCHANGED <<cfg, att, auth, iu, sub, hlr, gsup, obs>>

\* On a new Iu connection the context is found by P-TMSI.
RxRauReq(newconn) ==
  /\ Input /\ mm.alive /\ mm.gmm # "DEREGISTERED"
  /\ mm' = Heard([mm EXCEPT !.gmm = "COMMON_PROC_INIT"])
  /\ iu' = Connection(newconn)
  /\ leg' = [TimerStart(leg, "T3350") EXCEPT !.preq = "RAU"]
  /\ stack' = <<Call("gsm48_gmm_authorize")>>
  /\ UNCHANGED <<cfg, att, auth, sub, hlr, gsup, obs>>

RxRauCompl ==
  /\ Rx
  /\ leg' = PtmsiAssigned(leg)
  /\ mm' = [Heard(mm) EXCEPT !.gmm = Registered(@), !.st = PmmConnect(@)]
  /\ UNCHANGED <<cfg, att, auth, iu, sub, hlr, stack, gsup, obs>>

RxPtmsiReallCompl ==
  /\ Rx
  /\ leg' = PtmsiAssigned(leg)
  /\ mm' = Heard(mm)
  /\ UNCHANGED <<cfg, att, auth, iu, sub, hlr, stack, gsup, obs>>

\* Iu only.  A request refused for its PDP contexts stops after the GMM
\* FSM has entered the common procedure.
RxServiceReq(newconn, refused) ==
  /\ Input /\ mm.alive /\ ~Gb
  /\ mm' = [mm EXCEPT !.gmm = "COMMON_PROC_INIT"]
  /\ iu' = Connection(newconn)
  /\ IF refused THEN UNCHANGED <<leg, stack>>
     ELSE /\ leg' = [leg EXCEPT !.preq = "SERVICE"]
          /\ stack' = <<Call("gsm48_gmm_authorize")>>
  /\ UNCHANGED <<cfg, att, auth, sub, hlr, gsup, obs>>

\* BSSGP SUSPEND and RESUME
Suspend ==
  /\ Rx /\ Gb /\ mm.gmm = "REGISTERED_NORMAL"
  /\ mm' = [mm EXCEPT !.gmm = "REGISTERED_SUSPENDED"]
  /\ UNCHANGED <<cfg, att, auth, leg, iu, sub, hlr, stack, gsup, obs>>

Resume ==
  /\ Rx /\ Gb /\ mm.gmm = "REGISTERED_SUSPENDED"
  /\ mm' = [mm EXCEPT !.gmm = "REGISTERED_NORMAL"]
  /\ UNCHANGED <<cfg, att, auth, leg, iu, sub, hlr, stack, gsup, obs>>

MsInput ==
  \/ \E m \in Reqs, known, newconn \in BOOLEAN : RxAttachReq(m, known, newconn)
  \/ RxAttachReqRefused \/ RxRauReqRefused \/ RxDetach \/ AccessCancelledByOperator
  \/ \E type \in {"IMSI", "IMEI", "OTHER"} : RxIdResp(type)
  \/ \E good \in BOOLEAN : RxAuthCiphResp(good)
  \/ RxAuthCiphRespMalformed
  \/ \E auts \in BOOLEAN : RxAuthCiphFail(auts)
  \/ RxAttachCompl
  \/ \E newconn \in BOOLEAN : RxRauReq(newconn)
  \/ RxRauCompl \/ RxPtmsiReallCompl
  \/ \E newconn, refused \in BOOLEAN : RxServiceReq(newconn, refused)
  \/ Suspend \/ Resume

-----------------------------------------------------------------------------
(* Timers.                                                                 *)

\* num_T_exp++, saturated: nothing tells more than MaxExpiry apart.
Expired(l) == [l EXCEPT !.n = IF @ < MaxExpiry THEN @ + 1 ELSE @]

\* Mutant: no case for WaitAttachComplete.
Retransmits_NotAccept == {"IDENTIY", "AUTH"}

\* gmm_attach_timer_cb.  The counter is the one of the shared timer.  A state
\* without a case of its own lets the timer run out.
Retransmits == {"IDENTIY", "AUTH", "ACCEPT"}

FsmTimeout ==
  /\ Quiet /\ att.timer
  /\ leg' = Expired(leg)
  /\ \/ /\ \/ att.st = "ASK_VLR"
           \/ ~Gb /\ ~iu.ue
           \/ att.st \in Retransmits /\ leg.n + 1 >= MaxExpiry
        /\ att' = [att EXCEPT !.timer = FALSE]
        /\ stack' = <<Call("E_REJECT")>>
        /\ UNCHANGED auth
     \/ /\ Gb \/ iu.ue
        /\ att.st \in Retransmits /\ leg.n + 1 < MaxExpiry
        /\ \E ok \in TxResults :
             auth' = IF att.st = "AUTH"
                     THEN [auth EXCEPT !.chal = IF ok THEN "current" ELSE @] ELSE auth
        /\ UNCHANGED <<att, stack>>
     \/ /\ Gb \/ iu.ue
        /\ att.st \notin Retransmits \cup {"ASK_VLR"}
        /\ att' = [att EXCEPT !.timer = FALSE]
        /\ UNCHANGED <<auth, stack>>
  /\ UNCHANGED <<cfg, mm, iu, sub, hlr, gsup, obs>>

\* mmctx_timer_cb
LegacyTimeout ==
  /\ Quiet /\ leg.T # "off"
  /\ \/ /\ \/ leg.n + 1 >= MaxExpiry
           \/ leg.T = "T3360" /\ ~auth.key
        /\ leg' = [Expired(leg) EXCEPT !.T = "off"]
        /\ stack' = <<Call(IF leg.T = "T3350" /\ att.st \notin {"INIT", "REJECT"}
                           THEN "E_REJECT" ELSE "gprs_gmm_mm_ctx_cleanup_free")>>
        /\ UNCHANGED auth
     \/ /\ leg.n + 1 < MaxExpiry
        /\ leg.T \in {"T3350", "T3370"}
        /\ leg' = Expired(leg)
        /\ UNCHANGED <<auth, stack>>
     \/ /\ leg.n + 1 < MaxExpiry
        /\ leg.T = "T3360" /\ auth.key
        /\ \E ok \in TxResults :
             /\ leg' = [Expired(leg) EXCEPT !.T = IF ok THEN @ ELSE "off"]
             /\ auth' = [auth EXCEPT !.chal = IF ok THEN "current" ELSE @]
        /\ UNCHANGED stack
  /\ UNCHANGED <<cfg, mm, att, iu, sub, hlr, gsup, obs>>

\* mm_state_gb_fsm_timer_cb: the READY timer.
ReadyTimeout ==
  /\ Quiet /\ mm.st = "MM_READY"
  /\ mm' = [mm EXCEPT !.st = "MM_STANDBY"]
  /\ UNCHANGED <<cfg, att, auth, leg, iu, sub, hlr, stack, gsup, obs>>

TimerInput == FsmTimeout \/ LegacyTimeout \/ ReadyTimeout

-----------------------------------------------------------------------------
(* Iu events.                                                              *)

IuRelease ==
  /\ Input /\ mm.alive /\ iu.ue
  /\ mm' = [mm EXCEPT !.st = PmmRelease(@)]
  /\ iu' = NoIu
  /\ stack' = IF att.st # "INIT" THEN <<Call("E_REJECT")>> ELSE <<>>
  /\ UNCHANGED <<cfg, att, auth, leg, sub, hlr, gsup, obs>>

SecurityModeComplete ==
  /\ Input /\ mm.alive /\ iu.ue /\ iu.smc
  /\ iu' = [iu EXCEPT !.smc = FALSE, !.integ = TRUE]
  /\ stack' = <<Call(IF leg.preq # "ATTACH" THEN "gsm48_gmm_authorize"
                                            ELSE "E_IU_SECURITY_CMD_COMPLETE")>>
  /\ UNCHANGED <<cfg, mm, att, auth, leg, sub, hlr, gsup, obs>>

\* sgsn_mm_iu_handle_rnc_loss: the attach is aborted first.
RncLoss ==
  /\ Input /\ mm.alive /\ ~Gb
  /\ IF att.st \in {"INIT", "REJECT"}
     THEN stack' = <<Call("rnc_loss_release")>> /\ UNCHANGED att
     ELSE /\ stack' = <<Call("E_REJECT"), Call("rnc_loss_release")>>
          /\ att' = [att EXCEPT !.timer = FALSE]
  /\ UNCHANGED <<cfg, mm, auth, leg, iu, sub, hlr, gsup, obs>>

\* E_PMM_RX_GGSN_GTPU_DT_EI, from a GTP-U Error Indication of the GGSN: the
\* connection is released to page the UE again, whatever the attach does.
GtpuErrorInd ==
  /\ Input /\ mm.alive /\ mm.st = "PMM_CONNECTED"
  /\ mm' = [mm EXCEPT !.st = "PMM_IDLE"]
  /\ iu' = NoIu
  /\ UNCHANGED <<cfg, att, auth, leg, sub, hlr, stack, gsup, obs>>

\* A RAB Assignment Response for an NSAPI without a PDP context releases the
\* connection; neither the PMM FSM nor the attach FSM is told.
RabRespUnknown ==
  /\ Input /\ mm.alive /\ iu.ue
  /\ iu' = NoIu
  /\ UNCHANGED <<cfg, mm, att, auth, leg, sub, hlr, stack, gsup, obs>>

IuInput == IuRelease \/ SecurityModeComplete \/ RncLoss \/ GtpuErrorInd \/ RabRespUnknown

-----------------------------------------------------------------------------
(* GSUP messages from the HLR.  For an IMSI without a subscriber record    *)
(* the message is discarded.                                               *)

\* gprs_subscr_update and gprs_subscr_update_auth_info tell the context, if
\* there is one.
TellContext(f) == stack' = IF sub.mm THEN <<Call(f)>> ELSE <<>>

SaiResult(n) ==
  /\ Quiet /\ hlr.sai > 0
  /\ hlr' = [hlr EXCEPT !.sai = @ - 1]
  /\ IF sub.ex
     THEN /\ sub' = [sub EXCEPT !.vec = IF n > 0 THEN n ELSE @, !.upd = TRUE,
                                !.err = FALSE, !.aip = FALSE]
          /\ gsup' = "put"
          /\ TellContext("sgsn_auth_update")
     ELSE UNCHANGED <<sub, gsup, stack>>
  /\ UNCHANGED <<cfg, mm, att, auth, leg, iu, obs>>

\* check_cause sorts the cause: access denied, HLR unreachable, protocol error.
ErrKinds == {"EACCES", "EHOSTUNREACH", "EINVAL"}

SaiError(kind) ==
  /\ Quiet /\ hlr.sai > 0
  /\ hlr' = [hlr EXCEPT !.sai = @ - 1]
  /\ IF sub.ex
     THEN /\ sub' = [sub EXCEPT !.err = TRUE,
                                !.vec = IF kind = "EACCES" THEN 0 ELSE @,
                                !.authz = @ /\ kind # "EACCES",
                                !.aip = @ /\ kind = "EINVAL"]
          /\ gsup' = "put"
          /\ IF kind = "EINVAL" THEN UNCHANGED stack ELSE TellContext("sgsn_auth_update")
     ELSE UNCHANGED <<sub, gsup, stack>>
  /\ UNCHANGED <<cfg, mm, att, auth, leg, iu, obs>>

\* The MS has been authenticated in the attach in progress, which has not been
\* accepted.
InAttach == obs.aka /\ att.st \notin {"INIT", "ACCEPT"}

\* gprs_subscr_gsup_insert_data and what follows it
DataInserted(b) ==
  [b EXCEPT !.authz = TRUE, !.err = FALSE, !.purge = TRUE, !.ulp = FALSE]

UlResult ==
  /\ Quiet /\ hlr.ul > 0
  /\ hlr' = [hlr EXCEPT !.ul = @ - 1]
  /\ IF sub.ex
     THEN /\ sub' = DataInserted(sub)
          /\ obs' = [obs EXCEPT !.loc = InAttach]
          /\ gsup' = "put"
          /\ TellContext("sgsn_auth_update")
     ELSE UNCHANGED <<sub, obs, gsup, stack>>
  /\ UNCHANGED <<cfg, mm, att, auth, leg, iu>>

\* Clears the pending flag of the other request.
UlError(kind) ==
  /\ Quiet /\ hlr.ul > 0
  /\ hlr' = [hlr EXCEPT !.ul = @ - 1]
  /\ IF sub.ex /\ kind # "EINVAL"
     THEN /\ sub' = [sub EXCEPT !.err = TRUE, !.aip = FALSE,
                                !.authz = @ /\ kind # "EACCES"]
          /\ gsup' = "put"
          /\ TellContext("sgsn_auth_update")
     ELSE UNCHANGED <<sub, gsup, stack>>
  /\ UNCHANGED <<cfg, mm, att, auth, leg, iu, obs>>

InsertData ==
  /\ Input /\ sub.ex
  /\ sub' = DataInserted(sub)
  /\ obs' = [obs EXCEPT !.loc = InAttach]
  /\ gsup' = "put"
  /\ TellContext("sgsn_auth_update")
  /\ UNCHANGED <<cfg, mm, att, auth, leg, iu, hlr>>

\* Uses the context of the subscriber without a check that it has one.
DeleteData ==
  /\ Input /\ sub.ex
  /\ gsup' = "put"
  /\ TellContext("gsm0408_gprs_access_denied")
  /\ obs' = [obs EXCEPT !.null = @ \/ ~sub.mm]
  /\ UNCHANGED <<cfg, mm, att, auth, leg, iu, sub, hlr>>

\* gprs_subscr_cancel, up to the end of gprs_subscr_update
Cancel(cause) ==
  /\ sub' = [sub EXCEPT !.err = cause, !.authz = FALSE, !.canc = TRUE, !.purge = FALSE,
                        !.ulp = FALSE]
  /\ gsup' = "cancel"
  /\ TellContext("sgsn_auth_update")

LocationCancel(withdraw) ==
  /\ Input /\ sub.ex
  /\ Cancel(withdraw)
  /\ UNCHANGED <<cfg, mm, att, auth, leg, iu, hlr, obs>>

\* Result and Error alike cancel the record that exists now.
PurgeAnswer ==
  /\ Quiet /\ hlr.purge > 0
  /\ hlr' = [hlr EXCEPT !.purge = @ - 1]
  /\ IF sub.ex THEN Cancel(FALSE) ELSE UNCHANGED <<sub, gsup, stack>>
  /\ UNCHANGED <<cfg, mm, att, auth, leg, iu, obs>>

\* The connection to the HLR breaks: what was asked stays unanswered.
HlrLost ==
  /\ Quiet /\ hlr.sai + hlr.ul + hlr.purge > 0
  /\ hlr' = [sai |-> 0, ul |-> 0, purge |-> 0]
  /\ UNCHANGED <<cfg, mm, att, auth, leg, iu, sub, stack, gsup, obs>>

HlrAnswer ==
  \/ \E n \in 0..MaxVec : SaiResult(n)
  \/ \E kind \in ErrKinds : SaiError(kind) \/ UlError(kind)
  \/ UlResult \/ InsertData \/ DeleteData
  \/ \E withdraw \in BOOLEAN : LocationCancel(withdraw)
  \/ PurgeAnswer

HlrInput == HlrAnswer \/ HlrLost

-----------------------------------------------------------------------------
(* The specification.                                                      *)

\* An input waits until the running handler has returned to the event loop.
Next == HandlerStep \/ (Quiet /\ (MsInput \/ TimerInput \/ IuInput \/ HlrInput))

Spec == Init /\ [][Next]_vars

\* A handler that runs goes on: it returns to the event loop or takes another
\* step, again and again.  (While one runs only its steps are possible and, as
\* there is no deadlock, one is: this is weak fairness of HandlerStep.)  The
\* timer of the attach FSM fires if it is left armed: not if it is stopped, or
\* started anew by a change of state, again and again.  Nothing is assumed of
\* the MS, the RAN or the HLR.
HandlerReturns == []<>Quiet \/ []<><<~Quiet>>_vars
TimerStarted == StateChg /\ Data \in OutStates(att.st)
TimerServed == []<>~att.timer \/ []<><<FsmTimeout \/ TimerStarted>>_vars

FairSpec == Spec /\ HandlerReturns /\ TimerServed

-----------------------------------------------------------------------------
(* Properties.                                                             *)

\* With a remote HLR and "authentication required", the SGSN is never in
\* WaitAttachComplete (the Attach Accept is sent on entering it) before the
\* MS has answered a challenge of this attach correctly: whatever the order
\* of HLR answers, repeated requests, AUTS, RA updates and timeouts.
\* (attach_proceed_after_auth, st_auth_on_enter, sgsn_auth_state)
AcceptAuthenticated ==
  att.st = "ACCEPT" /\ Remote /\ cfg.require_auth => obs.aka

\* With "update location" required, the attach enters WaitAttachComplete only
\* with a record that is authorised and waits for no Update Location answer;
\* and, with authentication, unless an RA update or service request took over
\* pending_req, only when the HLR has sent the subscriber's data during this
\* attach, after the MS had been authenticated in it, in an Update Location
\* Result or an Insert Subscriber Data (the code takes either): what an earlier
\* attach left, or what came before the authentication, is not enough.
\* (attach_needs_update_location, sgsn_auth_request)
AcceptLocated ==
  [][att.st # "ACCEPT" /\ att'.st = "ACCEPT" /\ Remote /\ cfg.require_ul
     => /\ sub.mm /\ sub.authz /\ ~sub.ulp
        /\ cfg.require_auth /\ leg.preq = "ATTACH" => obs.loc]_vars

\* The accept is sent only to an MS whose IMSI the SGSN has learnt, and under
\* an access list only to one that is listed. (st_identity, sgsn_auth_state)
AcceptIdentified ==
  [][att.st # "ACCEPT" /\ att'.st = "ACCEPT"
     => mm.imsi /\ (cfg.policy = "acl" => cfg.listed)]_vars

\* On Iu, after an authentication, a UE that is connected when the attach
\* enters WaitAttachComplete has integrity protection on that connection, also
\* when it lost or changed connections meanwhile: the first Attach Accept goes
\* over a protected connection, or nowhere.  (The repetitions of T3350 use the
\* connection the UE has by then, and look at its protection no more.)
\* (st_iu_security_cmd, attach_proceed_after_auth)
AcceptIntegrity ==
  [][att.st # "ACCEPT" /\ att'.st = "ACCEPT" /\ ~Gb /\ Remote /\ cfg.require_auth
     => (iu.ue => iu.integ)]_vars

\* mm->timer and the attach FSM's timer count in the same num_T_exp and send
\* the same messages; they never run together. (mmctx_attach_fsm_owns_timer,
\* gprs_gmm_mm_timer_stop_all)
TimersExclusive == ~(att.timer /\ leg.T # "off")

\* Whenever the SGSN waits, an attach in progress is supervised by a running
\* timer; only IuSecurityCommand can lose it. (gmm_attach_timer_cb)
AttachSupervised ==
  Quiet /\ mm.alive /\ att.st \notin {"INIT", "IU_SECURITY_CMD"} => att.timer

\* Between inputs a subscriber record exists exactly as long as a context
\* that exists uses it: no leaked record, no pointer to a freed context.
\* (gprs_subscr_get, gprs_subscr_put, gprs_subscr_cleanup)
SubscriberOwned == Quiet => sub.ex = sub.mm /\ (sub.mm => mm.alive)

\* The functions that use sgsn_data->mm or iu.ue_ctx without a test find them
\* set. (gprs_subscr_handle_gsup_dsd_req, st_iu_security_cmd_on_enter,
\* gsm48_gmm_authorize)
PointersSet == ~obs.null

\* While the SGSN waits in Authenticate it holds the vector of the challenge:
\* gmm_attach_timer_cb sends the challenge again without looking at key_seq.
ChallengeHasVector == Quiet /\ att.st = "AUTH" => auth.key

\* The attach procedure ends, or is started again, again and again: it never
\* stays for ever in one of its states, nor goes round between them, unless
\* the MS sends AUTS for ever (each one starts the timer of AskVLR anew), or
\* the attach waits for ever for the security mode of IuSecurityCommand, whose
\* timer runs out without effect.
\* (gmm_attach_timer_cb, gmm_attach_allstate_action)
AttachEnds ==
  \/ []<>(att.st = "INIT")
  \/ []<><<EvAuthResync>>_vars
  \/ <>[](att.st = "IU_SECURITY_CMD")

\* gprs_gmm_attach.c:495 says the HLR did not answer when the timer fires in
\* AskVLR: so in AskVLR an answer of the HLR is still due.
AskVlrAwaitsHlr == Quiet /\ att.st = "ASK_VLR" => hlr.sai + hlr.ul > 0

\* st_reject frees the context when "the attach FSM is gone": no function
\* further up the call stack still uses it. (gprs_gmm_attach.c:290)
FreedWhenUnused == ~obs.uaf

=============================================================================
