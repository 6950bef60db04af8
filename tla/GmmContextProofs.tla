-------------------------- MODULE GmmContextProofs --------------------------
(***************************************************************************)
(* Type correctness of GmmContext, for every configuration and every value *)
(* of the bounds.                                                          *)
(***************************************************************************)
EXTENDS GmmContext, TLAPS

-----------------------------------------------------------------------------
(* The call stack.                                                         *)

\* A call without an argument is a frame.
LEMMA CallFrame == \A f \in PlainFns : Call(f) \in Frame
  BY DEF Call, Frame

\* So are the calls with one.
LEMMA CallWithFrame ==
  /\ \A f \in ReqFns, m \in Reqs : CallWith(f, m) \in Frame
  /\ \A t \in IdTypes : CallWith("E_IDEN_RESP_RECV", t) \in Frame
  /\ \A s \in AttachStates : CallWith("state_chg", s) \in Frame
  BY DEF CallWith, Frame

\* What a frame's argument is.
LEMMA FrameData ==
  \A f \in Frame : /\ f.fn \in ReqFns => f.d \in Reqs
                   /\ f.fn = "state_chg" => f.d \in AttachStates
                   /\ f.fn = "E_IDEN_RESP_RECV" => f.d \in IdTypes
  BY DEF Frame, ReqFns, PlainFns

\* What a running function leaves on the stack.
LEMMA StackNext ==
  ASSUME NEW f, stack \in Seq(Frame), Running(f)
  PROVE  /\ Head(stack) \in Frame
         /\ Head(stack).fn = f
         /\ Return => stack' \in Seq(Frame)
         /\ \A c \in Frame : Do(<<c>>) => stack' \in Seq(Frame)
         /\ \A c, e \in Frame : Do(<<c, e>>) => stack' \in Seq(Frame)
<1>1. Tail(stack) \in Seq(Frame) /\ Head(stack) \in Frame
  BY DEF Running
<1>2. \A c \in Frame : <<c>> \in Seq(Frame)
  OBVIOUS
<1>3. \A c, e \in Frame : <<c, e>> \in Seq(Frame)
  OBVIOUS
<1> QED
  BY <1>1, <1>2, <1>3 DEF Return, Do, Running

\* What an input puts on the empty stack.
LEMMA StackFirst ==
  /\ <<>> \in Seq(Frame)
  /\ \A c \in Frame : <<c>> \in Seq(Frame)
  /\ \A c, e \in Frame : <<c, e>> \in Seq(Frame)
  OBVIOUS

-----------------------------------------------------------------------------
(* The records: every assignment of a value of its type to a field keeps   *)
(* the record's type.                                                      *)

\* struct sgsn_mm_ctx: identity and FSM states.
LEMMA MmSet == \A r \in MmType :
  /\ r.alive \in BOOLEAN /\ \A x \in BOOLEAN : [r EXCEPT !.alive = x] \in MmType
  /\ r.imsi \in BOOLEAN /\ \A x \in BOOLEAN : [r EXCEPT !.imsi = x] \in MmType
  /\ r.imei \in BOOLEAN /\ \A x \in BOOLEAN : [r EXCEPT !.imei = x] \in MmType
  /\ r.gmm \in GmmStates /\ \A x \in GmmStates : [r EXCEPT !.gmm = x] \in MmType
  /\ r.st \in MmStates /\ \A x \in MmStates : [r EXCEPT !.st = x] \in MmType
  BY Zenon DEF MmType

\* gmm_att_req.
LEMMA AttSet == \A r \in AttType :
  /\ r.st \in AttachStates /\ \A x \in AttachStates : [r EXCEPT !.st = x] \in AttType
  /\ r.timer \in BOOLEAN /\ \A x \in BOOLEAN : [r EXCEPT !.timer = x] \in AttType
  /\ r.req \in BOOLEAN /\ \A x \in BOOLEAN : [r EXCEPT !.req = x] \in AttType
  /\ r.id \in IdTypes /\ \A x \in IdTypes : [r EXCEPT !.id = x] \in AttType
  /\ r.reatt \in Nat /\ \A x \in Nat : [r EXCEPT !.reatt = x] \in AttType
  BY Zenon DEF AttType

\* auth_state, sec_ctx and auth_triplet.
LEMMA AuthSet == \A r \in AuthType :
  /\ r.state \in AuthStates /\ \A x \in AuthStates : [r EXCEPT !.state = x] \in AuthType
  /\ r.sec \in BOOLEAN /\ \A x \in BOOLEAN : [r EXCEPT !.sec = x] \in AuthType
  /\ r.key \in BOOLEAN /\ \A x \in BOOLEAN : [r EXCEPT !.key = x] \in AuthType
  /\ r.chal \in Challenges /\ \A x \in Challenges : [r EXCEPT !.chal = x] \in AuthType
  BY Zenon DEF AuthType

\* mm->timer, num_T_exp, t3370_id_type, pending_req.
LEMMA LegSet == \A r \in LegType :
  /\ r.T \in LegTimers /\ \A x \in LegTimers : [r EXCEPT !.T = x] \in LegType
  /\ r.n \in Expirations /\ \A x \in Expirations : [r EXCEPT !.n = x] \in LegType
  /\ r.id \in IdTypes /\ \A x \in IdTypes : [r EXCEPT !.id = x] \in LegType
  /\ r.preq \in PendingReqs /\ \A x \in PendingReqs : [r EXCEPT !.preq = x] \in LegType
  BY Zenon DEF LegType

\* The Iu connection.
LEMMA IuSet == \A r \in IuType :
  /\ r.ue \in BOOLEAN /\ \A x \in BOOLEAN : [r EXCEPT !.ue = x] \in IuType
  /\ r.smc \in BOOLEAN /\ \A x \in BOOLEAN : [r EXCEPT !.smc = x] \in IuType
  /\ r.integ \in BOOLEAN /\ \A x \in BOOLEAN : [r EXCEPT !.integ = x] \in IuType
  BY Zenon DEF IuType

\* struct gprs_subscr.
LEMMA SubSet == \A r \in SubType :
  /\ r.ex \in BOOLEAN /\ \A x \in BOOLEAN : [r EXCEPT !.ex = x] \in SubType
  /\ r.mm \in BOOLEAN /\ \A x \in BOOLEAN : [r EXCEPT !.mm = x] \in SubType
  /\ r.aip \in BOOLEAN /\ \A x \in BOOLEAN : [r EXCEPT !.aip = x] \in SubType
  /\ r.ulp \in BOOLEAN /\ \A x \in BOOLEAN : [r EXCEPT !.ulp = x] \in SubType
  /\ r.authz \in BOOLEAN /\ \A x \in BOOLEAN : [r EXCEPT !.authz = x] \in SubType
  /\ r.err \in BOOLEAN /\ \A x \in BOOLEAN : [r EXCEPT !.err = x] \in SubType
  /\ r.upd \in BOOLEAN /\ \A x \in BOOLEAN : [r EXCEPT !.upd = x] \in SubType
  /\ r.vec \in Nat /\ \A x \in Nat : [r EXCEPT !.vec = x] \in SubType
  /\ r.purge \in BOOLEAN /\ \A x \in BOOLEAN : [r EXCEPT !.purge = x] \in SubType
  /\ r.canc \in BOOLEAN /\ \A x \in BOOLEAN : [r EXCEPT !.canc = x] \in SubType
  BY ZenonT(30) DEF SubType

\* The outstanding requests.
LEMMA HlrSet == \A r \in HlrType :
  /\ r.sai \in Nat /\ \A x \in Nat : [r EXCEPT !.sai = x] \in HlrType
  /\ r.ul \in Nat /\ \A x \in Nat : [r EXCEPT !.ul = x] \in HlrType
  /\ r.purge \in Nat /\ \A x \in Nat : [r EXCEPT !.purge = x] \in HlrType
  BY Zenon DEF HlrType

\* The history.
LEMMA ObsSet == \A r \in ObsType :
  /\ r.aka \in BOOLEAN /\ \A x \in BOOLEAN : [r EXCEPT !.aka = x] \in ObsType
  /\ r.loc \in BOOLEAN /\ \A x \in BOOLEAN : [r EXCEPT !.loc = x] \in ObsType
  /\ r.uaf \in BOOLEAN /\ \A x \in BOOLEAN : [r EXCEPT !.uaf = x] \in ObsType
  /\ r.null \in BOOLEAN /\ \A x \in BOOLEAN : [r EXCEPT !.null = x] \in ObsType
  BY Zenon DEF ObsType

\* The constants the handlers assign.
LEMMA Values ==
  /\ "off" \in LegTimers /\ "T3350" \in LegTimers /\ "T3360" \in LegTimers
  /\ "T3370" \in LegTimers
  /\ 0 \in Expirations /\ 0 \in Nat
  /\ "none" \in PendingReqs /\ "ATTACH" \in PendingReqs
  /\ "RAU" \in PendingReqs /\ "SERVICE" \in PendingReqs
  /\ "none" \in Challenges /\ "current" \in Challenges
  /\ "NONE" \in IdTypes /\ "IMSI" \in IdTypes /\ "IMEI" \in IdTypes /\ "OTHER" \in IdTypes
  /\ "UNKNOWN" \in AuthStates /\ "AUTHENTICATE" \in AuthStates
  /\ "UMTS_RESYNC" \in AuthStates /\ "ACCEPTED" \in AuthStates /\ "REJECTED" \in AuthStates
  /\ "INIT" \in AttachStates /\ "REJECT" \in AttachStates
  /\ TRUE \in BOOLEAN /\ FALSE \in BOOLEAN
  BY ConstAssumption DEF LegTimers, Expirations, PendingReqs, Challenges, IdTypes,
                         AuthStates, AttachStates

\* The GMM and MM states the handlers assign.
LEMMA MmValues ==
  /\ "DEREGISTERED" \in GmmStates /\ "COMMON_PROC_INIT" \in GmmStates
  /\ "REGISTERED_NORMAL" \in GmmStates /\ "REGISTERED_SUSPENDED" \in GmmStates
  /\ "MM_IDLE" \in MmStates /\ "MM_READY" \in MmStates /\ "MM_STANDBY" \in MmStates
  /\ "PMM_DETACHED" \in MmStates /\ "PMM_CONNECTED" \in MmStates /\ "PMM_IDLE" \in MmStates
  /\ TRUE \in BOOLEAN /\ FALSE \in BOOLEAN
  BY DEF GmmStates, MmStates

\* The initial values of the records.
LEMMA NewTypes ==
  /\ NoMm \in MmType
  /\ NewAtt \in AttType
  /\ NewAuth \in AuthType
  /\ NewLeg \in LegType
  /\ NoIu \in IuType
  /\ NoSub \in SubType
<1>1. NoMm \in MmType
  BY MmValues, Zenon DEF NoMm, MmType
<1>2. NewAtt \in AttType
  BY Values, Zenon DEF NewAtt, AttType
<1>3. NewAuth \in AuthType
  BY Values, Zenon DEF NewAuth, AuthType
<1>4. NewLeg \in LegType
  BY Values, Zenon DEF NewLeg, LegType
<1>5. NoIu \in IuType
  BY Zenon DEF NoIu, IuType
<1>6. NoSub \in SubType
  BY Values, Zenon DEF NoSub, SubType
<1> QED
  BY <1>1, <1>2, <1>3, <1>4, <1>5, <1>6

\* sgsn_auth_get_tuple, and sgsn_auth_state for every policy.
LEMMA AuthTypes ==
  ASSUME auth \in AuthType
  PROVE  /\ TakeTuple \in AuthType
         /\ SgsnAuthState \in AuthStates /\ UpdatedAuthState \in AuthStates
<1>1. TakeTuple \in AuthType
  BY AuthSet, Values, Zenon DEF TakeTuple
<1>2. SgsnAuthState \in AuthStates
  BY AuthSet, Values, Zenon DEF SgsnAuthState, RemoteAuthState, LocalAuthState
<1> QED
  BY <1>1, <1>2, Values, Zenon DEF UpdatedAuthState

\* The end of sgsn_auth_update.
LEMMA SetAuthStateTypes ==
  ASSUME stack \in Seq(Frame), Running("sgsn_auth_update"),
         NEW a \in AuthType, NEW b \in SubType, NEW x \in AuthStates, SetAuthState(a, b, x)
  PROVE  auth' \in AuthType /\ sub' \in SubType /\ stack' \in Seq(Frame)
<1>1. auth' \in AuthType
  BY AuthSet, Zenon DEF SetAuthState
<1>2. sub' \in SubType
  BY SubSet, Values, Zenon DEF SetAuthState
<1>3. stack' \in Seq(Frame)
  <2>1. \/ Return
        \/ Do(<<Call("gsm0408_gprs_authenticate")>>)
        \/ Do(<<Call("gsm0408_gprs_access_granted")>>)
        \/ Do(<<Call("gsm0408_gprs_access_cancelled")>>)
        \/ Do(<<Call("gsm0408_gprs_access_denied")>>)
    BY DEF SetAuthState
  <2> QED
    BY <2>1, StackNext, CallFrame, Zenon DEF PlainFns
<1> QED
  BY <1>1, <1>2, <1>3

-----------------------------------------------------------------------------
(* Type correctness.                                                       *)

\* The attach FSM's functions keep the types (gprs_gmm_attach.c).
LEMMA AttachFsmTypes == TypeOK /\ AttachFsmStep => TypeOK'
<1> SUFFICES ASSUME TypeOK, AttachFsmStep PROVE TypeOK'
  OBVIOUS
<1>att. att \in AttType
  BY DEF TypeOK
<1>auth. auth \in AuthType
  BY DEF TypeOK
<1>leg. leg \in LegType
  BY DEF TypeOK
<1>iu. iu \in IuType
  BY DEF TypeOK
<1>obs. obs \in ObsType
  BY DEF TypeOK
<1>1. CASE StateChg
  <2>1. Data \in AttachStates
    BY <1>1, StackNext, FrameData DEF TypeOK, StateChg, Data
  <2>2. att' \in AttType
    BY <1>1, <1>att, <2>1, AttSet, Values, Zenon DEF StateChg
  <2>3. stack' \in Seq(Frame)
    BY <1>1, <2>1, StackNext, CallFrame, CallWithFrame, Zenon DEF TypeOK, StateChg,
       PlainFns
  <2> QED
    BY <1>1, <2>1, <2>2, <2>3 DEF TypeOK, StateChg
<1>2. CASE StInit
  <2>1. att' \in AttType
    BY <1>2, <1>att, AttSet, Values, Zenon DEF StInit
  <2>2. auth' \in AuthType
    BY <1>2, <1>auth, AuthSet, Values, Zenon DEF StInit, NoVector
  <2>3. leg' \in LegType
    BY <1>2, <1>leg, LegSet, Values, Zenon DEF StInit, TimerStopAll
  <2>4. obs' \in ObsType
    BY <1>2, <1>obs, ObsSet, Values, Zenon DEF StInit
  <2>5. stack' \in Seq(Frame)
    BY <1>2, StackNext, CallFrame, CallWithFrame, Zenon DEF TypeOK, StInit, AttachStates
  <2> QED
    BY <1>2, <2>1, <2>2, <2>3, <2>4, <2>5 DEF TypeOK, StInit
<1>3. CASE IdentityOnEnter
  <2>1. att.id \in IdTypes
    BY <1>3, <1>att, AttSet
  <2>2. [leg EXCEPT !.n = 0, !.id = att.id] \in LegType /\ [leg EXCEPT !.n = 0] \in LegType
    BY <1>3, <1>leg, <2>1, LegSet, Values, Zenon
  <2>3. leg' \in LegType
    BY <1>3, <1>leg, <2>1, <2>2, LegSet, Values, Zenon DEF IdentityOnEnter
  <2>4. stack' \in Seq(Frame)
    BY <1>3, <2>1, <2>2, StackNext, CallFrame, CallWithFrame, Zenon DEF TypeOK,
       IdentityOnEnter, PlainFns
  <2> QED
    BY <1>3, <2>1, <2>2, <2>3, <2>4 DEF TypeOK, IdentityOnEnter
<1>4. CASE AuthOnEnter
  <2>1. att.reatt + 1 \in Nat
    BY <1>4, <1>att, AttSet
  <2>2. leg' \in LegType
    BY <1>4, <1>leg, <2>1, LegSet, Values, Zenon DEF AuthOnEnter
  <2>3. att' \in AttType
    BY <1>4, <1>att, <2>1, AttSet, Values, Zenon DEF AuthOnEnter
  <2>4. auth' \in AuthType
    BY <1>4, <1>auth, <2>1, AuthSet, Values, Zenon DEF AuthOnEnter
  <2>5. stack' \in Seq(Frame)
    BY <1>4, <2>1, StackNext, CallFrame, CallWithFrame, Zenon DEF TypeOK,
       AuthOnEnter, PlainFns, AttachStates
  <2> QED
    BY <1>4, <2>1, <2>2, <2>3, <2>4, <2>5 DEF TypeOK, AuthOnEnter
<1>5. CASE AskVlrOnEnter
  <2>1. stack' \in Seq(Frame)
    BY <1>5, StackNext, CallFrame, CallWithFrame, Zenon DEF TypeOK, AskVlrOnEnter,
       PlainFns
  <2> QED
    BY <1>5, <2>1 DEF TypeOK, AskVlrOnEnter
<1>6. CASE IuSecurityCmdOnEnter
  <2>1. iu' \in IuType
    BY <1>6, <1>iu, IuSet, Values, Zenon DEF IuSecurityCmdOnEnter
  <2>2. obs' \in ObsType
    BY <1>6, <1>obs, ObsSet, Values, Zenon DEF IuSecurityCmdOnEnter
  <2>3. stack' \in Seq(Frame)
    BY <1>6, StackNext, CallFrame, CallWithFrame, Zenon DEF TypeOK,
       IuSecurityCmdOnEnter, AttachStates
  <2> QED
    BY <1>6, <2>1, <2>2, <2>3 DEF TypeOK, IuSecurityCmdOnEnter
<1>7. CASE AcceptOnEnter
  <2>1. leg' \in LegType
    BY <1>7, <1>leg, LegSet, Values, Zenon DEF AcceptOnEnter, TimerStopAll
  <2>2. obs' \in ObsType
    BY <1>7, <1>obs, ObsSet, Values, Zenon DEF AcceptOnEnter
  <2>3. stack' \in Seq(Frame)
    BY <1>7, StackNext, CallFrame, CallWithFrame, Zenon DEF TypeOK, AcceptOnEnter
  <2> QED
    BY <1>7, <2>1, <2>2, <2>3 DEF TypeOK, AcceptOnEnter
<1>8. CASE AttachProceedAfterAuth
  <2>1. stack' \in Seq(Frame)
    BY <1>8, StackNext, CallFrame, CallWithFrame, Zenon DEF TypeOK,
       AttachProceedAfterAuth, AttachStates
  <2> QED
    BY <1>8, <2>1 DEF TypeOK, AttachProceedAfterAuth
<1>9. CASE EvAttachReq
  <2>1. Data \in Reqs
    BY <1>9, StackNext, FrameData DEF TypeOK, EvAttachReq, Data, ReqFns
  <2>2. att' \in AttType
    BY <1>9, <1>att, <2>1, AttSet, Values, Zenon DEF EvAttachReq
  <2>3. stack' \in Seq(Frame)
    BY <1>9, <2>1, StackNext, CallFrame, CallWithFrame, Zenon DEF TypeOK,
       EvAttachReq, ReqFns
  <2> QED
    BY <1>9, <2>1, <2>2, <2>3 DEF TypeOK, EvAttachReq
<1>10. CASE EvReject
  <2>1. att' \in AttType
    BY <1>10, <1>att, AttSet, Values, Zenon DEF EvReject
  <2>2. leg' \in LegType
    BY <1>10, <1>leg, LegSet, Values, Zenon DEF EvReject, TimerStopAll
  <2>3. stack' \in Seq(Frame)
    BY <1>10, StackNext, CallFrame, CallWithFrame, Zenon DEF TypeOK, EvReject, PlainFns
  <2> QED
    BY <1>10, <2>1, <2>2, <2>3 DEF TypeOK, EvReject
<1>11. CASE EvIdenResp
  <2>1. att' \in AttType
    BY <1>11, <1>att, AttSet, Values, Zenon DEF EvIdenResp
  <2>2. stack' \in Seq(Frame)
    BY <1>11, StackNext, CallFrame, CallWithFrame, Zenon DEF TypeOK, EvIdenResp,
       PlainFns, AttachStates
  <2> QED
    BY <1>11, <2>1, <2>2 DEF TypeOK, EvIdenResp
<1>12. CASE EvAuthSuccess
  <2>1. stack' \in Seq(Frame)
    BY <1>12, StackNext, CallFrame, CallWithFrame, Zenon DEF TypeOK, EvAuthSuccess,
       PlainFns
  <2> QED
    BY <1>12, <2>1 DEF TypeOK, EvAuthSuccess
<1>13. CASE EvAuthResync
  <2>1. stack' \in Seq(Frame)
    BY <1>13, StackNext, CallFrame, CallWithFrame, Zenon DEF TypeOK, EvAuthResync,
       PlainFns, AttachStates
  <2> QED
    BY <1>13, <2>1 DEF TypeOK, EvAuthResync
<1>14. CASE EvVlrAnswered
  <2>1. stack' \in Seq(Frame)
    BY <1>14, StackNext, CallFrame, CallWithFrame, Zenon DEF TypeOK, EvVlrAnswered,
       PlainFns, AttachStates
  <2> QED
    BY <1>14, <2>1 DEF TypeOK, EvVlrAnswered
<1>15. CASE EvIuSecurityCmdComplete
  <2>1. stack' \in Seq(Frame)
    BY <1>15, StackNext, CallFrame, CallWithFrame, Zenon DEF TypeOK,
       EvIuSecurityCmdComplete, PlainFns
  <2> QED
    BY <1>15, <2>1 DEF TypeOK, EvIuSecurityCmdComplete
<1>16. CASE EvAttachComplete
  <2>1. att.reatt \in Nat
    BY <1>16, <1>att, AttSet
  <2>2. att' \in AttType
    BY <1>16, <1>att, <2>1, NewTypes, AttSet, Values, Zenon DEF EvAttachComplete
  <2>3. stack' \in Seq(Frame)
    BY <1>16, <2>1, StackNext, CallFrame, CallWithFrame, Zenon DEF TypeOK,
       EvAttachComplete
  <2> QED
    BY <1>16, <2>1, <2>2, <2>3 DEF TypeOK, EvAttachComplete
<1> QED
  BY <1>1, <1>2, <1>3, <1>4, <1>5, <1>6, <1>7, <1>8, <1>9, <1>10, <1>11, <1>12,
     <1>13, <1>14, <1>15, <1>16 DEF AttachFsmStep

\* So do those of the authorisation layer (sgsn_auth.c, gprs_gmm.c).
LEMMA AuthTypesKept == TypeOK /\ AuthStep => TypeOK'
<1> SUFFICES ASSUME TypeOK, AuthStep PROVE TypeOK'
  OBVIOUS
<1>mm. mm \in MmType
  BY DEF TypeOK
<1>auth. auth \in AuthType
  BY DEF TypeOK
<1>leg. leg \in LegType
  BY DEF TypeOK
<1>iu. iu \in IuType
  BY DEF TypeOK
<1>sub. sub \in SubType
  BY DEF TypeOK
<1>hlr. hlr \in HlrType
  BY DEF TypeOK
<1>obs. obs \in ObsType
  BY DEF TypeOK
<1>1. CASE AuthRequest
  <2>1. LinkedSub \in SubType
    BY <1>sub, SubSet, Values, Zenon DEF LinkedSub
  <2>2. ResetAuthTriplets(LinkedSub) \in SubType
    BY <2>1, SubSet, Values, Zenon DEF ResetAuthTriplets
  <2>3. sub' \in SubType
    <3>1. CASE ~(Remote /\ ~(sub.err /\ ~sub.authz))
      BY <1>1, <3>1, <1>sub, <2>1, Zenon DEF AuthRequest
    <3>2. CASE Remote /\ ~(sub.err /\ ~sub.authz) /\ MustFetchVectors
      <4>1. \A ok \in Sends : ok \in BOOLEAN
        BY ConstAssumption
      <4>2. \A ok \in Sends :
              [(IF FreshAttach THEN ResetAuthTriplets(LinkedSub) ELSE LinkedSub)
                EXCEPT !.aip = ok] \in SubType
        BY <4>1, <2>1, <2>2, SubSet, Zenon
      <4> QED
        BY <1>1, <3>2, <4>2, Zenon DEF AuthRequest
    <3>3. CASE Remote /\ ~(sub.err /\ ~sub.authz) /\ ~MustFetchVectors
      <4> DEFINE take == cfg.require_auth /\ ~auth.sec
                 b == [LinkedSub EXCEPT !.vec = IF take THEN @ - 1 ELSE @]
      <4>1. take => LinkedSub.vec - 1 \in Nat
        BY <3>3, <1>sub, SubSet DEF MustFetchVectors, LinkedSub, SubType
      <4>2. b \in SubType
        BY <4>1, <2>1, SubSet, Zenon
      <4>3. [b EXCEPT !.ulp = TRUE] \in SubType
        BY <4>2, SubSet, Values, Zenon
      <4> QED
        BY <1>1, <3>3, <4>2, <4>3, Zenon DEF AuthRequest
    <3> QED
      BY <3>1, <3>2, <3>3, Zenon
  <2>4. auth' \in AuthType
    BY <1>1, <1>auth, AuthTypes, AuthSet, Values, ZenonT(30) DEF AuthRequest, NoVector
  <2>5. hlr' \in HlrType
    <3>1. hlr.sai + 1 \in Nat /\ hlr.ul + 1 \in Nat
      BY <1>hlr, HlrSet
    <3> QED
      BY <1>1, <3>1, <1>hlr, HlrSet, ZenonT(30) DEF AuthRequest
  <2>6. stack' \in Seq(Frame)
    BY <1>1, StackNext, CallFrame, Zenon DEF TypeOK, AuthRequest, PlainFns
  <2> QED
    BY <1>1, <2>3, <2>4, <2>5, <2>6 DEF TypeOK, AuthRequest
<1>2. CASE AuthUpdate
  <2>1. TakeTuple \in AuthType /\ UpdatedAuthState \in AuthStates
    BY <1>auth, AuthTypes
  <2>2. stack \in Seq(Frame) /\ Running("sgsn_auth_update")
    BY <1>2 DEF TypeOK, AuthUpdate
  <2>3. hlr' \in HlrType
    <3>1. [hlr EXCEPT !.sai = @ + 1] \in HlrType
      BY <1>hlr, HlrSet
    <3> QED
      BY <1>2, <3>1, <1>hlr, Zenon DEF AuthUpdate
  <2>4. [auth EXCEPT !.sec = FALSE] \in AuthType /\ [sub EXCEPT !.aip = TRUE] \in SubType
    BY <1>auth, <1>sub, AuthSet, SubSet, Values, Zenon
  <2>5. sub.vec > 0 => [sub EXCEPT !.vec = @ - 1] \in SubType
    <3>1. sub.vec > 0 => sub.vec - 1 \in Nat
      BY <1>sub, SubSet
    <3> QED
      BY <3>1, <1>sub, SubSet, Zenon
  <2>6. auth' \in AuthType /\ sub' \in SubType /\ stack' \in Seq(Frame)
    <3>1. CASE SetAuthState(auth, sub, UpdatedAuthState)
      BY <3>1, <2>1, <2>2, <1>auth, <1>sub, SetAuthStateTypes
    <3>2. CASE /\ sub.vec > 0
               /\ SetAuthState(TakeTuple, [sub EXCEPT !.vec = @ - 1], "AUTHENTICATE")
      BY <3>2, <2>1, <2>2, <2>5, SetAuthStateTypes, Values, Zenon
    <3>3. CASE SetAuthState(auth, sub, "REJECTED")
      BY <3>3, <2>2, <1>auth, <1>sub, SetAuthStateTypes, Values, Zenon
    <3>4. CASE SetAuthState([auth EXCEPT !.sec = FALSE], sub, "REJECTED")
      BY <3>4, <2>2, <2>4, <1>sub, SetAuthStateTypes, Values, Zenon
    <3>5. CASE /\ auth' = [auth EXCEPT !.sec = FALSE]
               /\ sub' = [sub EXCEPT !.aip = TRUE]
               /\ Return
      BY <3>5, <2>2, <2>4, StackNext, Zenon
    <3> QED
      BY <1>2, <3>1, <3>2, <3>3, <3>4, <3>5, Zenon DEF AuthUpdate
  <2> QED
    BY <1>2, <2>3, <2>6 DEF TypeOK, AuthUpdate
<1>3. CASE GprsAuthenticate
  <2>1. auth' \in AuthType
    BY <1>3, <1>auth, AuthSet, Values, Zenon DEF GprsAuthenticate
  <2>2. stack' \in Seq(Frame)
    BY <1>3, StackNext, CallFrame, CallWithFrame, Zenon DEF TypeOK, GprsAuthenticate,
       PlainFns
  <2> QED
    BY <1>3, <2>1, <2>2 DEF TypeOK, GprsAuthenticate
<1>4. CASE AccessGranted
  <2>1. stack' \in Seq(Frame)
    BY <1>4, StackNext, CallFrame, CallWithFrame, Zenon DEF TypeOK, AccessGranted,
       PlainFns
  <2> QED
    BY <1>4, <2>1 DEF TypeOK, AccessGranted
<1>5. CASE AccessDenied
  <2>1. stack' \in Seq(Frame)
    BY <1>5, StackNext, CallFrame, CallWithFrame, Zenon DEF TypeOK, AccessDenied,
       PlainFns
  <2> QED
    BY <1>5, <2>1 DEF TypeOK, AccessDenied
<1>6. CASE AccessCancelled
  <2>1. stack' \in Seq(Frame)
    BY <1>6, StackNext, CallFrame, CallWithFrame, Zenon DEF TypeOK, AccessCancelled,
       PlainFns
  <2> QED
    BY <1>6, <2>1 DEF TypeOK, AccessCancelled
<1>7. CASE GmmAuthorize
  <2>1. \A x \in LegTimers : TimerStart(leg, x) \in LegType
    BY <1>7, <1>leg, LegSet, Values, Zenon DEF TimerStart
  <2>2. /\ [leg EXCEPT !.id = "NONE"] \in LegType
        /\ [leg EXCEPT !.id = "NONE", !.preq = "none"] \in LegType
        /\ [TimerStart(leg, "T3350") EXCEPT !.id = "NONE", !.preq = "none"] \in LegType
        /\ [TimerStart(leg, "T3360") EXCEPT !.id = "NONE"] \in LegType
        /\ [TimerStart(leg, "T3370") EXCEPT !.id = IF mm.imei THEN "IMSI" ELSE "IMEI"] \in LegType
    BY <1>7, <1>leg, <2>1, LegSet, Values, Zenon
  <2>3. mm' \in MmType
    BY <1>7, <1>mm, <2>1, <2>2, MmValues, MmSet, Values, Zenon DEF GmmAuthorize,
       PmmConnect
  <2>4. auth' \in AuthType
    BY <1>7, <1>auth, <2>1, <2>2, AuthSet, Values, ZenonT(30) DEF GmmAuthorize
  <2>5. leg' \in LegType
    BY <1>7, <1>leg, <2>1, <2>2, LegSet, Values, Zenon DEF GmmAuthorize
  <2>6. iu' \in IuType
    BY <1>7, <1>iu, <2>1, <2>2, IuSet, Values, Zenon DEF GmmAuthorize
  <2>7. obs' \in ObsType
    BY <1>7, <1>obs, <2>1, <2>2, ObsSet, Values, Zenon DEF GmmAuthorize
  <2>8. stack' \in Seq(Frame)
    BY <1>7, <2>1, <2>2, StackNext, CallFrame, CallWithFrame, Zenon DEF TypeOK,
       GmmAuthorize, PlainFns
  <2> QED
    BY <1>7, <2>1, <2>2, <2>3, <2>4, <2>5, <2>6, <2>7, <2>8 DEF TypeOK, GmmAuthorize
<1> QED
  BY <1>1, <1>2, <1>3, <1>4, <1>5, <1>6, <1>7 DEF AuthStep

\* The end of a context and of a GSUP handler keep them.
LEMMA EndTypes == TypeOK /\ EndStep => TypeOK'
<1> SUFFICES ASSUME TypeOK, EndStep PROVE TypeOK'
  OBVIOUS
<1>mm. mm \in MmType
  BY DEF TypeOK
<1>sub. sub \in SubType
  BY DEF TypeOK
<1>hlr. hlr \in HlrType
  BY DEF TypeOK
<1>obs. obs \in ObsType
  BY DEF TypeOK
<1>1. CASE CleanupFree
  <2>1. hlr.purge + 1 \in Nat
    BY <1>1, <1>hlr, HlrSet
  <2>2. (Len(stack) > 1) \in BOOLEAN
    BY <1>1, SMT
  <2>3. NoSub \in SubType /\ Unlinked(sub) \in SubType
    BY <1>1, <1>sub, SubSet, NewTypes, Values, Zenon DEF Unlinked
  <2>4. sub' \in SubType
    BY <1>1, <1>sub, <2>1, <2>2, <2>3, SubSet, Values, Zenon DEF CleanupFree
  <2>5. hlr' \in HlrType
    BY <1>1, <1>hlr, <2>1, <2>2, <2>3, HlrSet, Values, Zenon DEF CleanupFree
  <2>6. obs' \in ObsType
    BY <1>1, <1>obs, <2>1, <2>2, <2>3, ObsSet, Values, Zenon DEF CleanupFree
  <2> QED
    BY <1>1, <2>1, <2>2, <2>3, <2>4, <2>5, <2>6, NewTypes, StackFirst DEF TypeOK,
       CleanupFree
<1>2. CASE RncLossRelease
  <2>1. mm' \in MmType
    BY <1>2, <1>mm, MmValues, MmSet, Values, Zenon DEF RncLossRelease, PmmRelease
  <2>2. stack' \in Seq(Frame)
    BY <1>2, StackNext, CallFrame, CallWithFrame, Zenon DEF TypeOK, RncLossRelease
  <2> QED
    BY <1>2, <2>1, <2>2, NewTypes DEF TypeOK, RncLossRelease
<1>3. CASE SubscrCleanup
  <2>1. sub' \in SubType
    BY <1>3, <1>sub, SubSet, Values, Zenon DEF SubscrCleanup
  <2> QED
    BY <1>3, <2>1 DEF TypeOK, SubscrCleanup, GsupType
<1>4. CASE SubscrPut
  <2>1. sub' \in SubType
    BY <1>4, <1>sub, NewTypes, SubSet, Values, Zenon DEF SubscrPut
  <2> QED
    BY <1>4, <2>1 DEF TypeOK, SubscrPut, GsupType
<1> QED
  BY <1>1, <1>2, <1>3, <1>4 DEF EndStep

\* The operators on the GMM and MM states.
LEMMA MmOps ==
  /\ \A m \in MmType : Heard(m) \in MmType
  /\ \A g \in GmmStates : Registered(g) \in GmmStates
  /\ \A x \in MmStates : PmmConnect(x) \in MmStates /\ PmmRelease(x) \in MmStates
<1>1. \A m \in MmType : Heard(m) \in MmType
  BY MmValues, MmSet, Zenon DEF Heard
<1> QED
  BY <1>1, MmValues, Zenon DEF Registered, PmmConnect, PmmRelease

\* The messages of the MS keep the types.
LEMMA MsTypes == TypeOK /\ MsInput => TypeOK'
<1> SUFFICES ASSUME TypeOK, MsInput PROVE TypeOK'
  OBVIOUS
<1>mm. mm \in MmType
  BY DEF TypeOK
<1>auth. auth \in AuthType
  BY DEF TypeOK
<1>leg. leg \in LegType
  BY DEF TypeOK
<1>iu. iu \in IuType
  BY DEF TypeOK
<1>sub. sub \in SubType
  BY DEF TypeOK
<1>hlr. hlr \in HlrType
  BY DEF TypeOK
<1>obs. obs \in ObsType
  BY DEF TypeOK
<1>1. ASSUME NEW m \in Reqs, NEW known \in BOOLEAN, NEW newconn \in BOOLEAN,
             RxAttachReq(m, known, newconn)
      PROVE  TypeOK'
  <2>1. "E_ATTACH_REQ_RECV" \in ReqFns
    BY <1>1, Zenon DEF ReqFns
  <2>2. mm' \in MmType
    BY <1>1, <1>mm, <2>1, MmValues, MmSet, Values, Zenon DEF RxAttachReq, Heard
  <2>3. iu' \in IuType
    BY <1>1, <1>iu, <2>1, IuSet, Values, Zenon DEF RxAttachReq, Connection, IuType
  <2>4. stack' \in Seq(Frame)
    BY <1>1, <2>1, StackFirst, CallFrame, CallWithFrame, Zenon DEF TypeOK, RxAttachReq
  <2> QED
    BY <1>1, <2>1, <2>2, <2>3, <2>4 DEF TypeOK, RxAttachReq
<1>2. CASE RxAttachReqRefused
  <2>1. stack' \in Seq(Frame)
    BY <1>2, StackFirst, CallFrame, CallWithFrame, Zenon DEF TypeOK,
       RxAttachReqRefused, PlainFns, Drop
  <2> QED
    BY <1>2, <2>1 DEF TypeOK, RxAttachReqRefused, Drop
<1>3. CASE RxRauReqRefused
  <2>1. stack' \in Seq(Frame)
    BY <1>3, StackFirst, CallFrame, CallWithFrame, Zenon DEF TypeOK, RxRauReqRefused,
       PlainFns, Drop
  <2> QED
    BY <1>3, <2>1 DEF TypeOK, RxRauReqRefused, Drop
<1>4. CASE RxDetach
  <2>1. stack' \in Seq(Frame)
    BY <1>4, StackFirst, CallFrame, CallWithFrame, Zenon DEF TypeOK, RxDetach,
       PlainFns, Drop
  <2> QED
    BY <1>4, <2>1 DEF TypeOK, RxDetach, Drop
<1>5. CASE AccessCancelledByOperator
  <2>1. stack' \in Seq(Frame)
    BY <1>5, StackFirst, CallFrame, CallWithFrame, Zenon DEF TypeOK,
       AccessCancelledByOperator, PlainFns, Drop
  <2> QED
    BY <1>5, <2>1 DEF TypeOK, AccessCancelledByOperator, Drop
<1>6. ASSUME NEW type \in {"IMSI", "IMEI", "OTHER"}, RxIdResp(type) PROVE TypeOK'
  <2>1. type \in IdTypes
    BY <1>6, Values, Zenon
  <2>2. leg' \in LegType
    BY <1>6, <1>leg, <2>1, LegSet, Values, Zenon DEF RxIdResp, TimerStopAll
  <2>3. mm' \in MmType
    BY <1>6, <1>mm, <2>1, MmValues, MmSet, Values, Zenon DEF RxIdResp, Heard
  <2>4. stack' \in Seq(Frame)
    BY <1>6, <2>1, StackFirst, CallFrame, CallWithFrame, Zenon DEF TypeOK, RxIdResp
  <2> QED
    BY <1>6, <2>1, <2>2, <2>3, <2>4 DEF TypeOK, RxIdResp
<1>7. ASSUME NEW good \in BOOLEAN, RxAuthCiphResp(good) PROVE TypeOK'
  <2>1. leg' \in LegType
    BY <1>7, <1>leg, LegSet, Values, Zenon DEF RxAuthCiphResp, TimerStopAll
  <2>2. mm' \in MmType
    BY <1>7, <1>mm, MmValues, MmSet, Values, Zenon DEF RxAuthCiphResp, Heard
  <2>3. auth' \in AuthType
    BY <1>7, <1>auth, AuthSet, Values, Zenon DEF RxAuthCiphResp
  <2>4. obs' \in ObsType
    BY <1>7, <1>obs, ObsSet, Values, Zenon DEF RxAuthCiphResp
  <2>5. stack' \in Seq(Frame)
    BY <1>7, StackFirst, CallFrame, CallWithFrame, Zenon DEF TypeOK, RxAuthCiphResp,
       PlainFns
  <2> QED
    BY <1>7, <2>1, <2>2, <2>3, <2>4, <2>5 DEF TypeOK, RxAuthCiphResp
<1>8. CASE RxAuthCiphRespMalformed
  <2>1. leg' \in LegType
    BY <1>8, <1>leg, LegSet, Values, Zenon DEF RxAuthCiphRespMalformed, TimerStopAll
  <2>2. mm' \in MmType
    BY <1>8, <1>mm, MmValues, MmSet, Values, Zenon DEF RxAuthCiphRespMalformed, Heard
  <2> QED
    BY <1>8, <2>1, <2>2 DEF TypeOK, RxAuthCiphRespMalformed
<1>9. ASSUME NEW auts \in BOOLEAN, RxAuthCiphFail(auts) PROVE TypeOK'
  <2>1. \A ok \in Sends : [LinkedSub EXCEPT !.aip = ok] \in SubType
    BY <1>9, <1>sub, ConstAssumption, SubSet, Values, Zenon DEF LinkedSub
  <2>2. hlr.sai + 1 \in Nat
    BY <1>9, <1>hlr, HlrSet
  <2>3. [NoVector(auth) EXCEPT !.state = "UMTS_RESYNC"] \in AuthType
    BY <1>9, <1>auth, AuthSet, Values, Zenon DEF NoVector
  <2>4. mm' \in MmType
    BY <1>9, <1>mm, <2>1, <2>2, <2>3, MmValues, MmSet, Values,
       Zenon DEF RxAuthCiphFail, Heard
  <2>5. auth' \in AuthType
    BY <1>9, <1>auth, <2>1, <2>2, <2>3, AuthSet, Values, Zenon DEF RxAuthCiphFail
  <2>6. sub' \in SubType
    BY <1>9, <1>sub, <2>1, <2>2, <2>3, SubSet, Values, ZenonT(30) DEF RxAuthCiphFail
  <2>7. hlr' \in HlrType
    BY <1>9, <1>hlr, <2>1, <2>2, <2>3, HlrSet, Values, ZenonT(30) DEF RxAuthCiphFail
  <2>8. stack' \in Seq(Frame)
    BY <1>9, <2>1, <2>2, <2>3, StackFirst, CallFrame, CallWithFrame,
       Zenon DEF TypeOK, RxAuthCiphFail, PlainFns
  <2> QED
    BY <1>9, <2>1, <2>2, <2>3, <2>4, <2>5, <2>6, <2>7, <2>8 DEF TypeOK, RxAuthCiphFail
<1>10. CASE RxAttachCompl
  <2>1. \A st \in MmStates : (IF Gb THEN (IF st = "MM_IDLE" THEN "MM_READY" ELSE st)
                                         ELSE "PMM_CONNECTED") \in MmStates
    BY <1>10, MmValues, Zenon
  <2>2. leg' \in LegType
    BY <1>10, <1>leg, <2>1, LegSet, Values, Zenon DEF RxAttachCompl, PtmsiAssigned,
       TimerStopAll
  <2>3. mm' \in MmType
    BY <1>10, <1>mm, <2>1, MmOps, MmSet, Values, Zenon DEF RxAttachCompl
  <2>4. stack' \in Seq(Frame)
    BY <1>10, <2>1, StackFirst, CallFrame, CallWithFrame, Zenon DEF TypeOK,
       RxAttachCompl, PlainFns
  <2> QED
    BY <1>10, <2>1, <2>2, <2>3, <2>4 DEF TypeOK, RxAttachCompl
<1>11. ASSUME NEW newconn \in BOOLEAN, RxRauReq(newconn) PROVE TypeOK'
  <2>1. TimerStart(leg, "T3350") \in LegType
    BY <1>11, <1>leg, LegSet, Values, Zenon DEF TimerStart
  <2>2. leg' \in LegType
    BY <1>11, <1>leg, <2>1, LegSet, Values, Zenon DEF RxRauReq
  <2>3. mm' \in MmType
    BY <1>11, <1>mm, <2>1, MmValues, MmSet, Values, Zenon DEF RxRauReq, Heard
  <2>4. iu' \in IuType
    BY <1>11, <1>iu, <2>1, IuSet, Values, Zenon DEF RxRauReq, Connection, IuType
  <2>5. stack' \in Seq(Frame)
    BY <1>11, <2>1, StackFirst, CallFrame, CallWithFrame, Zenon DEF TypeOK, RxRauReq,
       PlainFns
  <2> QED
    BY <1>11, <2>1, <2>2, <2>3, <2>4, <2>5 DEF TypeOK, RxRauReq
<1>12. CASE RxRauCompl
  <2>1. leg' \in LegType
    BY <1>12, <1>leg, LegSet, Values, Zenon DEF RxRauCompl, PtmsiAssigned, TimerStopAll
  <2>2. mm' \in MmType
    BY <1>12, <1>mm, MmOps, MmSet, Values, Zenon DEF RxRauCompl
  <2> QED
    BY <1>12, <2>1, <2>2 DEF TypeOK, RxRauCompl
<1>13. CASE RxPtmsiReallCompl
  <2>1. leg' \in LegType
    BY <1>13, <1>leg, LegSet, Values, Zenon DEF RxPtmsiReallCompl, PtmsiAssigned,
       TimerStopAll
  <2>2. mm' \in MmType
    BY <1>13, <1>mm, MmValues, MmSet, Values, Zenon DEF RxPtmsiReallCompl, Heard
  <2> QED
    BY <1>13, <2>1, <2>2 DEF TypeOK, RxPtmsiReallCompl
<1>14. ASSUME NEW newconn \in BOOLEAN, NEW refused \in BOOLEAN,
             RxServiceReq(newconn, refused)
      PROVE  TypeOK'
  <2>1. leg' \in LegType
    BY <1>14, <1>leg, LegSet, Values, Zenon DEF RxServiceReq
  <2>2. mm' \in MmType
    BY <1>14, <1>mm, MmValues, MmSet, Values, Zenon DEF RxServiceReq
  <2>3. iu' \in IuType
    BY <1>14, <1>iu, IuSet, Values, Zenon DEF RxServiceReq, Connection, IuType
  <2>4. stack' \in Seq(Frame)
    BY <1>14, StackFirst, CallFrame, CallWithFrame, Zenon DEF TypeOK, RxServiceReq,
       PlainFns
  <2> QED
    BY <1>14, <2>1, <2>2, <2>3, <2>4 DEF TypeOK, RxServiceReq
<1>15. CASE Suspend
  <2>1. mm' \in MmType
    BY <1>15, <1>mm, MmValues, MmSet, Values, Zenon DEF Suspend
  <2> QED
    BY <1>15, <2>1 DEF TypeOK, Suspend
<1>16. CASE Resume
  <2>1. mm' \in MmType
    BY <1>16, <1>mm, MmValues, MmSet, Values, Zenon DEF Resume
  <2> QED
    BY <1>16, <2>1 DEF TypeOK, Resume
<1> QED
  BY <1>1, <1>2, <1>3, <1>4, <1>5, <1>6, <1>7, <1>8, <1>9, <1>10, <1>11, <1>12,
     <1>13, <1>14, <1>15, <1>16 DEF MsInput

\* num_T_exp stays within its bound.
LEMMA ExpiredType == \A l \in LegType : Expired(l) \in LegType
<1> TAKE l \in LegType
<1>1. (IF l.n < MaxExpiry THEN l.n + 1 ELSE l.n) \in Expirations
  BY LegSet, ConstAssumption DEF Expirations
<1> QED
  BY <1>1, LegSet, Zenon DEF Expired

\* So do the timers.
LEMMA TimerTypes == TypeOK /\ TimerInput => TypeOK'
<1> SUFFICES ASSUME TypeOK, TimerInput PROVE TypeOK'
  OBVIOUS
<1>mm. mm \in MmType
  BY DEF TypeOK
<1>att. att \in AttType
  BY DEF TypeOK
<1>auth. auth \in AuthType
  BY DEF TypeOK
<1>leg. leg \in LegType
  BY DEF TypeOK
<1>1. CASE FsmTimeout
  <2>1. Expired(leg) \in LegType
    BY <1>1, <1>leg, LegSet, ExpiredType
  <2>2. leg' \in LegType
    BY <1>1, <1>leg, <2>1, LegSet, Values, Zenon DEF FsmTimeout
  <2>3. att' \in AttType
    BY <1>1, <1>att, <2>1, AttSet, Values, Zenon DEF FsmTimeout
  <2>4. auth' \in AuthType
    BY <1>1, <1>auth, <2>1, AuthSet, Values, Zenon DEF FsmTimeout
  <2>5. stack' \in Seq(Frame)
    BY <1>1, <2>1, StackFirst, CallFrame, CallWithFrame, Zenon DEF TypeOK,
       FsmTimeout, PlainFns
  <2> QED
    BY <1>1, <2>1, <2>2, <2>3, <2>4, <2>5 DEF TypeOK, FsmTimeout
<1>2. CASE LegacyTimeout
  <2>1. Expired(leg) \in LegType
    BY <1>2, <1>leg, LegSet, ExpiredType
  <2>2. leg' \in LegType
    BY <1>2, <1>leg, <2>1, LegSet, Values, ZenonT(30) DEF LegacyTimeout
  <2>3. auth' \in AuthType
    BY <1>2, <1>auth, <2>1, AuthSet, Values, ZenonT(30) DEF LegacyTimeout
  <2>4. stack' \in Seq(Frame)
    BY <1>2, <2>1, StackFirst, CallFrame, CallWithFrame, Zenon DEF TypeOK,
       LegacyTimeout, PlainFns
  <2> QED
    BY <1>2, <2>1, <2>2, <2>3, <2>4 DEF TypeOK, LegacyTimeout
<1>3. CASE ReadyTimeout
  <2>1. mm' \in MmType
    BY <1>3, <1>mm, MmValues, MmSet, Values, Zenon DEF ReadyTimeout
  <2> QED
    BY <1>3, <2>1 DEF TypeOK, ReadyTimeout
<1> QED
  BY <1>1, <1>2, <1>3 DEF TimerInput

\* And the Iu events.
LEMMA IuTypes == TypeOK /\ IuInput => TypeOK'
<1> SUFFICES ASSUME TypeOK, IuInput PROVE TypeOK'
  OBVIOUS
<1>mm. mm \in MmType
  BY DEF TypeOK
<1>att. att \in AttType
  BY DEF TypeOK
<1>iu. iu \in IuType
  BY DEF TypeOK
<1>1. CASE IuRelease
  <2>1. mm' \in MmType
    BY <1>1, <1>mm, MmValues, MmSet, Values, Zenon DEF IuRelease, PmmRelease
  <2>2. iu' \in IuType
    BY <1>1, <1>iu, NewTypes, IuSet, Values, Zenon DEF IuRelease
  <2>3. stack' \in Seq(Frame)
    BY <1>1, StackFirst, CallFrame, CallWithFrame, Zenon DEF TypeOK, IuRelease, PlainFns
  <2> QED
    BY <1>1, <2>1, <2>2, <2>3 DEF TypeOK, IuRelease
<1>2. CASE SecurityModeComplete
  <2>1. iu' \in IuType
    BY <1>2, <1>iu, IuSet, Values, Zenon DEF SecurityModeComplete
  <2>2. stack' \in Seq(Frame)
    BY <1>2, StackFirst, CallFrame, CallWithFrame, Zenon DEF TypeOK,
       SecurityModeComplete, PlainFns
  <2> QED
    BY <1>2, <2>1, <2>2 DEF TypeOK, SecurityModeComplete
<1>3. CASE RncLoss
  <2>1. Call("E_REJECT") \in Frame /\ Call("rnc_loss_release") \in Frame
    BY <1>3, CallFrame, Zenon DEF PlainFns
  <2>2. att' \in AttType
    BY <1>3, <1>att, <2>1, AttSet, Values, Zenon DEF RncLoss
  <2>3. stack' \in Seq(Frame)
    BY <1>3, <2>1, StackFirst, CallFrame, CallWithFrame, Zenon DEF TypeOK, RncLoss,
       PlainFns
  <2> QED
    BY <1>3, <2>1, <2>2, <2>3 DEF TypeOK, RncLoss
<1>4. CASE GtpuErrorInd
  <2>1. mm' \in MmType
    BY <1>4, <1>mm, MmValues, MmSet, Zenon DEF GtpuErrorInd
  <2> QED
    BY <1>4, <2>1, NewTypes DEF TypeOK, GtpuErrorInd
<1>5. CASE RabRespUnknown
  BY <1>5, NewTypes DEF TypeOK, RabRespUnknown
<1> QED
  BY <1>1, <1>2, <1>3, <1>4, <1>5 DEF IuInput

\* What an HLR message makes of the stack.
LEMMA TellContextType ==
  \A f \in PlainFns : TellContext(f) => stack' \in Seq(Frame)
  BY StackFirst, CallFrame, Zenon DEF TellContext

\* And the messages of the HLR.
LEMMA HlrTypes == TypeOK /\ HlrInput => TypeOK'
<1> SUFFICES ASSUME TypeOK, HlrInput PROVE TypeOK'
  OBVIOUS
<1>sub. sub \in SubType
  BY DEF TypeOK
<1>hlr. hlr \in HlrType
  BY DEF TypeOK
<1>obs. obs \in ObsType
  BY DEF TypeOK
<1>loc. [obs EXCEPT !.loc = InAttach] \in ObsType
  BY <1>obs, ObsSet, Zenon DEF InAttach
<1>1. ASSUME NEW n \in 0..MaxVec, SaiResult(n) PROVE TypeOK'
  <2>1. "sgsn_auth_update" \in PlainFns /\ "gsm0408_gprs_access_denied" \in PlainFns
    BY <1>1, Zenon DEF PlainFns
  <2>2. "put" \in GsupType /\ "cancel" \in GsupType
    BY <1>1, Zenon DEF GsupType
  <2>3. stack' \in Seq(Frame)
    BY <1>1, <2>1, TellContextType, Zenon DEF TypeOK, SaiResult
  <2>4. gsup' \in GsupType
    BY <1>1, <2>2, Zenon DEF TypeOK, SaiResult
  <2>5. n \in Nat
    BY <1>1, ConstAssumption
  <2>6. hlr.sai > 0 => hlr.sai - 1 \in Nat
    BY <1>1, <1>hlr, HlrSet
  <2>7. [sub EXCEPT !.vec = IF n > 0 THEN n ELSE @,
                     !.upd = TRUE, !.err = FALSE, !.aip = FALSE] \in SubType
    BY <1>1, <1>sub, <2>5, SubSet, Values, Zenon
  <2>8. sub' \in SubType
    BY <1>1, <1>sub, <2>1, <2>2, <2>3, <2>4, <2>5, <2>6, <2>7, SubSet, Values,
       Zenon DEF SaiResult
  <2>9. hlr' \in HlrType
    BY <1>1, <1>hlr, <2>1, <2>2, <2>3, <2>4, <2>5, <2>6, <2>7, HlrSet, Values,
       Zenon DEF SaiResult
  <2> QED
    BY <1>1, <2>1, <2>2, <2>3, <2>4, <2>5, <2>6, <2>7, <2>8, <2>9 DEF TypeOK, SaiResult
<1>2. ASSUME NEW kind \in ErrKinds, SaiError(kind) PROVE TypeOK'
  <2>1. "sgsn_auth_update" \in PlainFns /\ "gsm0408_gprs_access_denied" \in PlainFns
    BY <1>2, Zenon DEF PlainFns
  <2>2. "put" \in GsupType /\ "cancel" \in GsupType
    BY <1>2, Zenon DEF GsupType
  <2>3. stack' \in Seq(Frame)
    BY <1>2, <2>1, TellContextType, Zenon DEF TypeOK, SaiError
  <2>4. gsup' \in GsupType
    BY <1>2, <2>2, Zenon DEF TypeOK, SaiError
  <2>5. hlr.sai > 0 => hlr.sai - 1 \in Nat
    BY <1>2, <1>hlr, HlrSet
  <2>6. [sub EXCEPT !.err = TRUE, !.vec = IF kind = "EACCES" THEN 0 ELSE @,
                     !.authz = @ /\ kind # "EACCES", !.aip = @ /\ kind = "EINVAL"] \in SubType
    BY <1>2, <1>sub, SubSet, Values, Zenon
  <2>7. sub' \in SubType
    BY <1>2, <1>sub, <2>1, <2>2, <2>3, <2>4, <2>5, <2>6, SubSet, Values,
       Zenon DEF SaiError
  <2>8. hlr' \in HlrType
    BY <1>2, <1>hlr, <2>1, <2>2, <2>3, <2>4, <2>5, <2>6, HlrSet, Values,
       Zenon DEF SaiError
  <2> QED
    BY <1>2, <2>1, <2>2, <2>3, <2>4, <2>5, <2>6, <2>7, <2>8 DEF TypeOK, SaiError
<1>3. ASSUME NEW kind \in ErrKinds, UlError(kind) PROVE TypeOK'
  <2>1. "sgsn_auth_update" \in PlainFns /\ "gsm0408_gprs_access_denied" \in PlainFns
    BY <1>3, Zenon DEF PlainFns
  <2>2. "put" \in GsupType /\ "cancel" \in GsupType
    BY <1>3, Zenon DEF GsupType
  <2>3. stack' \in Seq(Frame)
    BY <1>3, <2>1, TellContextType, Zenon DEF TypeOK, UlError
  <2>4. gsup' \in GsupType
    BY <1>3, <2>2, Zenon DEF TypeOK, UlError
  <2>5. hlr.ul > 0 => hlr.ul - 1 \in Nat
    BY <1>3, <1>hlr, HlrSet
  <2>6. [sub EXCEPT !.err = TRUE, !.aip = FALSE, !.authz = @ /\ kind # "EACCES"] \in SubType
    BY <1>3, <1>sub, SubSet, Values, Zenon
  <2>7. sub' \in SubType
    BY <1>3, <1>sub, <2>1, <2>2, <2>3, <2>4, <2>5, <2>6, SubSet, Values,
       Zenon DEF UlError
  <2>8. hlr' \in HlrType
    BY <1>3, <1>hlr, <2>1, <2>2, <2>3, <2>4, <2>5, <2>6, HlrSet, Values,
       Zenon DEF UlError
  <2> QED
    BY <1>3, <2>1, <2>2, <2>3, <2>4, <2>5, <2>6, <2>7, <2>8 DEF TypeOK, UlError
<1>4. CASE UlResult
  <2>1. "sgsn_auth_update" \in PlainFns /\ "gsm0408_gprs_access_denied" \in PlainFns
    BY <1>4, Zenon DEF PlainFns
  <2>2. "put" \in GsupType /\ "cancel" \in GsupType
    BY <1>4, Zenon DEF GsupType
  <2>3. stack' \in Seq(Frame)
    BY <1>4, <2>1, TellContextType, Zenon DEF TypeOK, UlResult
  <2>4. gsup' \in GsupType
    BY <1>4, <2>2, Zenon DEF TypeOK, UlResult
  <2>5. hlr.ul > 0 => hlr.ul - 1 \in Nat
    BY <1>4, <1>hlr, HlrSet
  <2>6. DataInserted(sub) \in SubType
    BY <1>4, <1>sub, SubSet, Values, Zenon DEF DataInserted
  <2>7. sub' \in SubType
    BY <1>4, <1>sub, <2>1, <2>2, <2>3, <2>4, <2>5, <2>6, SubSet, Values,
       Zenon DEF UlResult
  <2>8. hlr' \in HlrType
    BY <1>4, <1>hlr, <2>1, <2>2, <2>3, <2>4, <2>5, <2>6, HlrSet, Values,
       Zenon DEF UlResult
  <2>9. obs' \in ObsType
    BY <1>4, <1>obs, <1>loc, Zenon DEF UlResult
  <2> QED
    BY <1>4, <2>1, <2>2, <2>3, <2>4, <2>5, <2>6, <2>7, <2>8, <2>9 DEF TypeOK, UlResult
<1>5. CASE InsertData
  <2>1. "sgsn_auth_update" \in PlainFns /\ "gsm0408_gprs_access_denied" \in PlainFns
    BY <1>5, Zenon DEF PlainFns
  <2>2. "put" \in GsupType /\ "cancel" \in GsupType
    BY <1>5, Zenon DEF GsupType
  <2>3. stack' \in Seq(Frame)
    BY <1>5, <2>1, TellContextType, Zenon DEF TypeOK, InsertData
  <2>4. gsup' \in GsupType
    BY <1>5, <2>2, Zenon DEF TypeOK, InsertData
  <2>5. sub' \in SubType
    BY <1>5, <1>sub, <2>1, <2>2, <2>3, <2>4, SubSet, Values, Zenon DEF InsertData,
       DataInserted
  <2>6. obs' \in ObsType
    BY <1>5, <1>loc, Zenon DEF InsertData
  <2> QED
    BY <1>5, <2>1, <2>2, <2>3, <2>4, <2>5, <2>6 DEF TypeOK, InsertData
<1>6. CASE DeleteData
  <2>1. "sgsn_auth_update" \in PlainFns /\ "gsm0408_gprs_access_denied" \in PlainFns
    BY <1>6, Zenon DEF PlainFns
  <2>2. "put" \in GsupType /\ "cancel" \in GsupType
    BY <1>6, Zenon DEF GsupType
  <2>3. stack' \in Seq(Frame)
    BY <1>6, <2>1, TellContextType, Zenon DEF TypeOK, DeleteData
  <2>4. gsup' \in GsupType
    BY <1>6, <2>2, Zenon DEF TypeOK, DeleteData
  <2>5. obs' \in ObsType
    BY <1>6, <1>obs, <2>1, <2>2, <2>3, <2>4, ObsSet, Values, Zenon DEF DeleteData
  <2> QED
    BY <1>6, <2>1, <2>2, <2>3, <2>4, <2>5 DEF TypeOK, DeleteData
<1>7. ASSUME NEW withdraw \in BOOLEAN, LocationCancel(withdraw) PROVE TypeOK'
  <2>1. "sgsn_auth_update" \in PlainFns /\ "gsm0408_gprs_access_denied" \in PlainFns
    BY <1>7, Zenon DEF PlainFns
  <2>2. "put" \in GsupType /\ "cancel" \in GsupType
    BY <1>7, Zenon DEF GsupType
  <2>3. stack' \in Seq(Frame)
    BY <1>7, <2>1, TellContextType, Zenon DEF TypeOK, LocationCancel, Cancel
  <2>4. gsup' \in GsupType
    BY <1>7, <2>2, Zenon DEF TypeOK, LocationCancel, Cancel
  <2>5. sub' \in SubType
    BY <1>7, <1>sub, <2>1, <2>2, <2>3, <2>4, SubSet, Values,
       Zenon DEF LocationCancel, Cancel
  <2> QED
    BY <1>7, <2>1, <2>2, <2>3, <2>4, <2>5 DEF TypeOK, LocationCancel
<1>8. CASE PurgeAnswer
  <2>1. "sgsn_auth_update" \in PlainFns /\ "gsm0408_gprs_access_denied" \in PlainFns
    BY <1>8, Zenon DEF PlainFns
  <2>2. "put" \in GsupType /\ "cancel" \in GsupType
    BY <1>8, Zenon DEF GsupType
  <2>3. stack' \in Seq(Frame)
    BY <1>8, <2>1, TellContextType, Zenon DEF TypeOK, PurgeAnswer, Cancel
  <2>4. gsup' \in GsupType
    BY <1>8, <2>2, Zenon DEF TypeOK, PurgeAnswer, Cancel
  <2>5. hlr.purge > 0 => hlr.purge - 1 \in Nat
    BY <1>8, <1>hlr, HlrSet
  <2>6. [sub EXCEPT !.err = FALSE, !.authz = FALSE, !.canc = TRUE,
                     !.purge = FALSE, !.ulp = FALSE] \in SubType
    BY <1>8, <1>sub, SubSet, Values, Zenon
  <2>7. sub' \in SubType
    BY <1>8, <1>sub, <2>1, <2>2, <2>3, <2>4, <2>5, <2>6, SubSet, Values,
       Zenon DEF PurgeAnswer, Cancel
  <2>8. hlr' \in HlrType
    BY <1>8, <1>hlr, <2>1, <2>2, <2>3, <2>4, <2>5, <2>6, HlrSet, Values,
       Zenon DEF PurgeAnswer
  <2> QED
    BY <1>8, <2>1, <2>2, <2>3, <2>4, <2>5, <2>6, <2>7, <2>8 DEF TypeOK, PurgeAnswer
<1>9. CASE HlrLost
  <2>1. [sai |-> 0, ul |-> 0, purge |-> 0] \in HlrType
    BY <1>9, Values, Zenon DEF HlrType
  <2>2. hlr' \in HlrType
    BY <1>9, <1>hlr, <2>1, HlrSet, Values, Zenon DEF HlrLost
  <2> QED
    BY <1>9, <2>1, <2>2 DEF TypeOK, HlrLost
<1> QED
  BY <1>1, <1>2, <1>3, <1>4, <1>5, <1>6, <1>7, <1>8, <1>9 DEF HlrInput, HlrAnswer

\* The start: no context and no subscriber.
LEMMA InitTypes == Init => TypeOK
<1> SUFFICES ASSUME Init PROVE TypeOK
  OBVIOUS
<1>1. hlr \in HlrType
  BY Values, Zenon DEF Init, HlrType
<1>2. obs \in ObsType
  BY Zenon DEF Init, ObsType
<1> QED
  BY <1>1, <1>2, NewTypes, StackFirst DEF Init, TypeOK, GsupType

\* Every handler, timer and HLR message keeps the types.
LEMMA NextTypes == TypeOK /\ [Next]_vars => TypeOK'
<1> SUFFICES ASSUME TypeOK, [Next]_vars PROVE TypeOK'
  OBVIOUS
<1>1. CASE HandlerStep
  BY <1>1, AttachFsmTypes, AuthTypesKept, EndTypes DEF HandlerStep
<1>2. CASE MsInput \/ TimerInput \/ IuInput \/ HlrInput
  BY <1>2, MsTypes, TimerTypes, IuTypes, HlrTypes
<1>3. CASE UNCHANGED vars
  BY <1>3 DEF TypeOK, vars
<1> QED
  BY <1>1, <1>2, <1>3 DEF Next

\* Every variable of the context, the subscriber and the call stack keeps
\* its type: in particular no HLR answer is counted that was not asked for,
\* no vector is taken from an empty store, and a function is only called
\* with an argument of its own kind.
THEOREM TypeCorrect == Spec => []TypeOK
  BY InitTypes, NextTypes, PTL DEF Spec

=============================================================================
