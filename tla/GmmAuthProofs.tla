--------------------------- MODULE GmmAuthProofs ---------------------------
(***************************************************************************)
(* The Attach Accept is only sent to an MS that was authenticated in this  *)
(* attach: the property AcceptAuthenticated of GmmContext, proved for      *)
(* every configuration and every value of the bounds.                      *)
(***************************************************************************)
EXTENDS GmmContextProofs, SequenceTheorems

-----------------------------------------------------------------------------
(* Only an authenticated MS is accepted.                                   *)

RequireAuth == Remote /\ cfg.require_auth

\* Calls that are made only for an MS that has answered its challenge.
NeedsAka(f) ==
  \/ f.fn \in {"E_AUTH_RESP_RECV_SUCCESS", "attach_proceed_after_auth"}
  \/ f.fn = "state_chg" /\ f.d \in {"ACCEPT", "IU_SECURITY_CMD"}

\* What can be left to do after a nested call.
Continuations == {"attach_proceed_after_auth", "auth_reattempt++", "rnc_loss_release"}

\* The calls under way.  A new attach starts on an otherwise empty stack, so
\* that nothing decided for the attach before it is done in the new one.
FramesAuthenticated ==
  /\ RequireAuth => \A i \in 1..Len(stack) : NeedsAka(stack[i]) => obs.aka
  /\ \A i \in 2..Len(stack) : stack[i].fn \in Continuations
  /\ stack # <<>> /\ Head(stack).fn \in ReqFns => Len(stack) = 1
  /\ stack # <<>> /\ Head(stack).fn = "st_init" => att.st \in {"INIT", "REJECT"}

\* The state: sec_ctx, auth_state and the states of the attach FSM that are
\* reached after the authentication.
StateAuthenticated ==
  RequireAuth /\ (\/ auth.sec
                  \/ auth.state = "ACCEPTED"
                  \/ att.st \in {"IU_SECURITY_CMD", "ACCEPT"}) => obs.aka

\* The inductive invariant.
AkaInv == TypeOK /\ FramesAuthenticated /\ StateAuthenticated

\* A function that returns without a change that matters.
LEMMA ReturnKeeps ==
  ASSUME NEW f, TypeOK, FramesAuthenticated, Running(f), Return,
         UNCHANGED cfg, obs'.aka = obs.aka
  PROVE  FramesAuthenticated'
<1>1. /\ stack' \in Seq(Frame) /\ Len(stack') = Len(stack) - 1
      /\ \A i \in 1..Len(stack') : stack'[i] = stack[i + 1] /\ i + 1 \in 2..Len(stack)
  BY DEF TypeOK, Running, Return
<1>2. \A i \in 1..Len(stack') : stack'[i].fn \in Continuations
  BY <1>1 DEF FramesAuthenticated
<1>3. stack' # <<>> => Head(stack').fn \in Continuations
  BY <1>1, <1>2
<1>4. RequireAuth' = RequireAuth
  BY DEF RequireAuth, Remote
<1>5. RequireAuth => \A i \in 1..Len(stack') : NeedsAka(stack'[i]) => obs'.aka
  BY <1>1 DEF FramesAuthenticated
<1> QED
  BY <1>1, <1>2, <1>3, <1>4, <1>5 DEF FramesAuthenticated, Continuations, ReqFns, NeedsAka

\* A call as the last thing a function does.
LEMMA CallKeeps ==
  ASSUME NEW f, TypeOK, FramesAuthenticated, Running(f), NEW c \in Frame, Do(<<c>>),
         c.fn \notin ReqFns, RequireAuth /\ NeedsAka(c) => obs.aka,
         UNCHANGED cfg, obs'.aka = obs.aka
  PROVE  FramesAuthenticated'
<1>1. /\ stack' \in Seq(Frame) /\ Len(stack') = Len(stack) /\ stack'[1] = c
      /\ Head(stack') = c /\ \A i \in 2..Len(stack') : stack'[i] = stack[i]
  BY DEF TypeOK, Running, Do
<1>2. \A i \in 2..Len(stack') : stack'[i].fn \in Continuations
  BY <1>1 DEF FramesAuthenticated
<1>4. RequireAuth' = RequireAuth
  BY DEF RequireAuth, Remote
<1>5. RequireAuth => \A i \in 1..Len(stack') : NeedsAka(stack'[i]) => obs'.aka
  BY <1>1 DEF FramesAuthenticated
<1> QED
  BY <1>1, <1>2, <1>4, <1>5 DEF FramesAuthenticated, ReqFns, NeedsAka

\* A call that is followed by more.
LEMMA CallTwoKeeps ==
  ASSUME NEW f, TypeOK, FramesAuthenticated, Running(f),
         NEW c \in Frame, NEW e \in Frame, Do(<<c, e>>),
         c.fn \notin ReqFns, RequireAuth /\ NeedsAka(c) => obs.aka,
         e.fn \in Continuations, RequireAuth /\ NeedsAka(e) => obs.aka,
         UNCHANGED cfg, obs'.aka = obs.aka
  PROVE  FramesAuthenticated'
<1>1. /\ stack' \in Seq(Frame) /\ Len(stack') = Len(stack) + 1
      /\ stack'[1] = c /\ Head(stack') = c /\ stack'[2] = e
      /\ \A i \in 3..Len(stack') : stack'[i] = stack[i - 1] /\ i - 1 \in 2..Len(stack)
  BY DEF TypeOK, Running, Do
<1>2. \A i \in 2..Len(stack') : stack'[i].fn \in Continuations
  BY <1>1 DEF FramesAuthenticated
<1>4. RequireAuth' = RequireAuth
  BY DEF RequireAuth, Remote
<1>5. RequireAuth => \A i \in 1..Len(stack') : NeedsAka(stack'[i]) => obs'.aka
  BY <1>1 DEF FramesAuthenticated
<1> QED
  BY <1>1, <1>2, <1>4, <1>5 DEF FramesAuthenticated, ReqFns, NeedsAka

\* Calls that ask for no authentication.
Harmless == PlainFns \ {"E_AUTH_RESP_RECV_SUCCESS", "attach_proceed_after_auth"}

\* The three ways a function of the handler in progress ends keep the calls
\* under way authenticated.
LEMMA StepKeeps ==
  ASSUME NEW f, TypeOK, FramesAuthenticated, Running(f), UNCHANGED cfg, obs'.aka = obs.aka
  PROVE  /\ Return => FramesAuthenticated'
         /\ \A x \in Harmless : Do(<<Call(x)>>) => FramesAuthenticated'
         /\ \A x \in AttachStates :
              /\ Do(<<CallWith("state_chg", x)>>)
              /\ RequireAuth /\ x \in {"ACCEPT", "IU_SECURITY_CMD"} => obs.aka
              => FramesAuthenticated'
         /\ /\ Do(<<Call("attach_proceed_after_auth")>>)
            /\ RequireAuth => obs.aka
            => FramesAuthenticated'
<1>1. Return => FramesAuthenticated'
  BY ReturnKeeps
<1>2. ASSUME NEW x \in Harmless, Do(<<Call(x)>>) PROVE FramesAuthenticated'
  <2>1. /\ Call(x) \in Frame /\ Call(x).fn \notin ReqFns /\ ~NeedsAka(Call(x))
    BY CallFrame DEF Harmless, PlainFns, ReqFns, NeedsAka, Call
  <2> QED
    BY <1>2, <2>1, CallKeeps
<1>3. ASSUME NEW x \in AttachStates, Do(<<CallWith("state_chg", x)>>),
             RequireAuth /\ x \in {"ACCEPT", "IU_SECURITY_CMD"} => obs.aka
      PROVE  FramesAuthenticated'
  <2>1. /\ CallWith("state_chg", x) \in Frame
        /\ CallWith("state_chg", x).fn \notin ReqFns
        /\ NeedsAka(CallWith("state_chg", x)) => x \in {"ACCEPT", "IU_SECURITY_CMD"}
    BY CallWithFrame DEF ReqFns, NeedsAka, CallWith
  <2> QED
    BY <1>3, <2>1, CallKeeps
<1>4. ASSUME Do(<<Call("attach_proceed_after_auth")>>), RequireAuth => obs.aka
      PROVE  FramesAuthenticated'
  <2>1. /\ Call("attach_proceed_after_auth") \in Frame
        /\ Call("attach_proceed_after_auth").fn \notin ReqFns
    BY CallFrame DEF PlainFns, ReqFns, Call
  <2> QED
    BY <1>4, <2>1, CallKeeps
<1> QED
  BY <1>1, <1>2, <1>3, <1>4, Zenon

\* What a running function may rely on.
LEMMA RunningAka ==
  ASSUME NEW f, TypeOK, FramesAuthenticated, Running(f), RequireAuth
  PROVE  /\ f \in {"E_AUTH_RESP_RECV_SUCCESS", "attach_proceed_after_auth"} => obs.aka
         /\ f = "state_chg" /\ Data \in {"ACCEPT", "IU_SECURITY_CMD"} => obs.aka
<1>1. 1 \in 1..Len(stack) /\ stack[1] = Head(stack)
  BY DEF TypeOK, Running
<1>2. NeedsAka(Head(stack)) => obs.aka
  BY <1>1 DEF FramesAuthenticated
<1> QED
  BY <1>2 DEF NeedsAka, Running, Data

\* The state when nothing is gained.
LEMMA StateKeeps ==
  ASSUME StateAuthenticated, UNCHANGED cfg, obs'.aka = obs.aka,
         auth'.sec => auth.sec,
         auth'.state = "ACCEPTED" => auth.state = "ACCEPTED",
         att'.st \in {"IU_SECURITY_CMD", "ACCEPT"} => att.st \in {"IU_SECURITY_CMD", "ACCEPT"}
  PROVE  StateAuthenticated'
  BY Zenon DEF StateAuthenticated, RequireAuth, Remote

\* What an input starts.
LEMMA InputKeeps ==
  /\ stack' = <<>> => FramesAuthenticated'
  /\ \A x \in Harmless : stack' = <<Call(x)>> => FramesAuthenticated'
  /\ \A x \in IdTypes : stack' = <<CallWith("E_IDEN_RESP_RECV", x)>> => FramesAuthenticated'
  /\ \A x \in Reqs : stack' = <<CallWith("E_ATTACH_REQ_RECV", x)>> => FramesAuthenticated'
  /\ stack' = <<Call("E_REJECT"), Call("rnc_loss_release")>> => FramesAuthenticated'
  /\ stack' = <<Call("E_AUTH_RESP_RECV_SUCCESS")>> /\ obs'.aka => FramesAuthenticated'
<1>1. stack' = <<>> => FramesAuthenticated'
  BY DEF FramesAuthenticated
<1>2. ASSUME NEW c, stack' = <<c>>, NeedsAka(c) => obs'.aka, c.fn # "st_init"
      PROVE  FramesAuthenticated'
  BY <1>2 DEF FramesAuthenticated, NeedsAka
<1>3. \A x \in Harmless : ~NeedsAka(Call(x)) /\ Call(x).fn # "st_init"
  BY DEF Harmless, PlainFns, NeedsAka, Call
<1>4. \A x : /\ ~NeedsAka(CallWith("E_IDEN_RESP_RECV", x))
             /\ CallWith("E_IDEN_RESP_RECV", x).fn # "st_init"
             /\ ~NeedsAka(CallWith("E_ATTACH_REQ_RECV", x))
             /\ CallWith("E_ATTACH_REQ_RECV", x).fn # "st_init"
  BY DEF NeedsAka, CallWith
<1>5. ASSUME stack' = <<Call("E_REJECT"), Call("rnc_loss_release")>>
      PROVE  FramesAuthenticated'
  BY <1>5 DEF FramesAuthenticated, NeedsAka, Call, Continuations, ReqFns
<1>6. ASSUME stack' = <<Call("E_AUTH_RESP_RECV_SUCCESS")>>, obs'.aka
      PROVE  FramesAuthenticated'
  BY <1>6, <1>2 DEF Call
<1> QED
  BY <1>1, <1>2, <1>3, <1>4, <1>5, <1>6, Zenon

\* A call by the only function on the stack.
LEMMA CallAlone ==
  ASSUME stack \in Seq(Frame), Len(stack) = 1, NEW c, Do(<<c>>)
  PROVE  stack' = <<c>>
<1>1. Tail(stack) \in Seq(Frame) /\ Len(Tail(stack)) = 0
  OBVIOUS
<1>2. Tail(stack) = <<>>
  BY <1>1, EmptySeq
<1>3. <<c>> \o <<>> = <<c>>
  OBVIOUS
<1> QED
  BY <1>2, <1>3, Zenon DEF Do

\* The attach FSM keeps the invariant.
LEMMA AttachFsmAka == AkaInv /\ AttachFsmStep => FramesAuthenticated' /\ StateAuthenticated'
<1> SUFFICES ASSUME AkaInv, AttachFsmStep PROVE FramesAuthenticated' /\ StateAuthenticated'
  OBVIOUS
<1>inv. TypeOK /\ FramesAuthenticated /\ StateAuthenticated
  BY DEF AkaInv
<1>att. att \in AttType
  BY <1>inv DEF TypeOK
<1>auth. auth \in AuthType
  BY <1>inv DEF TypeOK
<1>obs. obs \in ObsType
  BY <1>inv DEF TypeOK
<1>1. CASE StateChg
  <2>1. obs'.aka = obs.aka /\ UNCHANGED cfg /\ UNCHANGED auth
    BY <1>1, Zenon DEF StateChg
  <2>2. FramesAuthenticated'
    BY <1>1, <1>inv, <2>1, StepKeeps, Zenon DEF StateChg, Harmless, PlainFns
  <2>3. att'.st = att.st \/ att'.st = Data
    BY <1>1, <1>att, Zenon DEF StateChg, AttType
  <2>4. RequireAuth /\ Data \in {"ACCEPT", "IU_SECURITY_CMD"} => obs.aka
    BY <1>1, <1>inv, RunningAka, Zenon DEF StateChg
  <2>5. StateAuthenticated'
    BY <1>inv, <2>1, <2>3, <2>4, Zenon DEF StateAuthenticated, RequireAuth, Remote
  <2> QED
    BY <2>2, <2>5
<1>2. CASE StInit
  <2>1. /\ stack # <<>> /\ Head(stack).fn = "st_init" /\ Len(stack) = 1
        /\ att.st \in {"INIT", "REJECT"}
    BY <1>2, <1>inv DEF StInit, Running, FramesAuthenticated, ReqFns
  <2>2. stack' = <<CallWith("state_chg", "IDENTIY")>>
    BY <1>2, <1>inv, <2>1, CallAlone, Zenon DEF StInit, TypeOK
  <2>3. FramesAuthenticated'
    BY <2>2 DEF FramesAuthenticated, NeedsAka, CallWith, ReqFns
  <2>4. auth'.sec = FALSE /\ auth'.state = "UNKNOWN"
    BY <1>2, <1>auth, Zenon DEF StInit, NoVector, AuthType
  <2>5. att'.st = att.st
    BY <1>2, <1>att, Zenon DEF StInit, AttType
  <2>6. StateAuthenticated'
    BY <2>1, <2>4, <2>5 DEF StateAuthenticated
  <2> QED
    BY <2>3, <2>6
<1>3. CASE IdentityOnEnter
  <2>1. obs'.aka = obs.aka /\ UNCHANGED <<cfg, att, auth>>
    BY <1>3, Zenon DEF IdentityOnEnter
  <2>2. FramesAuthenticated'
    BY <1>3, <2>1, <1>inv, StepKeeps, Zenon DEF IdentityOnEnter, Harmless, PlainFns,
       AttachStates
  <2> QED
    BY <1>inv, <2>1, <2>2, StateKeeps, Zenon
<1>4. CASE AuthOnEnter
  <2>1. obs'.aka = obs.aka /\ UNCHANGED cfg
    BY <1>4, Zenon DEF AuthOnEnter
  <2>2. RequireAuth /\ AuthStateOnEnter = "ACCEPTED" => obs.aka
    BY <1>inv, Zenon DEF StateAuthenticated, RequireAuth, AuthStateOnEnter
  <2>3. Running("on_enter")
    BY <1>4, Zenon DEF AuthOnEnter
  <2>4. Do(<<Call("E_REJECT"), Call("auth_reattempt++")>>) => FramesAuthenticated'
    <3>1. /\ Call("E_REJECT") \in Frame /\ Call("auth_reattempt++") \in Frame
          /\ Call("E_REJECT").fn \notin ReqFns /\ ~NeedsAka(Call("E_REJECT"))
          /\ Call("auth_reattempt++").fn \in Continuations
          /\ ~NeedsAka(Call("auth_reattempt++"))
      BY CallFrame DEF PlainFns, ReqFns, Continuations, NeedsAka, Call
    <3> QED
      BY <3>1, <1>inv, <2>1, <2>3, CallTwoKeeps
  <2>5. \/ Do(<<CallWith("state_chg", "ASK_VLR")>>)
        \/ Do(<<Call("E_REJECT")>>)
        \/ AuthStateOnEnter = "ACCEPTED" /\ Do(<<CallWith("state_chg", "ACCEPT")>>)
        \/ Return
        \/ Do(<<Call("E_REJECT"), Call("auth_reattempt++")>>)
    BY <1>4, Zenon DEF AuthOnEnter
  <2>6. "E_REJECT" \in Harmless /\ "ASK_VLR" \in AttachStates /\ "ACCEPT" \in AttachStates
    BY DEF Harmless, PlainFns, AttachStates
  <2>7. FramesAuthenticated'
    BY <1>inv, <2>1, <2>2, <2>3, <2>4, <2>5, <2>6, StepKeeps
  <2>8. auth'.sec = auth.sec /\ auth'.state = auth.state
    BY <1>4, <1>auth, Zenon DEF AuthOnEnter, AuthType
  <2>9. att'.st = att.st
    BY <1>4, <1>att, Zenon DEF AuthOnEnter, AttType
  <2> QED
    BY <1>inv, <2>1, <2>7, <2>8, <2>9, StateKeeps
<1>5. CASE AskVlrOnEnter
  <2>1. obs'.aka = obs.aka /\ UNCHANGED <<cfg, att, auth>>
    BY <1>5, Zenon DEF AskVlrOnEnter
  <2>2. FramesAuthenticated'
    BY <1>5, <2>1, <1>inv, StepKeeps, Zenon DEF AskVlrOnEnter, Harmless, PlainFns,
       AttachStates
  <2> QED
    BY <1>inv, <2>1, <2>2, StateKeeps, Zenon
<1>6. CASE IuSecurityCmdOnEnter
  <2>1. RequireAuth => obs.aka
    BY <1>6, <1>inv, Zenon DEF IuSecurityCmdOnEnter, StateAuthenticated
  <2>2. obs'.aka = obs.aka /\ UNCHANGED <<cfg, att, auth>>
    BY <1>6, <1>obs, Zenon DEF IuSecurityCmdOnEnter, ObsType
  <2>3. FramesAuthenticated'
    BY <1>6, <2>1, <2>2, <1>inv, StepKeeps, Zenon DEF IuSecurityCmdOnEnter, Harmless,
       PlainFns, AttachStates
  <2> QED
    BY <1>inv, <2>2, <2>3, StateKeeps, Zenon
<1>7. CASE AcceptOnEnter
  <2>1. obs'.aka = obs.aka /\ UNCHANGED <<cfg, att, auth>>
    BY <1>7, <1>obs, Zenon DEF AcceptOnEnter, ObsType
  <2>2. FramesAuthenticated'
    BY <1>7, <2>1, <1>inv, StepKeeps, Zenon DEF AcceptOnEnter, Harmless, PlainFns,
       AttachStates
  <2> QED
    BY <1>inv, <2>1, <2>2, StateKeeps, Zenon
<1>8. CASE AttachProceedAfterAuth
  <2>1. RequireAuth => obs.aka
    BY <1>8, <1>inv, RunningAka, Zenon DEF AttachProceedAfterAuth
  <2>2. \/ Return \/ Do(<<CallWith("state_chg", "IU_SECURITY_CMD")>>)
        \/ Do(<<CallWith("state_chg", "ASK_VLR")>>) \/ Do(<<CallWith("state_chg", "ACCEPT")>>)
    BY <1>8, SMT DEF AttachProceedAfterAuth
  <2>3. obs'.aka = obs.aka /\ UNCHANGED <<cfg, att, auth>>
    BY <1>8, Zenon DEF AttachProceedAfterAuth
  <2>4. FramesAuthenticated'
    BY <1>8, <2>1, <2>2, <2>3, <1>inv, StepKeeps, Zenon DEF AttachProceedAfterAuth,
       Harmless, PlainFns, AttachStates
  <2> QED
    BY <1>inv, <2>3, <2>4, StateKeeps, Zenon
<1>9. CASE EvAttachReq
  <2>1. obs'.aka = obs.aka /\ UNCHANGED cfg /\ UNCHANGED auth
    BY <1>9, Zenon DEF EvAttachReq
  <2>2. CASE Restarts(Data)
    <3>1. att'.st \in {"INIT", "REJECT"}
      BY <1>9, <2>2, <1>att, Zenon DEF EvAttachReq, AttType
    <3>2. stack # <<>> /\ Head(stack).fn = "E_ATTACH_REQ_RECV" /\ Len(stack) = 1
      BY <1>9, <1>inv DEF EvAttachReq, Running, FramesAuthenticated, ReqFns
    <3>3. stack' = <<CallWith("st_init", Data)>>
      BY <1>9, <1>inv, <2>2, <3>2, CallAlone, Zenon DEF EvAttachReq, TypeOK
    <3>4. FramesAuthenticated'
      BY <3>1, <3>3 DEF FramesAuthenticated, NeedsAka, CallWith, ReqFns
    <3>5. StateAuthenticated'
      BY <1>inv, <2>1, <3>1, StateKeeps
    <3> QED
      BY <3>4, <3>5
  <2>3. CASE ~Restarts(Data)
    <3>1. Return /\ att' = att
      BY <1>9, <2>3, Zenon DEF EvAttachReq
    <3>2. FramesAuthenticated'
      BY <1>9, <1>inv, <2>1, <3>1, StepKeeps, Zenon DEF EvAttachReq
    <3> QED
      BY <1>inv, <2>1, <3>1, <3>2, StateKeeps
  <2> QED
    BY <2>2, <2>3
<1>10. CASE EvReject
  <2>1. obs'.aka = obs.aka /\ UNCHANGED cfg
    BY <1>10, Zenon DEF EvReject
  <2>2. FramesAuthenticated'
    BY <1>10, <2>1, <1>inv, StepKeeps, Zenon DEF EvReject, Harmless, PlainFns,
       AttachStates
  <2>3. auth'.sec => auth.sec
    BY <1>10, Zenon DEF EvReject
  <2>4. auth'.state = "ACCEPTED" => auth.state = "ACCEPTED"
    BY <1>10, Zenon DEF EvReject
  <2>5. att'.st \in {"IU_SECURITY_CMD", "ACCEPT"} => att.st \in {"IU_SECURITY_CMD", "ACCEPT"}
    BY <1>10, <1>att, Zenon DEF EvReject, AttType
  <2> QED
    BY <1>inv, <2>1, <2>2, <2>3, <2>4, <2>5, StateKeeps
<1>11. CASE EvIdenResp
  <2>1. obs'.aka = obs.aka /\ UNCHANGED cfg
    BY <1>11, Zenon DEF EvIdenResp
  <2>2. FramesAuthenticated'
    BY <1>11, <2>1, <1>inv, StepKeeps, Zenon DEF EvIdenResp, Harmless, PlainFns,
       AttachStates
  <2>3. auth'.sec => auth.sec
    BY <1>11, Zenon DEF EvIdenResp
  <2>4. auth'.state = "ACCEPTED" => auth.state = "ACCEPTED"
    BY <1>11, Zenon DEF EvIdenResp
  <2>5. att'.st \in {"IU_SECURITY_CMD", "ACCEPT"} => att.st \in {"IU_SECURITY_CMD", "ACCEPT"}
    BY <1>11, <1>att, Zenon DEF EvIdenResp, AttType
  <2> QED
    BY <1>inv, <2>1, <2>2, <2>3, <2>4, <2>5, StateKeeps
<1>12. CASE EvAuthSuccess
  <2>1. /\ obs'.aka = obs.aka /\ UNCHANGED <<cfg, auth, att>>
        /\ Running("E_AUTH_RESP_RECV_SUCCESS")
    BY <1>12, Zenon DEF EvAuthSuccess
  <2>2. RequireAuth => obs.aka
    BY <1>inv, <2>1, RunningAka, Zenon
  <2>3. /\ Call("sgsn_auth_request") \in Frame /\ Call("attach_proceed_after_auth") \in Frame
        /\ Call("sgsn_auth_request").fn \notin ReqFns
        /\ Call("attach_proceed_after_auth").fn \in Continuations
    BY CallFrame DEF PlainFns, ReqFns, Continuations, Call
  <2>4. Do(<<Call("sgsn_auth_request"), Call("attach_proceed_after_auth")>>)
        => FramesAuthenticated'
    BY <1>inv, <2>1, <2>2, <2>3, CallTwoKeeps
  <2>5. FramesAuthenticated'
    BY <1>12, <1>inv, <2>1, <2>4, StepKeeps, Zenon DEF EvAuthSuccess
  <2> QED
    BY <1>inv, <2>1, <2>5, StateKeeps
<1>13. CASE EvAuthResync
  <2>1. obs'.aka = obs.aka /\ UNCHANGED <<cfg, att, auth>>
    BY <1>13, Zenon DEF EvAuthResync
  <2>2. FramesAuthenticated'
    BY <1>13, <2>1, <1>inv, StepKeeps, Zenon DEF EvAuthResync, Harmless, PlainFns,
       AttachStates
  <2> QED
    BY <1>inv, <2>1, <2>2, StateKeeps, Zenon
<1>14. CASE EvVlrAnswered
  <2>1. RequireAuth /\ auth.sec => obs.aka
    BY <1>14, <1>inv, Zenon DEF StateAuthenticated
  <2>2. obs'.aka = obs.aka /\ UNCHANGED <<cfg, att, auth>>
    BY <1>14, Zenon DEF EvVlrAnswered
  <2>3. FramesAuthenticated'
    BY <1>14, <2>1, <2>2, <1>inv, StepKeeps, Zenon DEF EvVlrAnswered, Harmless,
       PlainFns, AttachStates
  <2> QED
    BY <1>inv, <2>2, <2>3, StateKeeps, Zenon
<1>15. CASE EvIuSecurityCmdComplete
  <2>1. RequireAuth /\ att.st = "IU_SECURITY_CMD" => obs.aka
    BY <1>15, <1>inv, Zenon DEF StateAuthenticated
  <2>2. obs'.aka = obs.aka /\ UNCHANGED <<cfg, att, auth>>
    BY <1>15, Zenon DEF EvIuSecurityCmdComplete
  <2>3. FramesAuthenticated'
    BY <1>15, <2>1, <2>2, <1>inv, StepKeeps, Zenon DEF EvIuSecurityCmdComplete,
       Harmless, PlainFns, AttachStates
  <2> QED
    BY <1>inv, <2>2, <2>3, StateKeeps, Zenon
<1>16. CASE EvAttachComplete
  <2>1. obs'.aka = obs.aka /\ UNCHANGED cfg
    BY <1>16, Zenon DEF EvAttachComplete
  <2>2. FramesAuthenticated'
    BY <1>16, <2>1, <1>inv, StepKeeps, Zenon DEF EvAttachComplete, Harmless,
       PlainFns, AttachStates
  <2>3. auth'.sec => auth.sec
    BY <1>16, Zenon DEF EvAttachComplete
  <2>4. auth'.state = "ACCEPTED" => auth.state = "ACCEPTED"
    BY <1>16, Zenon DEF EvAttachComplete
  <2>5. att'.st \in {"IU_SECURITY_CMD", "ACCEPT"} => att.st \in {"IU_SECURITY_CMD", "ACCEPT"}
    BY <1>16, <1>att, Zenon DEF EvAttachComplete, AttType, NewAtt
  <2> QED
    BY <1>inv, <2>1, <2>2, <2>3, <2>4, <2>5, StateKeeps
<1> QED
  BY <1>1, <1>2, <1>3, <1>4, <1>5, <1>6, <1>7, <1>8, <1>9, <1>10, <1>11, <1>12,
     <1>13, <1>14, <1>15, <1>16, Zenon DEF AttachFsmStep

\* sgsn_auth_state says "accepted" only for an authenticated MS.
LEMMA AcceptedAka ==
  ASSUME AkaInv, RequireAuth, UpdatedAuthState = "ACCEPTED"
  PROVE  obs.aka
<1>1. RemoteAuthState = "ACCEPTED"
  BY Zenon DEF UpdatedAuthState, SgsnAuthState, RequireAuth
<1>2. auth.state = "ACCEPTED" \/ auth.sec
  BY <1>1, Zenon DEF RemoteAuthState, RequireAuth
<1> QED
  BY <1>2, Zenon DEF AkaInv, StateAuthenticated

\* The end of sgsn_auth_update keeps the invariant.
LEMMA SetAuthStateAka ==
  ASSUME AkaInv, Running("sgsn_auth_update"), NEW a \in AuthType, NEW b, NEW x,
         a.sec => auth.sec, RequireAuth /\ x = "ACCEPTED" => obs.aka,
         SetAuthState(a, b, x), UNCHANGED <<cfg, att, obs>>
  PROVE  FramesAuthenticated' /\ StateAuthenticated'
<1>1. TypeOK /\ FramesAuthenticated /\ StateAuthenticated
  BY DEF AkaInv
<1>2. \/ Return
      \/ Do(<<Call("gsm0408_gprs_authenticate")>>)
      \/ Do(<<Call("gsm0408_gprs_access_granted")>>)
      \/ Do(<<Call("gsm0408_gprs_access_cancelled")>>)
      \/ Do(<<Call("gsm0408_gprs_access_denied")>>)
  BY DEF SetAuthState
<1>3. FramesAuthenticated'
  BY <1>1, <1>2, StepKeeps, Zenon DEF Harmless, PlainFns
<1>4. auth'.sec = a.sec /\ auth'.state = x
  BY Zenon DEF SetAuthState, AuthType
<1>5. StateAuthenticated'
  BY <1>1, <1>4, Zenon DEF StateAuthenticated, RequireAuth, Remote
<1> QED
  BY <1>3, <1>5

\* So does the authorisation layer.
LEMMA AuthAka == AkaInv /\ AuthStep => FramesAuthenticated' /\ StateAuthenticated'
<1> SUFFICES ASSUME AkaInv, AuthStep PROVE FramesAuthenticated' /\ StateAuthenticated'
  OBVIOUS
<1>inv. TypeOK /\ FramesAuthenticated /\ StateAuthenticated
  BY DEF AkaInv
<1>auth. auth \in AuthType
  BY <1>inv DEF TypeOK
<1>obs. obs \in ObsType
  BY <1>inv DEF TypeOK
<1>1. CASE AuthRequest
  <2>1. obs'.aka = obs.aka /\ UNCHANGED cfg
    BY <1>1, Zenon DEF AuthRequest
  <2>2. FramesAuthenticated'
    BY <1>1, <2>1, <1>inv, StepKeeps, Zenon DEF AuthRequest, Harmless, PlainFns,
       AttachStates
  <2>3. auth'.sec => auth.sec
    BY <1>1, <1>auth, Zenon DEF AuthRequest, TakeTuple, NoVector, AuthType
  <2>4. auth'.state = "ACCEPTED" => auth.state = "ACCEPTED"
    BY <1>1, <1>auth, Zenon DEF AuthRequest, TakeTuple, NoVector, AuthType
  <2>5. att'.st \in {"IU_SECURITY_CMD", "ACCEPT"} => att.st \in {"IU_SECURITY_CMD", "ACCEPT"}
    BY <1>1, Zenon DEF AuthRequest
  <2> QED
    BY <1>inv, <2>1, <2>2, <2>3, <2>4, <2>5, StateKeeps
<1>2. CASE AuthUpdate
  <2>1. UNCHANGED <<cfg, att, obs>> /\ Running("sgsn_auth_update")
    BY <1>2, Zenon DEF AuthUpdate
  <2>2. RequireAuth /\ UpdatedAuthState = "ACCEPTED" => obs.aka
    BY AcceptedAka
  <2>3. /\ TakeTuple \in AuthType /\ TakeTuple.sec = auth.sec
        /\ [auth EXCEPT !.sec = FALSE] \in AuthType /\ ~[auth EXCEPT !.sec = FALSE].sec
    BY <1>auth, AuthTypes, AuthSet, Zenon DEF TakeTuple, AuthType
  <2>4. CASE SetAuthState(auth, sub, UpdatedAuthState)
    BY <2>4, <2>1, <2>2, <1>auth, SetAuthStateAka
  <2>5. CASE SetAuthState(TakeTuple, [sub EXCEPT !.vec = @ - 1], "AUTHENTICATE")
    BY <2>5, <2>1, <2>3, SetAuthStateAka
  <2>6. CASE SetAuthState(auth, sub, "REJECTED")
    BY <2>6, <2>1, <1>auth, SetAuthStateAka
  <2>7. CASE SetAuthState([auth EXCEPT !.sec = FALSE], sub, "REJECTED")
    BY <2>7, <2>1, <2>3, SetAuthStateAka
  <2>8. CASE auth' = [auth EXCEPT !.sec = FALSE] /\ Return
    <3>1. FramesAuthenticated'
      BY <2>8, <2>1, <1>inv, StepKeeps, Zenon
    <3>2. ~auth'.sec /\ auth'.state = auth.state
      BY <2>8, <1>auth, Zenon DEF AuthType
    <3> QED
      BY <2>1, <3>1, <3>2, <1>inv, StateKeeps, Zenon
  <2> QED
    BY <1>2, <2>4, <2>5, <2>6, <2>7, <2>8, Zenon DEF AuthUpdate
<1>3. CASE GprsAuthenticate
  <2>1. obs'.aka = obs.aka /\ UNCHANGED cfg
    BY <1>3, Zenon DEF GprsAuthenticate
  <2>2. FramesAuthenticated'
    BY <1>3, <2>1, <1>inv, StepKeeps, Zenon DEF GprsAuthenticate, Harmless, PlainFns,
       AttachStates
  <2>3. auth'.sec => auth.sec
    BY <1>3, <1>auth, Zenon DEF GprsAuthenticate, AuthType
  <2>4. auth'.state = "ACCEPTED" => auth.state = "ACCEPTED"
    BY <1>3, <1>auth, Zenon DEF GprsAuthenticate, AuthType
  <2>5. att'.st \in {"IU_SECURITY_CMD", "ACCEPT"} => att.st \in {"IU_SECURITY_CMD", "ACCEPT"}
    BY <1>3, Zenon DEF GprsAuthenticate
  <2> QED
    BY <1>inv, <2>1, <2>2, <2>3, <2>4, <2>5, StateKeeps
<1>4. CASE AccessGranted
  <2>1. obs'.aka = obs.aka /\ UNCHANGED <<cfg, att, auth>>
    BY <1>4, Zenon DEF AccessGranted
  <2>2. FramesAuthenticated'
    BY <1>4, <2>1, <1>inv, StepKeeps, Zenon DEF AccessGranted, Harmless, PlainFns,
       AttachStates
  <2> QED
    BY <1>inv, <2>1, <2>2, StateKeeps, Zenon
<1>5. CASE AccessDenied
  <2>1. obs'.aka = obs.aka /\ UNCHANGED <<cfg, att, auth>>
    BY <1>5, Zenon DEF AccessDenied
  <2>2. FramesAuthenticated'
    BY <1>5, <2>1, <1>inv, StepKeeps, Zenon DEF AccessDenied, Harmless, PlainFns,
       AttachStates
  <2> QED
    BY <1>inv, <2>1, <2>2, StateKeeps, Zenon
<1>6. CASE AccessCancelled
  <2>1. obs'.aka = obs.aka /\ UNCHANGED <<cfg, att, auth>>
    BY <1>6, Zenon DEF AccessCancelled
  <2>2. FramesAuthenticated'
    BY <1>6, <2>1, <1>inv, StepKeeps, Zenon DEF AccessCancelled, Harmless, PlainFns,
       AttachStates
  <2> QED
    BY <1>inv, <2>1, <2>2, StateKeeps, Zenon
<1>7. CASE GmmAuthorize
  <2>1. obs'.aka = obs.aka /\ UNCHANGED cfg
    BY <1>7, <1>obs, Zenon DEF GmmAuthorize, ObsType
  <2>2. FramesAuthenticated'
    BY <1>7, <2>1, <1>inv, StepKeeps, Zenon DEF GmmAuthorize, Harmless, PlainFns,
       AttachStates
  <2>3. auth'.sec => auth.sec
    BY <1>7, <1>auth, Zenon DEF GmmAuthorize, AuthType
  <2>4. auth'.state = "ACCEPTED" => auth.state = "ACCEPTED"
    BY <1>7, <1>auth, Zenon DEF GmmAuthorize, AuthType
  <2>5. att'.st \in {"IU_SECURITY_CMD", "ACCEPT"} => att.st \in {"IU_SECURITY_CMD", "ACCEPT"}
    BY <1>7, Zenon DEF GmmAuthorize
  <2> QED
    BY <1>inv, <2>1, <2>2, <2>3, <2>4, <2>5, StateKeeps
<1> QED
  BY <1>1, <1>2, <1>3, <1>4, <1>5, <1>6, <1>7, Zenon DEF AuthStep

\* And the end of a context and of a GSUP handler.
LEMMA EndAka == AkaInv /\ EndStep => FramesAuthenticated' /\ StateAuthenticated'
<1> SUFFICES ASSUME AkaInv, EndStep PROVE FramesAuthenticated' /\ StateAuthenticated'
  OBVIOUS
<1>inv. TypeOK /\ FramesAuthenticated /\ StateAuthenticated
  BY DEF AkaInv
<1>1. CASE CleanupFree
  <2>1. FramesAuthenticated'
    BY <1>1, InputKeeps, Zenon DEF CleanupFree
  <2>2. ~auth'.sec /\ auth'.state = "UNKNOWN" /\ att'.st = "INIT"
    BY <1>1, Zenon DEF CleanupFree, NewAuth, NewAtt
  <2> QED
    BY <2>1, <2>2 DEF StateAuthenticated
<1>2. CASE RncLossRelease
  <2>1. obs'.aka = obs.aka /\ UNCHANGED <<cfg, att, auth>>
    BY <1>2, Zenon DEF RncLossRelease
  <2>2. FramesAuthenticated'
    BY <1>2, <2>1, <1>inv, StepKeeps, Zenon DEF RncLossRelease, Harmless, PlainFns,
       AttachStates
  <2> QED
    BY <1>inv, <2>1, <2>2, StateKeeps, Zenon
<1>3. CASE SubscrCleanup
  <2>1. obs'.aka = obs.aka /\ UNCHANGED <<cfg, att, auth>>
    BY <1>3, Zenon DEF SubscrCleanup
  <2>2. FramesAuthenticated'
    BY <1>3, InputKeeps, Zenon DEF SubscrCleanup, Harmless, PlainFns
  <2> QED
    BY <1>inv, <2>1, <2>2, StateKeeps, Zenon
<1>4. CASE SubscrPut
  <2>1. obs'.aka = obs.aka /\ UNCHANGED <<cfg, att, auth>>
    BY <1>4, Zenon DEF SubscrPut
  <2>2. FramesAuthenticated'
    BY <1>4, InputKeeps, Zenon DEF SubscrPut, Harmless, PlainFns
  <2> QED
    BY <1>inv, <2>1, <2>2, StateKeeps, Zenon
<1> QED
  BY <1>1, <1>2, <1>3, <1>4, Zenon DEF EndStep

\* And the messages of the MS.
LEMMA MsAka == AkaInv /\ MsInput => FramesAuthenticated' /\ StateAuthenticated'
<1> SUFFICES ASSUME AkaInv, MsInput PROVE FramesAuthenticated' /\ StateAuthenticated'
  OBVIOUS
<1>inv. TypeOK /\ FramesAuthenticated /\ StateAuthenticated
  BY DEF AkaInv
<1>auth. auth \in AuthType
  BY <1>inv DEF TypeOK
<1>obs. obs \in ObsType
  BY <1>inv DEF TypeOK
<1>1. ASSUME NEW m \in Reqs, NEW known \in BOOLEAN, NEW newconn \in BOOLEAN,
             RxAttachReq(m, known, newconn)
      PROVE  FramesAuthenticated' /\ StateAuthenticated'
  <2>1. obs'.aka = obs.aka /\ UNCHANGED <<cfg, att, auth>>
    BY <1>1, Zenon DEF RxAttachReq
  <2>2. FramesAuthenticated'
    BY <1>1, InputKeeps, Zenon DEF RxAttachReq, Harmless, PlainFns
  <2> QED
    BY <1>inv, <2>1, <2>2, StateKeeps, Zenon
<1>2. CASE RxAttachReqRefused
  <2>1. obs'.aka = obs.aka /\ UNCHANGED <<cfg, att, auth>>
    BY <1>2, Zenon DEF RxAttachReqRefused, Drop
  <2>2. FramesAuthenticated'
    BY <1>2, InputKeeps, Zenon DEF RxAttachReqRefused, Drop, Harmless, PlainFns
  <2> QED
    BY <1>inv, <2>1, <2>2, StateKeeps, Zenon
<1>3. CASE RxRauReqRefused
  <2>1. obs'.aka = obs.aka /\ UNCHANGED <<cfg, att, auth>>
    BY <1>3, Zenon DEF RxRauReqRefused, Drop
  <2>2. FramesAuthenticated'
    BY <1>3, InputKeeps, Zenon DEF RxRauReqRefused, Drop, Harmless, PlainFns
  <2> QED
    BY <1>inv, <2>1, <2>2, StateKeeps, Zenon
<1>4. CASE RxDetach
  <2>1. obs'.aka = obs.aka /\ UNCHANGED <<cfg, att, auth>>
    BY <1>4, Zenon DEF RxDetach, Drop
  <2>2. FramesAuthenticated'
    BY <1>4, InputKeeps, Zenon DEF RxDetach, Drop, Harmless, PlainFns
  <2> QED
    BY <1>inv, <2>1, <2>2, StateKeeps, Zenon
<1>5. CASE AccessCancelledByOperator
  <2>1. obs'.aka = obs.aka /\ UNCHANGED <<cfg, att, auth>>
    BY <1>5, Zenon DEF AccessCancelledByOperator, Drop
  <2>2. FramesAuthenticated'
    BY <1>5, InputKeeps, Zenon DEF AccessCancelledByOperator, Drop, Harmless, PlainFns
  <2> QED
    BY <1>inv, <2>1, <2>2, StateKeeps, Zenon
<1>6. ASSUME NEW type \in {"IMSI", "IMEI", "OTHER"},
             RxIdResp(type)
      PROVE  FramesAuthenticated' /\ StateAuthenticated'
  <2>1. type \in IdTypes
    BY <1>6, Values, Zenon
  <2>2. obs'.aka = obs.aka /\ UNCHANGED <<cfg, att, auth>>
    BY <1>6, Zenon DEF RxIdResp
  <2>3. FramesAuthenticated'
    BY <1>6, <2>1, InputKeeps, Zenon DEF RxIdResp, Harmless, PlainFns
  <2> QED
    BY <1>inv, <2>2, <2>3, StateKeeps, Zenon
<1>7. ASSUME NEW good \in BOOLEAN,
             RxAuthCiphResp(good)
      PROVE  FramesAuthenticated' /\ StateAuthenticated'
  <2> DEFINE ok == good /\ auth.chal = "current"
  <2>1. UNCHANGED <<cfg, att>>
    BY <1>7, Zenon DEF RxAuthCiphResp
  <2>2. auth'.sec = ok /\ auth'.state = auth.state
    BY <1>7, <1>auth, Zenon DEF RxAuthCiphResp, AuthType
  <2>3. obs'.aka = (obs.aka \/ ok)
    BY <1>7, <1>obs, Zenon DEF RxAuthCiphResp, ObsType
  <2>4. FramesAuthenticated'
    BY <1>7, <2>3, InputKeeps, Zenon DEF RxAuthCiphResp, Harmless, PlainFns
  <2>5. StateAuthenticated'
    BY <1>inv, <2>1, <2>2, <2>3, Zenon DEF StateAuthenticated, RequireAuth, Remote
  <2> QED
    BY <2>4, <2>5
<1>8. CASE RxAuthCiphRespMalformed
  <2>1. obs'.aka = obs.aka /\ UNCHANGED <<cfg, att, auth>>
    BY <1>8, Zenon DEF RxAuthCiphRespMalformed
  <2>2. FramesAuthenticated'
    BY <1>8, InputKeeps, Zenon DEF RxAuthCiphRespMalformed, Rx, Input, Quiet,
       Harmless, PlainFns
  <2> QED
    BY <1>inv, <2>1, <2>2, StateKeeps, Zenon
<1>9. ASSUME NEW auts \in BOOLEAN,
             RxAuthCiphFail(auts)
      PROVE  FramesAuthenticated' /\ StateAuthenticated'
  <2>1. obs'.aka = obs.aka /\ UNCHANGED cfg
    BY <1>9, Zenon DEF RxAuthCiphFail
  <2>2. FramesAuthenticated'
    BY <1>9, InputKeeps, Zenon DEF RxAuthCiphFail, Harmless, PlainFns
  <2>3. auth'.sec => auth.sec
    BY <1>9, <1>auth, Zenon DEF RxAuthCiphFail, NoVector, AuthType
  <2>4. auth'.state = "ACCEPTED" => auth.state = "ACCEPTED"
    BY <1>9, <1>auth, Zenon DEF RxAuthCiphFail, NoVector, AuthType
  <2>5. att'.st \in {"IU_SECURITY_CMD", "ACCEPT"} => att.st \in {"IU_SECURITY_CMD", "ACCEPT"}
    BY <1>9, Zenon DEF RxAuthCiphFail
  <2> QED
    BY <1>inv, <2>1, <2>2, <2>3, <2>4, <2>5, StateKeeps
<1>10. CASE RxAttachCompl
  <2>1. obs'.aka = obs.aka /\ UNCHANGED <<cfg, att, auth>>
    BY <1>10, Zenon DEF RxAttachCompl
  <2>2. FramesAuthenticated'
    BY <1>10, InputKeeps, Zenon DEF RxAttachCompl, Harmless, PlainFns
  <2> QED
    BY <1>inv, <2>1, <2>2, StateKeeps, Zenon
<1>11. ASSUME NEW newconn \in BOOLEAN,
             RxRauReq(newconn)
      PROVE  FramesAuthenticated' /\ StateAuthenticated'
  <2>1. obs'.aka = obs.aka /\ UNCHANGED <<cfg, att, auth>>
    BY <1>11, Zenon DEF RxRauReq
  <2>2. FramesAuthenticated'
    BY <1>11, InputKeeps, Zenon DEF RxRauReq, Harmless, PlainFns
  <2> QED
    BY <1>inv, <2>1, <2>2, StateKeeps, Zenon
<1>12. CASE RxRauCompl
  <2>1. obs'.aka = obs.aka /\ UNCHANGED <<cfg, att, auth>>
    BY <1>12, Zenon DEF RxRauCompl
  <2>2. FramesAuthenticated'
    BY <1>12, InputKeeps, Zenon DEF RxRauCompl, Rx, Input, Quiet, Harmless, PlainFns
  <2> QED
    BY <1>inv, <2>1, <2>2, StateKeeps, Zenon
<1>13. CASE RxPtmsiReallCompl
  <2>1. obs'.aka = obs.aka /\ UNCHANGED <<cfg, att, auth>>
    BY <1>13, Zenon DEF RxPtmsiReallCompl
  <2>2. FramesAuthenticated'
    BY <1>13, InputKeeps, Zenon DEF RxPtmsiReallCompl, Rx, Input, Quiet, Harmless,
       PlainFns
  <2> QED
    BY <1>inv, <2>1, <2>2, StateKeeps, Zenon
<1>14. ASSUME NEW newconn \in BOOLEAN, NEW refused \in BOOLEAN,
             RxServiceReq(newconn, refused)
      PROVE  FramesAuthenticated' /\ StateAuthenticated'
  <2>1. obs'.aka = obs.aka /\ UNCHANGED <<cfg, att, auth>>
    BY <1>14, Zenon DEF RxServiceReq
  <2>2. FramesAuthenticated'
    BY <1>14, InputKeeps, Zenon DEF RxServiceReq, Input, Quiet, Harmless, PlainFns
  <2> QED
    BY <1>inv, <2>1, <2>2, StateKeeps, Zenon
<1>15. CASE Suspend
  <2>1. obs'.aka = obs.aka /\ UNCHANGED <<cfg, att, auth>>
    BY <1>15, Zenon DEF Suspend
  <2>2. FramesAuthenticated'
    BY <1>15, InputKeeps, Zenon DEF Suspend, Rx, Input, Quiet, Harmless, PlainFns
  <2> QED
    BY <1>inv, <2>1, <2>2, StateKeeps, Zenon
<1>16. CASE Resume
  <2>1. obs'.aka = obs.aka /\ UNCHANGED <<cfg, att, auth>>
    BY <1>16, Zenon DEF Resume
  <2>2. FramesAuthenticated'
    BY <1>16, InputKeeps, Zenon DEF Resume, Rx, Input, Quiet, Harmless, PlainFns
  <2> QED
    BY <1>inv, <2>1, <2>2, StateKeeps, Zenon
<1> QED
  BY <1>1, <1>2, <1>3, <1>4, <1>5, <1>6, <1>7, <1>8, <1>9, <1>10, <1>11, <1>12,
     <1>13, <1>14, <1>15, <1>16, Zenon DEF MsInput

\* And the timers.
LEMMA TimerAka == AkaInv /\ TimerInput => FramesAuthenticated' /\ StateAuthenticated'
<1> SUFFICES ASSUME AkaInv, TimerInput PROVE FramesAuthenticated' /\ StateAuthenticated'
  OBVIOUS
<1>inv. TypeOK /\ FramesAuthenticated /\ StateAuthenticated
  BY DEF AkaInv
<1>att. att \in AttType
  BY <1>inv DEF TypeOK
<1>auth. auth \in AuthType
  BY <1>inv DEF TypeOK
<1>1. CASE FsmTimeout
  <2>1. obs'.aka = obs.aka /\ UNCHANGED cfg
    BY <1>1, Zenon DEF FsmTimeout
  <2>2. FramesAuthenticated'
    BY <1>1, InputKeeps, Zenon DEF FsmTimeout, Quiet, Harmless, PlainFns
  <2>3. auth'.sec => auth.sec
    BY <1>1, <1>auth, Zenon DEF FsmTimeout, AuthType
  <2>4. auth'.state = "ACCEPTED" => auth.state = "ACCEPTED"
    BY <1>1, <1>auth, Zenon DEF FsmTimeout, AuthType
  <2>5. att'.st \in {"IU_SECURITY_CMD", "ACCEPT"} => att.st \in {"IU_SECURITY_CMD", "ACCEPT"}
    BY <1>1, <1>att, Zenon DEF FsmTimeout, AttType
  <2> QED
    BY <1>inv, <2>1, <2>2, <2>3, <2>4, <2>5, StateKeeps
<1>2. CASE LegacyTimeout
  <2>1. obs'.aka = obs.aka /\ UNCHANGED cfg
    BY <1>2, Zenon DEF LegacyTimeout
  <2>2. FramesAuthenticated'
    BY <1>2, InputKeeps, Zenon DEF LegacyTimeout, Quiet, Harmless, PlainFns
  <2>3. auth'.sec => auth.sec
    BY <1>2, <1>auth, Zenon DEF LegacyTimeout, AuthType
  <2>4. auth'.state = "ACCEPTED" => auth.state = "ACCEPTED"
    BY <1>2, <1>auth, Zenon DEF LegacyTimeout, AuthType
  <2>5. att'.st \in {"IU_SECURITY_CMD", "ACCEPT"} => att.st \in {"IU_SECURITY_CMD", "ACCEPT"}
    BY <1>2, Zenon DEF LegacyTimeout, Quiet
  <2> QED
    BY <1>inv, <2>1, <2>2, <2>3, <2>4, <2>5, StateKeeps
<1>3. CASE ReadyTimeout
  <2>1. obs'.aka = obs.aka /\ UNCHANGED <<cfg, att, auth>>
    BY <1>3, Zenon DEF ReadyTimeout
  <2>2. FramesAuthenticated'
    BY <1>3, InputKeeps, Zenon DEF ReadyTimeout, Quiet, Harmless, PlainFns
  <2> QED
    BY <1>inv, <2>1, <2>2, StateKeeps, Zenon
<1> QED
  BY <1>1, <1>2, <1>3, Zenon DEF TimerInput

\* And the Iu events.
LEMMA IuAka == AkaInv /\ IuInput => FramesAuthenticated' /\ StateAuthenticated'
<1> SUFFICES ASSUME AkaInv, IuInput PROVE FramesAuthenticated' /\ StateAuthenticated'
  OBVIOUS
<1>inv. TypeOK /\ FramesAuthenticated /\ StateAuthenticated
  BY DEF AkaInv
<1>att. att \in AttType
  BY <1>inv DEF TypeOK
<1>1. CASE IuRelease
  <2>1. obs'.aka = obs.aka /\ UNCHANGED <<cfg, att, auth>>
    BY <1>1, Zenon DEF IuRelease
  <2>2. FramesAuthenticated'
    BY <1>1, InputKeeps, Zenon DEF IuRelease, Harmless, PlainFns
  <2> QED
    BY <1>inv, <2>1, <2>2, StateKeeps, Zenon
<1>2. CASE SecurityModeComplete
  <2>1. obs'.aka = obs.aka /\ UNCHANGED <<cfg, att, auth>>
    BY <1>2, Zenon DEF SecurityModeComplete
  <2>2. FramesAuthenticated'
    BY <1>2, InputKeeps, Zenon DEF SecurityModeComplete, Harmless, PlainFns
  <2> QED
    BY <1>inv, <2>1, <2>2, StateKeeps, Zenon
<1>3. CASE RncLoss
  <2>1. obs'.aka = obs.aka /\ UNCHANGED cfg
    BY <1>3, Zenon DEF RncLoss
  <2>2. FramesAuthenticated'
    BY <1>3, InputKeeps, Zenon DEF RncLoss, Harmless, PlainFns
  <2>3. auth'.sec => auth.sec
    BY <1>3, Zenon DEF RncLoss
  <2>4. auth'.state = "ACCEPTED" => auth.state = "ACCEPTED"
    BY <1>3, Zenon DEF RncLoss
  <2>5. att'.st \in {"IU_SECURITY_CMD", "ACCEPT"} => att.st \in {"IU_SECURITY_CMD", "ACCEPT"}
    BY <1>3, <1>att, Zenon DEF RncLoss, AttType
  <2> QED
    BY <1>inv, <2>1, <2>2, <2>3, <2>4, <2>5, StateKeeps
<1>4. CASE GtpuErrorInd
  <2>1. obs'.aka = obs.aka /\ UNCHANGED <<cfg, att, auth>>
    BY <1>4, Zenon DEF GtpuErrorInd
  <2>2. FramesAuthenticated'
    BY <1>4, InputKeeps, Zenon DEF GtpuErrorInd, Input, Quiet
  <2> QED
    BY <1>inv, <2>1, <2>2, StateKeeps, Zenon
<1>5. CASE RabRespUnknown
  <2>1. obs'.aka = obs.aka /\ UNCHANGED <<cfg, att, auth>>
    BY <1>5, Zenon DEF RabRespUnknown
  <2>2. FramesAuthenticated'
    BY <1>5, InputKeeps, Zenon DEF RabRespUnknown, Input, Quiet
  <2> QED
    BY <1>inv, <2>1, <2>2, StateKeeps, Zenon
<1> QED
  BY <1>1, <1>2, <1>3, <1>4, <1>5, Zenon DEF IuInput

\* And the messages of the HLR.
LEMMA HlrAka == AkaInv /\ HlrInput => FramesAuthenticated' /\ StateAuthenticated'
<1> SUFFICES ASSUME AkaInv, HlrInput PROVE FramesAuthenticated' /\ StateAuthenticated'
  OBVIOUS
<1>inv. TypeOK /\ FramesAuthenticated /\ StateAuthenticated
  BY DEF AkaInv
<1>obs. obs \in ObsType
  BY <1>inv DEF TypeOK
<1>1. ASSUME NEW n \in 0..MaxVec,
             SaiResult(n)
      PROVE  FramesAuthenticated' /\ StateAuthenticated'
  <2>1. obs'.aka = obs.aka /\ UNCHANGED <<cfg, att, auth>>
    BY <1>1, Zenon DEF SaiResult
  <2>2. FramesAuthenticated'
    BY <1>1, InputKeeps, Zenon DEF SaiResult, Quiet, TellContext, Harmless, PlainFns
  <2> QED
    BY <1>inv, <2>1, <2>2, StateKeeps, Zenon
<1>2. ASSUME NEW kind \in ErrKinds,
             SaiError(kind)
      PROVE  FramesAuthenticated' /\ StateAuthenticated'
  <2>1. obs'.aka = obs.aka /\ UNCHANGED <<cfg, att, auth>>
    BY <1>2, Zenon DEF SaiError
  <2>2. FramesAuthenticated'
    BY <1>2, InputKeeps, Zenon DEF SaiError, Quiet, TellContext, Harmless, PlainFns
  <2> QED
    BY <1>inv, <2>1, <2>2, StateKeeps, Zenon
<1>3. ASSUME NEW kind \in ErrKinds,
             UlError(kind)
      PROVE  FramesAuthenticated' /\ StateAuthenticated'
  <2>1. obs'.aka = obs.aka /\ UNCHANGED <<cfg, att, auth>>
    BY <1>3, Zenon DEF UlError
  <2>2. FramesAuthenticated'
    BY <1>3, InputKeeps, Zenon DEF UlError, Quiet, TellContext, Harmless, PlainFns
  <2> QED
    BY <1>inv, <2>1, <2>2, StateKeeps, Zenon
<1>4. CASE UlResult
  <2>1. obs'.aka = obs.aka /\ UNCHANGED <<cfg, att, auth>>
    BY <1>4, <1>obs, Zenon DEF UlResult, ObsType
  <2>2. FramesAuthenticated'
    BY <1>4, InputKeeps, Zenon DEF UlResult, Quiet, TellContext, Harmless, PlainFns
  <2> QED
    BY <1>inv, <2>1, <2>2, StateKeeps, Zenon
<1>5. CASE InsertData
  <2>1. obs'.aka = obs.aka /\ UNCHANGED <<cfg, att, auth>>
    BY <1>5, <1>obs, Zenon DEF InsertData, ObsType
  <2>2. FramesAuthenticated'
    BY <1>5, InputKeeps, Zenon DEF InsertData, TellContext, Harmless, PlainFns
  <2> QED
    BY <1>inv, <2>1, <2>2, StateKeeps, Zenon
<1>6. CASE DeleteData
  <2>1. obs'.aka = obs.aka /\ UNCHANGED <<cfg, att, auth>>
    BY <1>6, <1>obs, Zenon DEF DeleteData, ObsType
  <2>2. FramesAuthenticated'
    BY <1>6, InputKeeps, Zenon DEF DeleteData, TellContext, Harmless, PlainFns
  <2> QED
    BY <1>inv, <2>1, <2>2, StateKeeps, Zenon
<1>7. ASSUME NEW withdraw \in BOOLEAN,
             LocationCancel(withdraw)
      PROVE  FramesAuthenticated' /\ StateAuthenticated'
  <2>1. obs'.aka = obs.aka /\ UNCHANGED <<cfg, att, auth>>
    BY <1>7, Zenon DEF LocationCancel, Cancel
  <2>2. FramesAuthenticated'
    BY <1>7, InputKeeps, Zenon DEF LocationCancel, Cancel, TellContext, Harmless,
       PlainFns
  <2> QED
    BY <1>inv, <2>1, <2>2, StateKeeps, Zenon
<1>8. CASE PurgeAnswer
  <2>1. obs'.aka = obs.aka /\ UNCHANGED <<cfg, att, auth>>
    BY <1>8, Zenon DEF PurgeAnswer, Cancel
  <2>2. FramesAuthenticated'
    BY <1>8, InputKeeps, Zenon DEF PurgeAnswer, Cancel, Quiet, TellContext, Harmless,
       PlainFns
  <2> QED
    BY <1>inv, <2>1, <2>2, StateKeeps, Zenon
<1>9. CASE HlrLost
  <2>1. obs'.aka = obs.aka /\ UNCHANGED <<cfg, att, auth>>
    BY <1>9, Zenon DEF HlrLost
  <2>2. FramesAuthenticated'
    BY <1>9, InputKeeps, Zenon DEF HlrLost, Quiet, Harmless, PlainFns
  <2> QED
    BY <1>inv, <2>1, <2>2, StateKeeps, Zenon
<1> QED
  BY <1>1, <1>2, <1>3, <1>4, <1>5, <1>6, <1>7, <1>8, <1>9, Zenon DEF HlrInput, HlrAnswer

\* The invariant holds in every state.
THEOREM AkaInvariant == Spec => []AkaInv
<1>1. Init => AkaInv
  <2> SUFFICES ASSUME Init PROVE AkaInv
    OBVIOUS
  <2>1. TypeOK
    BY InitTypes
  <2>2. FramesAuthenticated
    BY DEF Init, FramesAuthenticated
  <2>3. StateAuthenticated
    BY Zenon DEF Init, StateAuthenticated, NewAuth, NewAtt
  <2> QED
    BY <2>1, <2>2, <2>3 DEF AkaInv
<1>2. AkaInv /\ [Next]_vars => AkaInv'
  <2> SUFFICES ASSUME AkaInv, [Next]_vars PROVE AkaInv'
    OBVIOUS
  <2>1. TypeOK'
    BY NextTypes DEF AkaInv
  <2>2. CASE HandlerStep
    BY <2>1, <2>2, AttachFsmAka, AuthAka, EndAka, Zenon DEF HandlerStep, AkaInv
  <2>3. CASE MsInput \/ TimerInput \/ IuInput \/ HlrInput
    BY <2>1, <2>3, MsAka, TimerAka, IuAka, HlrAka, Zenon DEF AkaInv
  <2>4. CASE UNCHANGED vars
    <3>1. UNCHANGED <<cfg, att, auth, stack, obs>>
      BY <2>4, Zenon DEF vars
    <3> QED
      BY <2>1, <3>1, Zenon DEF AkaInv, FramesAuthenticated, StateAuthenticated,
         RequireAuth, Remote
  <2> QED
    BY <2>2, <2>3, <2>4, Zenon DEF Next
<1> QED
  BY <1>1, <1>2, PTL DEF Spec

\* With a remote HLR and "authentication required", the Attach Accept is only
\* ever sent to an MS that answered a challenge of this attach correctly: for
\* every number of vectors, retransmissions and outstanding HLR requests.
THEOREM AcceptsAuthenticated == Spec => []AcceptAuthenticated
<1>1. AkaInv => AcceptAuthenticated
  BY Zenon DEF AkaInv, StateAuthenticated, AcceptAuthenticated, RequireAuth
<1> QED
  BY <1>1, AkaInvariant, PTL

=============================================================================
