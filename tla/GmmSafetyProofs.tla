-------------------------- MODULE GmmSafetyProofs --------------------------
(***************************************************************************)
(* The safety properties of GmmContext, for every set of configurations,   *)
(* every number of retransmissions, vectors and HLR requests under way,    *)
(* and whether sends succeed or not.                                       *)
(*                                                                         *)
(* Each of them holds because of what the functions on the call stack may  *)
(* still do: an invariant over the states between two inputs would not be  *)
(* inductive, since a handler passes through many states where it is       *)
(* broken.  Inv therefore says, for every function that can be running and *)
(* every one that waits for it to return, what it may find.                *)
(***************************************************************************)
EXTENDS GmmContextProofs

-----------------------------------------------------------------------------
(* The function that runs, and those that wait for it to return.           *)

\* The function that runs and its argument; the functions it returns to.
Top == IF stack = <<>> THEN "none" ELSE Head(stack).fn
Arg == IF stack = <<>> THEN "none" ELSE Head(stack).d
Callers == {stack[i].fn : i \in 2..Len(stack)}

\* Two functions by shorter names.
Free == "gprs_gmm_mm_ctx_cleanup_free"
Proceed == "attach_proceed_after_auth"

\* The context is about to be freed.
Dying == Top \in {"E_REJECT", Free}

\* The attach will go on after the authentication.
Waits == Proceed \in Callers
Proceeding == Top = Proceed \/ Waits

\* Functions that wait although the context will have been freed.
Stale == "auth_reattempt++" \in Callers \/ "rnc_loss_release" \in Callers

\* The attach FSM is told to enter state s, or runs its entry action.
Told(s) == Top = "state_chg" /\ Arg = s
Entering(s) == Told(s) \/ (Top = "on_enter" /\ att.st = s)

\* Only then is a subscriber challenged: sgsn_auth_state_remote.
RequireAuth == Remote /\ cfg.require_auth

-----------------------------------------------------------------------------
(* The invariant.                                                          *)

\* Functions that are called by an input and have no caller.
Alone == {"E_ATTACH_REQ_RECV", "st_init", "E_ATTACH_COMPLETE_RECV", "E_IDEN_RESP_RECV",
          "rnc_loss_release", "E_AUTH_RESP_RECV_SUCCESS"}

\* The call stack: who may wait for whom, in which states of the attach FSM.
\* Only the end of the context runs above a function that would go on with a
\* freed one; attach_proceed_after_auth waits only while an attach that was
\* authenticated is in progress.
Calls ==
  /\ Callers \subseteq {Proceed, "auth_reattempt++", "rnc_loss_release"}
  /\ Stale => Dying
  /\ Top \in Alone => ~Waits
  /\ Top # "auth_reattempt++"
  /\ Proceeding => att.st \notin {"INIT", "IDENTIY"}
  /\ Told("IDENTIY") => ~Waits
  /\ Top = "st_init" => att.st = "INIT"
  /\ Top = "state_chg" => Arg \in {"IDENTIY", "AUTH", "ASK_VLR", "IU_SECURITY_CMD", "ACCEPT"}
  /\ Top = "state_chg" /\ att.st = "INIT" => Arg \in {"IDENTIY", "ASK_VLR"}
  /\ Top = "rnc_loss_release" => att.st = "INIT"
  /\ att.st = "REJECT" => Top = Free

\* What exists: a handler runs only in a live context, a dead one has no
\* timers, and the subscriber record lives as long as the context that uses
\* it or the GSUP handler that holds it.
Life ==
  /\ Top # "none" => mm.alive
  /\ ~mm.alive => att.st = "INIT" /\ ~att.timer /\ leg.T = "off"
  /\ sub.mm => mm.alive /\ sub.ex
  /\ gsup = "idle" /\ sub.ex => sub.mm
  /\ gsup # "idle" => sub.ex

\* The two timers: mm->timer runs only when no attach is in progress, and an
\* attach in progress has the timer of the FSM until the context is freed.
Timers ==
  /\ leg.T # "off" => att.st = "INIT"
  /\ att.timer => att.st # "INIT"
  /\ mm.alive /\ att.st \notin {"INIT", "IU_SECURITY_CMD"} => att.timer \/ Dying
  /\ Told("IDENTIY") => leg.T = "off"

\* The Iu connection: the functions that use iu.ue_ctx without a test have one.
Connected ==
  /\ Entering("IU_SECURITY_CMD") => iu.ue /\ ~iu.integ
  /\ Top = "gsm48_gmm_authorize" => Gb \/ iu.ue \/ (auth.state = "AUTHENTICATE" /\ ~auth.sec)
  /\ Top = "gsm0408_gprs_authenticate" => auth.state = "AUTHENTICATE"
  /\ ~obs.null

\* Without authentication no vector, challenge or security mode ever shows
\* up; with an access list only listed subscribers are to be accepted.
Trusting ==
  /\ ~RequireAuth => /\ ~auth.key /\ ~auth.sec /\ auth.chal = "none"
                     /\ auth.state # "AUTHENTICATE"
                     /\ att.st # "IU_SECURITY_CMD" /\ ~Told("IU_SECURITY_CMD")
                     /\ ~Proceeding /\ Top # "E_AUTH_RESP_RECV_SUCCESS"
  /\ cfg.policy = "acl" /\ Told("ACCEPT") => cfg.listed

\* The IMSI is known in every state after the identification.
Identified ==
  /\ att.st \in {"AUTH", "ASK_VLR", "IU_SECURITY_CMD", "ACCEPT"} => mm.imsi
  /\ Top = "E_IDEN_RESP_RECV" => (Arg = "IMSI" /\ mm.imsi) \/ Arg \in {"IMEI", "OTHER"}
  /\ att.st = "IDENTIY" /\ (Told("AUTH") \/ Told("ACCEPT")) => mm.imsi

\* No authentication of this attach can succeed before it has asked for one:
\* a challenge of an earlier procedure lost its vector.
NoAka == /\ ~auth.sec /\ (auth.key => auth.chal # "current")
         /\ RequireAuth => auth.state # "ACCEPTED"
\* While the attach identifies the MS nothing of an earlier procedure counts
\* as its authentication, unless both identities are known and no answer is
\* expected any more.
Identifying ==
  /\ att.st = "IDENTIY" => \/ NoAka \/ Dying
                           \/ /\ leg.id = "NONE" /\ mm.imsi /\ mm.imei
                              /\ Top \notin {"E_IDEN_RESP_RECV", "on_enter"} /\ ~Told("AUTH")
  /\ Told("IDENTIY") => NoAka
  /\ Entering("AUTH") => ~auth.sec

\* Authenticate is being entered or left.
Leaving == \/ Top \in {"on_enter", "E_REJECT", Free, "E_AUTH_RESP_RECV_RESYNC"}
           \/ Top = "state_chg" /\ Arg \in {"INIT", "IU_SECURITY_CMD", "ACCEPT", "ASK_VLR", "REJECT"}
\* In Authenticate the context holds the vector of the challenge, and the
\* cached authorisation state is the one of a challenge, until the answer is
\* acted upon.
Challenging ==
  /\ att.st = "AUTH" /\ ~Leaving =>
       /\ RequireAuth /\ auth.key
       /\ \/ /\ auth.state = "AUTHENTICATE"
             /\ ~auth.sec \/ Proceeding \/ Top = "E_AUTH_RESP_RECV_SUCCESS"
          \/ /\ auth.state = "ACCEPTED" /\ auth.sec
             /\ \/ Waits /\ Top \in {"gsm0408_gprs_access_granted", "E_VLR_ANSWERED"}
                \/ Top = Proceed
          \/ /\ auth.state = "REJECTED"
             /\ Top \in {"gsm0408_gprs_access_denied", "gsm0408_gprs_access_cancelled"}
  /\ Top = "E_AUTH_RESP_RECV_SUCCESS" => auth.sec /\ auth.key
  /\ Top = "sgsn_auth_request" /\ att.st = "AUTH" => auth.sec

\* A subscriber that is to be accepted was located and authorised; the cached
\* ACCEPTED of a policy without authentication never outlives the record's
\* authorisation by more than the call that looks at it.
Located ==
  /\ Remote /\ ~cfg.require_auth /\ auth.state = "ACCEPTED" =>
       /\ sub.mm /\ ~sub.ulp /\ ~sub.aip /\ (sub.authz \/ Top = "sgsn_auth_update")
       /\ Top # "sgsn_auth_request" /\ ~Entering("ASK_VLR")
  /\ gsup = "cancel" => ~sub.authz
  /\ Top = "E_AUTH_RESP_RECV_RESYNC" => auth.state = "UMTS_RESYNC" /\ auth.chal = "none"
  /\ Remote /\ cfg.require_ul /\ Told("ACCEPT") => sub.mm /\ sub.authz /\ ~sub.ulp
  /\ RequireAuth /\ auth.state = "ACCEPTED" =>
       /\ Top \in {"gsm0408_gprs_access_granted", "E_VLR_ANSWERED"} => auth.sec
       /\ ~Entering("AUTH")

\* On Iu an authenticated subscriber is accepted over a protected connection.
Integrity ==
  ~Gb /\ RequireAuth /\ Told("ACCEPT") /\ att.st # "ACCEPT" => (iu.ue => iu.integ)

\* The inductive invariant.
Inv == /\ Calls /\ Life /\ Timers /\ Connected /\ Trusting
       /\ Identified /\ Identifying /\ Challenging /\ Located /\ Integrity

-----------------------------------------------------------------------------
(* What an attach asks the HLR for.                                        *)

\* The attach in progress, while pending_req stands for it: neither an RA
\* update nor a service request has taken its place.
Ours == leg.preq = "ATTACH" /\ (att.st # "INIT" \/ Told("IDENTIY"))
\* The MS has answered the challenge, the Update Location is not yet sent.
Asking == att.st = "AUTH" /\ Top \in {"E_AUTH_RESP_RECV_SUCCESS", "sgsn_auth_request"}
\* The MS can answer a challenge only in Authenticate, so that the answer makes
\* this attach ask the HLR for the subscriber's data; from then on the record
\* is authorised, with no answer due, only if the data came since that answer.
Asked ==
  /\ auth.sec => obs.aka
  /\ Proceeding \/ att.st = "IU_SECURITY_CMD" \/ Told("IU_SECURITY_CMD") => obs.aka
  /\ Ours => Top # "gsm48_gmm_authorize"
  /\ Ours /\ ~obs.aka /\ auth.key /\ auth.chal = "current" =>
       Dying \/ (att.st = "AUTH" /\ Top \notin {"on_enter", "state_chg"})
  /\ RequireAuth /\ cfg.require_ul /\ Ours /\ att.st # "ACCEPT" =>
       /\ obs.aka /\ ~Asking /\ ~Dying /\ sub.authz /\ ~sub.ulp => obs.loc
       /\ Told("ACCEPT") => obs.loc

\* A step preserves the invariant, and with it Asked.
Kept == Inv' /\ (Asked => Asked')

-----------------------------------------------------------------------------
(* The call stack.                                                         *)

\* The function has returned to its caller, if it has one.
Returned == /\ Top' = IF Waits THEN Proceed ELSE "none"
            /\ Waits' => Waits
            /\ ~Stale' /\ Callers' \subseteq Callers
\* The last thing it did was to call f.
Called(f, x) == Top' = f /\ Arg' = x /\ Callers' = Callers
\* An input calls f.
Begun(f, x) == Top' = f /\ Arg' = x /\ Callers' = {}

\* The function that runs returns, or calls another one.
LEMMA Moves ==
  ASSUME NEW f, TypeOK, Calls, Running(f)
  PROVE  /\ Top = f /\ Arg = Data /\ Top # "none" /\ Head(stack) \in Frame
         /\ Return /\ ~Stale => Returned
         /\ \A c \in Frame : Do(<<c>>) => Called(c.fn, c.d)
         /\ \A c, e \in Frame : Do(<<c, e>>) => Top' = c.fn /\ Arg' = c.d /\ Callers' = Callers \cup {e.fn}
<1>1. stack \in Seq(Frame) /\ stack # <<>> /\ Head(stack).fn = f /\ Head(stack) \in Frame
  BY DEF TypeOK, Running
<1>2. Top = f /\ Arg = Data /\ Top # "none"
  <2>2. f # "none"
    BY <1>1 DEF Frame, ReqFns, PlainFns
  <2> QED
    BY <1>1, <2>2 DEF Top, Arg, Data
<1>3. ASSUME Return, ~Stale PROVE Returned
  <2>1. stack' \in Seq(Frame) /\ Len(stack') = Len(stack) - 1 /\ \A i \in 1..Len(stack') : stack'[i] = stack[i + 1]
    BY <1>1, <1>3 DEF Return
  <2>2. Callers' \subseteq Callers
    <3>1. \A i \in 2..Len(stack') : i + 1 \in 2..Len(stack) /\ stack'[i] = stack[i + 1]
      BY <2>1, <1>1
    <3> QED
      BY <3>1 DEF Callers
  <2>3. stack' # <<>> => Head(stack').fn \in Callers
    <3>1. stack' # <<>> => Head(stack') = stack[2] /\ 2 \in 2..Len(stack)
      BY <2>1, <1>1
    <3> QED
      BY <3>1 DEF Callers
  <2>4. Callers \subseteq {Proceed}
    BY <1>3 DEF Calls, Stale
  <2>5. stack' = <<>> => Callers = {}
    <3>0. stack' = <<>> => Len(stack) = 1
      <4>1. stack' = <<>> => Len(stack') = 0
        OBVIOUS
      <4>2. Len(stack) \in Nat
        BY <1>1
      <4> QED
        BY <2>1, <4>1, <4>2
    <3>1. stack' = <<>> => 2..Len(stack) = {}
      <4>1. 2..1 = {}
        OBVIOUS
      <4> QED
        BY <3>0, <4>1
    <3> QED
      BY <3>1 DEF Callers
  <2>6. Top' = IF Waits THEN Proceed ELSE "none"
    BY <2>3, <2>4, <2>5 DEF Top, Waits
  <2> QED
    BY <2>2, <2>6, <1>3 DEF Returned, Waits, Stale
<1>4. ASSUME NEW c \in Frame, Do(<<c>>) PROVE Called(c.fn, c.d)
  <2>1. /\ stack' \in Seq(Frame) /\ Len(stack') = Len(stack) /\ stack'[1] = c /\ stack' # <<>>
        /\ Head(stack') = c /\ \A i \in 2..Len(stack') : stack'[i] = stack[i]
    BY <1>1, <1>4 DEF Do
  <2> QED
    BY <2>1 DEF Top, Arg, Callers, Called
<1>5. ASSUME NEW c \in Frame, NEW e \in Frame, Do(<<c, e>>)
      PROVE  Top' = c.fn /\ Arg' = c.d /\ Callers' = Callers \cup {e.fn}
  <2>1. /\ stack' \in Seq(Frame) /\ Len(stack') = Len(stack) + 1 /\ stack'[1] = c /\ stack' # <<>> /\ stack'[2] = e
        /\ Head(stack') = c /\ \A i \in 3..Len(stack') : stack'[i] = stack[i - 1] /\ i - 1 \in 2..Len(stack)
        /\ \A i \in 2..Len(stack) : stack'[i + 1] = stack[i] /\ i + 1 \in 3..Len(stack')
    BY <1>1, <1>5 DEF Do
  <2>2. Callers' = Callers \cup {e.fn}
    <3>1. \A x : x \in Callers' => x \in Callers \cup {e.fn}
      <4> SUFFICES ASSUME NEW i \in 2..Len(stack') PROVE stack'[i].fn \in Callers \cup {e.fn}
        BY DEF Callers
      <4>1. CASE i = 2
        BY <2>1, <4>1
      <4>2. CASE i # 2
        BY <2>1, <4>2 DEF Callers
      <4> QED
        BY <4>1, <4>2
    <3>2. \A x \in Callers : x \in Callers'
      <4> SUFFICES ASSUME NEW i \in 2..Len(stack) PROVE stack[i].fn \in Callers'
        BY DEF Callers
      <4>1. stack'[i + 1].fn = stack[i].fn /\ i + 1 \in 2..Len(stack')
        BY <2>1
      <4> QED
        BY <4>1 DEF Callers
    <3>3. e.fn \in Callers'
      <4>1. 2 \in 2..Len(stack') /\ stack'[2] = e
        BY <2>1, <1>1
      <4> QED
        BY <4>1 DEF Callers
    <3> QED
      BY <3>1, <3>2, <3>3
  <2> QED
    BY <2>1, <2>2 DEF Top, Arg
<1> QED
  BY <1>1, <1>2, <1>3, <1>4, <1>5, Zenon

\* A frame is the function and its argument.
LEMMA FrameParts ==
  /\ \A f \in PlainFns : Call(f) \in Frame /\ Call(f).fn = f /\ Call(f).d = "-"
  /\ \A f \in ReqFns, m \in Reqs :
       CallWith(f, m) \in Frame /\ CallWith(f, m).fn = f /\ CallWith(f, m).d = m
  /\ \A s \in AttachStates :
       /\ CallWith("state_chg", s) \in Frame
       /\ CallWith("state_chg", s).fn = "state_chg" /\ CallWith("state_chg", s).d = s
  /\ \A t \in IdTypes :
       /\ CallWith("E_IDEN_RESP_RECV", t) \in Frame
       /\ CallWith("E_IDEN_RESP_RECV", t).fn = "E_IDEN_RESP_RECV" /\ CallWith("E_IDEN_RESP_RECV", t).d = t
  BY CallFrame, CallWithFrame DEF Call, CallWith

\* What a function of the handler in progress may do to the stack.
LEMMA Steps ==
  ASSUME NEW f, TypeOK, Calls, Running(f)
  PROVE  /\ Top = f /\ Arg = Data /\ Top # "none" /\ Head(stack) \in Frame
         /\ Return /\ ~Stale => Returned
         /\ Do(<<Call("E_REJECT")>>) => Called("E_REJECT", "-")
         /\ Do(<<Call("E_VLR_ANSWERED")>>) => Called("E_VLR_ANSWERED", "-")
         /\ Do(<<Call("on_enter")>>) => Called("on_enter", "-")
         /\ Do(<<Call("attach_proceed_after_auth")>>) => Called("attach_proceed_after_auth", "-")
         /\ Do(<<Call("sgsn_auth_request")>>) => Called("sgsn_auth_request", "-")
         /\ Do(<<Call("sgsn_auth_update")>>) => Called("sgsn_auth_update", "-")
         /\ Do(<<Call("gsm0408_gprs_authenticate")>>) => Called("gsm0408_gprs_authenticate", "-")
         /\ Do(<<Call("gsm0408_gprs_access_granted")>>) => Called("gsm0408_gprs_access_granted", "-")
         /\ Do(<<Call("gsm0408_gprs_access_denied")>>) => Called("gsm0408_gprs_access_denied", "-")
         /\ Do(<<Call("gsm0408_gprs_access_cancelled")>>) => Called("gsm0408_gprs_access_cancelled", "-")
         /\ Do(<<Call("gsm48_gmm_authorize")>>) => Called("gsm48_gmm_authorize", "-")
         /\ Do(<<Call("gprs_gmm_mm_ctx_cleanup_free")>>) => Called("gprs_gmm_mm_ctx_cleanup_free", "-")
         /\ \A s \in AttachStates : Do(<<CallWith("state_chg", s)>>) => Called("state_chg", s)
         /\ \A m \in Reqs : Do(<<CallWith("st_init", m)>>) => Called("st_init", m)
         /\ Do(<<Call("sgsn_auth_request"), Call("attach_proceed_after_auth")>>) =>
              Top' = "sgsn_auth_request" /\ Callers' = Callers \cup {Proceed}
         /\ Do(<<Call("E_REJECT"), Call("auth_reattempt++")>>) =>
              Top' = "E_REJECT" /\ Callers' = Callers \cup {"auth_reattempt++"}
<1>1. \A x \in PlainFns : Do(<<Call(x)>>) => Called(x, "-")
  <2> TAKE x \in PlainFns
  <2>1. Call(x) \in Frame /\ Call(x).fn = x /\ Call(x).d = "-"
    BY FrameParts, Zenon
  <2> QED
    BY <2>1, Moves DEF Called
<1>2. \A x, y \in PlainFns : Do(<<Call(x), Call(y)>>) => Top' = x /\ Callers' = Callers \cup {y}
  <2> TAKE x, y \in PlainFns
  <2>1. Call(x) \in Frame /\ Call(y) \in Frame /\ Call(x).fn = x /\ Call(y).fn = y
    BY FrameParts, Zenon
  <2>2. Do(<<Call(x), Call(y)>>) => Top' = Call(x).fn /\ Callers' = Callers \cup {Call(y).fn}
    BY <2>1, Moves, Zenon
  <2> QED
    BY <2>1, <2>2
<1>3. \A s \in AttachStates : Do(<<CallWith("state_chg", s)>>) => Called("state_chg", s)
  <2> TAKE s \in AttachStates
  <2>1. CallWith("state_chg", s) \in Frame /\ CallWith("state_chg", s).fn = "state_chg" /\ CallWith("state_chg", s).d = s
    BY FrameParts, Zenon
  <2> QED
    BY <2>1, Moves DEF Called
<1>4. \A m \in Reqs : Do(<<CallWith("st_init", m)>>) => Called("st_init", m)
  <2> TAKE m \in Reqs
  <2>0. "st_init" \in ReqFns
    BY DEF ReqFns
  <2>1. CallWith("st_init", m) \in Frame /\ CallWith("st_init", m).fn = "st_init" /\ CallWith("st_init", m).d = m
    BY <2>0, FrameParts, Zenon
  <2> QED
    BY <2>1, Moves DEF Called
<1>5. /\ "E_REJECT" \in PlainFns /\ "auth_reattempt++" \in PlainFns
      /\ "sgsn_auth_request" \in PlainFns /\ "attach_proceed_after_auth" \in PlainFns
      /\ "E_VLR_ANSWERED" \in PlainFns
      /\ "on_enter" \in PlainFns
      /\ "sgsn_auth_update" \in PlainFns
      /\ "gsm0408_gprs_authenticate" \in PlainFns
      /\ "gsm0408_gprs_access_granted" \in PlainFns
      /\ "gsm0408_gprs_access_denied" \in PlainFns
      /\ "gsm0408_gprs_access_cancelled" \in PlainFns
      /\ "gsm48_gmm_authorize" \in PlainFns
      /\ "gprs_gmm_mm_ctx_cleanup_free" \in PlainFns
  BY DEF PlainFns
<1>6. Top = f /\ Arg = Data /\ Top # "none" /\ Head(stack) \in Frame /\ (Return /\ ~Stale => Returned)
  BY Moves
<1> QED
  BY <1>1, <1>2, <1>3, <1>4, <1>5, <1>6, Zenon DEF Proceed

\* What an input puts on the stack.
LEMMA Starts ==
  ASSUME stack = <<>>
  PROVE  /\ Top = "none" /\ Callers = {}
         /\ stack' = <<>> => Top' = "none" /\ Callers' = {}
         /\ \A x \in PlainFns : stack' = <<Call(x)>> => Begun(x, "-")
         /\ \A m \in Reqs : stack' = <<CallWith("E_ATTACH_REQ_RECV", m)>> => Begun("E_ATTACH_REQ_RECV", m)
         /\ \A t \in IdTypes : stack' = <<CallWith("E_IDEN_RESP_RECV", t)>> => Begun("E_IDEN_RESP_RECV", t)
         /\ stack' = <<Call("E_REJECT"), Call("rnc_loss_release")>> =>
              Top' = "E_REJECT" /\ Callers' = {"rnc_loss_release"}
<1>1. Top = "none" /\ Callers = {}
  BY DEF Top, Callers
<1>2. ASSUME stack' = <<>> PROVE Top' = "none" /\ Callers' = {}
  BY <1>2 DEF Top, Callers
<1>3. \A c \in Frame : stack' = <<c>> => Begun(c.fn, c.d)
  BY DEF Begun, Top, Arg, Callers
<1>4. \A c, e \in Frame : stack' = <<c, e>> => Top' = c.fn /\ Callers' = {e.fn}
  BY DEF Top, Callers
<1>5. \A x \in PlainFns : stack' = <<Call(x)>> => Begun(x, "-")
  <2> TAKE x \in PlainFns
  <2>1. Call(x) \in Frame /\ Call(x).fn = x /\ Call(x).d = "-"
    BY FrameParts, Zenon
  <2> QED
    BY <2>1, <1>3 DEF Begun
<1>6. \A m \in Reqs : stack' = <<CallWith("E_ATTACH_REQ_RECV", m)>> => Begun("E_ATTACH_REQ_RECV", m)
  <2> TAKE m \in Reqs
  <2>0. "E_ATTACH_REQ_RECV" \in ReqFns
    BY DEF ReqFns
  <2>1. CallWith("E_ATTACH_REQ_RECV", m) \in Frame /\ CallWith("E_ATTACH_REQ_RECV", m).fn = "E_ATTACH_REQ_RECV" /\ CallWith("E_ATTACH_REQ_RECV", m).d = m
    BY <2>0, FrameParts, Zenon
  <2> QED
    BY <2>1, <1>3 DEF Begun
<1>7. \A t \in IdTypes : stack' = <<CallWith("E_IDEN_RESP_RECV", t)>> => Begun("E_IDEN_RESP_RECV", t)
  <2> TAKE t \in IdTypes
  <2>1. CallWith("E_IDEN_RESP_RECV", t) \in Frame /\ CallWith("E_IDEN_RESP_RECV", t).fn = "E_IDEN_RESP_RECV" /\ CallWith("E_IDEN_RESP_RECV", t).d = t
    BY FrameParts, Zenon
  <2> QED
    BY <2>1, <1>3 DEF Begun
<1>8. stack' = <<Call("E_REJECT"), Call("rnc_loss_release")>> =>
              Top' = "E_REJECT" /\ Callers' = {"rnc_loss_release"}
  <2>1. "E_REJECT" \in PlainFns /\ "rnc_loss_release" \in PlainFns
    BY DEF PlainFns
  <2>2. /\ Call("E_REJECT") \in Frame /\ Call("rnc_loss_release") \in Frame
        /\ Call("E_REJECT").fn = "E_REJECT" /\ Call("rnc_loss_release").fn = "rnc_loss_release"
    BY <2>1, FrameParts, Zenon
  <2>3. stack' = <<Call("E_REJECT"), Call("rnc_loss_release")>> =>
              Top' = Call("E_REJECT").fn /\ Callers' = {Call("rnc_loss_release").fn}
    BY <2>2, <1>4, Zenon
  <2> QED
    BY <2>2, <2>3
<1> QED
  BY <1>1, <1>2, <1>5, <1>6, <1>7, <1>8, Zenon
-----------------------------------------------------------------------------
(* Every step preserves the invariant.                                     *)

\* A function of the handler in progress.
LEMMA Runs ==
  ASSUME NEW f, TypeOK, Inv, Running(f)
  PROVE  /\ Top = f /\ Arg = Data
         /\ f \notin {"E_REJECT", Free} => ~Stale
         /\ f = "state_chg" => Arg \in AttachStates
         /\ f \in ReqFns => Arg \in Reqs
<1>1. Top = f /\ Arg = Data /\ Head(stack) \in Frame
  BY Steps DEF Inv
<1>2. Head(stack).fn = f
  BY DEF Running
<1> QED
  BY <1>1, <1>2, FrameData DEF Inv, Calls, Dying, Data

\* The values the invariant tells apart.
LEMMA Fields ==
  ASSUME TypeOK
  PROVE  att.st \in AttachStates /\ auth.state \in AuthStates /\ auth.chal \in Challenges
  BY DEF TypeOK, AttType, AuthType

\* The parts of the invariant are expanded in every proof below.
USE DEF Calls, Life, Timers, Connected, Trusting, Identified, Identifying, NoAka, Leaving,
        Challenging, Located, Integrity, Returned, Called, Begun, Alone, Free, Proceed,
        Dying, Waits, Proceeding, Stale, Told, Entering, RequireAuth

\* osmo_fsm_inst_state_chg calls the entry action or refuses the state.
LEMMA StateChgInv == ASSUME TypeOK, Inv, StateChg PROVE Kept
<1>1. Running("state_chg") /\ att \in AttType /\ att.st \in AttachStates
  BY Fields DEF StateChg, TypeOK
<1>2. Top = "state_chg" /\ Arg = Data /\ ~Stale /\ Data \in AttachStates
  BY <1>1, Runs
<1>3. CASE Data \in OutStates(att.st)
  <2>1. /\ att'.st = Data /\ att'.timer = TRUE
        /\ UNCHANGED <<cfg, gsup, mm, auth, leg, iu, sub, hlr, obs>>
    BY <1>1, <1>3 DEF StateChg, AttType
  <2>2. Called("on_enter", "-")
    BY <1>1, <1>3, Steps DEF StateChg, Inv
  <2>3. Calls' /\ Life' /\ Timers' /\ Connected' /\ Trusting'
    BY <2>1, <2>2, <1>1, <1>2, <1>3 DEF Inv, OutStates, AttachStates, Gb, Remote
  <2>4. Identified' /\ Identifying' /\ Challenging' /\ Located' /\ Integrity'
    BY <2>1, <2>2, <1>1, <1>2, <1>3 DEF Inv, OutStates, AttachStates, Gb, Remote
  <2>5. Asked => Asked'
    BY <2>1, <2>2, <1>1, <1>2, <1>3 DEF Asked, Ours, Asking, Inv, OutStates, AttachStates, Gb, Remote
  <2> QED
    BY <2>3, <2>4, <2>5 DEF Inv, Kept
<1>4. CASE Data \notin OutStates(att.st)
  <2>1. UNCHANGED <<cfg, gsup, mm, att, auth, leg, iu, sub, hlr, obs>>
    BY <1>4 DEF StateChg
  <2>2. Returned
    BY <1>1, <1>2, <1>4, Steps DEF StateChg, Inv
  <2>3. Inv'
    BY <2>1, <2>2, <1>1, <1>2, <1>4 DEF Inv, OutStates, AttachStates, Gb, Remote
  <2>4. Asked => Asked'
    BY <2>1, <2>2, <1>1, <1>2, <1>4 DEF Asked, Ours, Asking, Inv, OutStates, AttachStates, Gb, Remote
  <2> QED
    BY <2>3, <2>4 DEF Kept
<1> QED
  BY <1>3, <1>4

\* st_init forgets what the attach before it has learnt.
LEMMA StInitInv == ASSUME TypeOK, Inv, StInit PROVE Kept
<1>1. Running("st_init") /\ att \in AttType /\ auth \in AuthType /\ leg \in LegType /\ obs \in ObsType
  BY DEF StInit, TypeOK
<1>2. Top = "st_init" /\ ~Stale /\ Called("state_chg", "IDENTIY")
  BY <1>1, Runs, Steps DEF StInit, Inv, AttachStates
<1>3. att'.st = att.st /\ att'.timer = att.timer
  BY <1>1 DEF StInit, AttType
<1>4. /\ auth'.state = "UNKNOWN" /\ auth'.sec = FALSE /\ auth'.key = FALSE /\ auth'.chal = "none"
  BY <1>1 DEF StInit, NoVector, AuthType
<1>5. leg'.T = "off" /\ leg'.id = leg.id /\ leg'.preq = "ATTACH"
  BY <1>1 DEF StInit, TimerStopAll, LegType
<1>6. obs'.null = obs.null /\ obs'.aka = FALSE /\ obs'.loc = FALSE /\ UNCHANGED <<cfg, gsup, mm, iu, sub, hlr>>
  BY <1>1 DEF StInit, ObsType
<1>7. Inv'
  BY <1>2, <1>3, <1>4, <1>5, <1>6 DEF Inv, Gb, Remote
<1>8. Asked => Asked'
  BY <1>2, <1>3, <1>4, <1>5, <1>6 DEF Asked, Ours, Asking, Inv, Gb, Remote
<1> QED
  BY <1>7, <1>8 DEF Kept

\* st_identity_on_enter asks for an identity.
LEMMA IdentityOnEnterInv == ASSUME TypeOK, Inv, IdentityOnEnter PROVE Kept
<1>1. Running("on_enter") /\ att.st = "IDENTIY" /\ leg \in LegType
  BY DEF IdentityOnEnter, TypeOK
<1>2. Top = "on_enter" /\ ~Stale
  BY <1>1, Runs
<1>3. Returned \/ Called("E_REJECT", "-")
  BY <1>1, <1>2, Steps DEF IdentityOnEnter, Inv
<1>4. leg'.T = leg.T /\ leg'.preq = leg.preq /\ UNCHANGED <<cfg, gsup, mm, att, auth, iu, sub, hlr, obs>>
  BY <1>1 DEF IdentityOnEnter, LegType
<1>5. Inv'
  BY <1>1, <1>2, <1>3, <1>4 DEF Inv, Gb, Remote
<1>6. Asked => Asked'
  BY <1>1, <1>2, <1>3, <1>4 DEF Asked, Ours, Asking, Inv, Gb, Remote
<1> QED
  BY <1>5, <1>6 DEF Kept

\* With a remote HLR st_auth_on_enter acts on the cached state.
LEMMA OnEnterState ==
  ASSUME TypeOK
  PROVE  /\ Remote => AuthStateOnEnter = auth.state
         /\ ~Remote => /\ AuthStateOnEnter \in {"UNKNOWN", "ACCEPTED", "REJECTED"}
                       /\ AuthStateOnEnter = "ACCEPTED" /\ cfg.policy = "acl" => cfg.listed
  BY DEF AuthStateOnEnter, SgsnAuthState, LocalAuthState

\* st_auth_on_enter leaves the state or sends a challenge.
LEMMA AuthOnEnterInv == ASSUME TypeOK, Inv, AuthOnEnter PROVE Kept
<1>1. Running("on_enter") /\ att.st = "AUTH" /\ att \in AttType /\ auth \in AuthType /\ leg \in LegType
  BY DEF AuthOnEnter, TypeOK
<1>2. Top = "on_enter" /\ ~Stale
  BY <1>1, Runs
<1>3. leg'.T = leg.T /\ leg'.preq = leg.preq /\ leg'.id = leg.id /\ UNCHANGED <<cfg, gsup, mm, iu, sub, hlr, obs>>
  BY <1>1 DEF AuthOnEnter, LegType
<1>4. CASE AuthStateOnEnter # "AUTHENTICATE" \/ ~auth.key
  <2>1. \/ Called("state_chg", "ASK_VLR") /\ AuthStateOnEnter \in {"UMTS_RESYNC", "UNKNOWN", "AUTHENTICATE"}
        \/ Called("E_REJECT", "-")
        \/ AuthStateOnEnter = "ACCEPTED" /\ Called("state_chg", "ACCEPT")
    BY <1>1, <1>4, Steps DEF AuthOnEnter, Inv, AttachStates
  <2>2. UNCHANGED <<att, auth>>
    BY <1>4 DEF AuthOnEnter
  <2>3. Calls' /\ Life' /\ Timers' /\ Connected' /\ Trusting'
    BY <1>1, <1>2, <1>3, <2>1, <2>2, OnEnterState DEF Inv, Gb, Remote
  <2>4. Identified' /\ Identifying' /\ Challenging' /\ Located' /\ Integrity'
    BY <1>1, <1>2, <1>3, <2>1, <2>2, OnEnterState DEF Inv, Gb, Remote
  <2>5. Asked => Asked'
    BY <1>1, <1>2, <1>3, <2>1, <2>2, OnEnterState DEF Asked, Ours, Asking, Inv, Gb, Remote
  <2> QED
    BY <2>3, <2>4, <2>5 DEF Inv, Kept
<1>5. CASE AuthStateOnEnter = "AUTHENTICATE" /\ auth.key
  <2>1. \/ Returned /\ auth'.chal = "current"
        \/ Top' = "E_REJECT" /\ Callers' = Callers \cup {"auth_reattempt++"} /\ UNCHANGED auth
    BY <1>1, <1>2, <1>5, Steps DEF AuthOnEnter, Inv, AuthType
  <2>2. att'.st = att.st /\ att'.timer = att.timer
    BY <1>1, <1>5 DEF AuthOnEnter, AttType
  <2>3. auth'.state = auth.state /\ auth'.sec = auth.sec /\ auth'.key = auth.key
    BY <1>1, <1>5 DEF AuthOnEnter, AuthType
  <2>4. Remote /\ auth.state = "AUTHENTICATE"
    BY <1>5, OnEnterState
  <2>5. Calls' /\ Life' /\ Timers' /\ Connected' /\ Trusting'
    BY <1>1, <1>2, <1>3, <1>5, <2>1, <2>2, <2>3, <2>4 DEF Inv, Gb, Remote
  <2>6. Identified' /\ Identifying' /\ Challenging' /\ Located' /\ Integrity'
    BY <1>1, <1>2, <1>3, <1>5, <2>1, <2>2, <2>3, <2>4 DEF Inv, Gb, Remote
  <2>7. Asked => Asked'
    BY <1>1, <1>2, <1>3, <1>5, <2>1, <2>2, <2>3, <2>4 DEF Asked, Ours, Asking, Inv, Gb, Remote
  <2> QED
    BY <2>5, <2>6, <2>7 DEF Inv, Kept
<1> QED
  BY <1>4, <1>5
\* st_ask_vlr_on_enter
LEMMA AskVlrOnEnterInv == ASSUME TypeOK, Inv, AskVlrOnEnter PROVE Kept
<1>1. Running("on_enter") /\ att.st = "ASK_VLR"
  BY DEF AskVlrOnEnter
<1>2. Top = "on_enter" /\ ~Stale
  BY <1>1, Runs
<1>3. Returned \/ Called("sgsn_auth_request", "-")
  BY <1>1, <1>2, Steps DEF AskVlrOnEnter, Inv
<1>4. UNCHANGED <<cfg, gsup, mm, att, auth, leg, iu, sub, hlr, obs>>
  BY DEF AskVlrOnEnter
<1>5. Inv'
  BY <1>1, <1>2, <1>3, <1>4 DEF Inv, Gb, Remote
<1>6. Asked => Asked'
  BY <1>1, <1>2, <1>3, <1>4 DEF Asked, Ours, Asking, Inv, Gb, Remote
<1> QED
  BY <1>5, <1>6 DEF Kept

\* st_iu_security_cmd_on_enter finds the connection set.
LEMMA IuSecurityCmdOnEnterInv == ASSUME TypeOK, Inv, IuSecurityCmdOnEnter PROVE Kept
<1>1. Running("on_enter") /\ att.st = "IU_SECURITY_CMD" /\ iu \in IuType /\ obs \in ObsType
  BY DEF IuSecurityCmdOnEnter, TypeOK
<1>2. Top = "on_enter" /\ ~Stale
  BY <1>1, Runs
<1>3. iu.ue /\ ~iu.integ
  BY <1>1, <1>2 DEF Inv
<1>4. Returned
  BY <1>1, <1>2, <1>3, Steps DEF IuSecurityCmdOnEnter, Inv
<1>5. /\ iu'.ue = iu.ue /\ iu'.integ = iu.integ
      /\ UNCHANGED <<cfg, gsup, mm, att, auth, leg, sub, hlr>>
  BY <1>1, <1>3 DEF IuSecurityCmdOnEnter, IuType
<1>6. ~obs'.null /\ obs'.aka = obs.aka /\ obs'.loc = obs.loc
  <2>1. ~obs.null
    BY DEF Inv
  <2> QED
    BY <1>1, <1>3, <2>1, Zenon DEF IuSecurityCmdOnEnter, ObsType
<1>7. Inv'
  BY <1>1, <1>2, <1>3, <1>4, <1>5, <1>6 DEF Inv, Gb, Remote
<1>8. Asked => Asked'
  BY <1>1, <1>2, <1>3, <1>4, <1>5, <1>6 DEF Asked, Ours, Asking, Inv, Gb, Remote
<1> QED
  BY <1>7, <1>8 DEF Kept

\* st_accept_on_enter sends the Attach Accept.
LEMMA AcceptOnEnterInv == ASSUME TypeOK, Inv, AcceptOnEnter PROVE Kept
<1>1. Running("on_enter") /\ att.st = "ACCEPT" /\ leg \in LegType /\ obs \in ObsType
  BY DEF AcceptOnEnter, TypeOK
<1>2. Top = "on_enter" /\ ~Stale
  BY <1>1, Runs
<1>3. Returned
  BY <1>1, <1>2, Steps DEF AcceptOnEnter, Inv
<1>4. leg'.T = "off" /\ leg'.preq = "none" /\ obs'.null = obs.null /\ obs'.aka = obs.aka /\ UNCHANGED <<cfg, gsup, mm, att, auth, iu, sub, hlr>>
  BY <1>1 DEF AcceptOnEnter, TimerStopAll, LegType, ObsType
<1>5. Inv'
  BY <1>1, <1>2, <1>3, <1>4 DEF Inv, Gb, Remote
<1>6. Asked => Asked'
  BY <1>1, <1>2, <1>3, <1>4 DEF Asked, Ours, Asking, Inv, Gb, Remote
<1> QED
  BY <1>5, <1>6 DEF Kept

\* attach_proceed_after_auth asks for integrity and for the location before it accepts.
LEMMA ProceedInv == ASSUME TypeOK, Inv, AttachProceedAfterAuth PROVE Kept
<1>1. Running(Proceed)
  BY DEF AttachProceedAfterAuth
<1>2. Top = Proceed /\ ~Stale
  BY <1>1, Runs
<1>3. \/ NeedsIuSecurity /\ (Called("state_chg", "IU_SECURITY_CMD") \/ (Returned /\ att.st = "IU_SECURITY_CMD"))
      \/ ~NeedsIuSecurity /\ AttachNeedsUpdateLocation /\ Called("state_chg", "ASK_VLR")
      \/ ~NeedsIuSecurity /\ ~AttachNeedsUpdateLocation /\ Called("state_chg", "ACCEPT")
  <2>1. CASE NeedsIuSecurity
    BY <1>1, <1>2, <2>1, Steps DEF AttachProceedAfterAuth, Inv, AttachStates
  <2>2. CASE ~NeedsIuSecurity /\ AttachNeedsUpdateLocation
    BY <1>1, <2>2, Steps DEF AttachProceedAfterAuth, Inv, AttachStates
  <2>3. CASE ~NeedsIuSecurity /\ ~AttachNeedsUpdateLocation
    BY <1>1, <2>3, Steps DEF AttachProceedAfterAuth, Inv, AttachStates
  <2> QED
    BY <2>1, <2>2, <2>3
<1>4. UNCHANGED <<cfg, gsup, mm, att, auth, leg, iu, sub, hlr, obs>>
  BY DEF AttachProceedAfterAuth
<1>5. Calls' /\ Life' /\ Timers' /\ Connected' /\ Trusting'
  BY <1>2, <1>3, <1>4 DEF Inv, Gb, Remote, NeedsIuSecurity
<1>6. Identified' /\ Identifying' /\ Challenging' /\ Located' /\ Integrity'
  BY <1>2, <1>3, <1>4 DEF Inv, Gb, Remote, NeedsIuSecurity, AttachNeedsUpdateLocation
<1>7. Asked => Asked'
  BY <1>2, <1>3, <1>4 DEF Asked, Ours, Asking, Inv, Gb, Remote, NeedsIuSecurity, AttachNeedsUpdateLocation
<1> QED
  BY <1>5, <1>6, <1>7 DEF Inv, Kept

\* An Attach Request starts the attach again or is ignored.
LEMMA EvAttachReqInv == ASSUME TypeOK, Inv, EvAttachReq PROVE Kept
<1>1. Running("E_ATTACH_REQ_RECV") /\ att \in AttType
  BY DEF EvAttachReq, TypeOK
<1>2. Top = "E_ATTACH_REQ_RECV" /\ ~Stale /\ Data \in Reqs
  BY <1>1, Runs DEF ReqFns
<1>3. CASE Restarts(Data)
  <2>1. Called("st_init", Data)
    BY <1>1, <1>2, <1>3, Steps DEF EvAttachReq, Inv
  <2>2. att.st # "REJECT"
    BY <1>2 DEF Inv
  <2>3. /\ att'.st = "INIT" /\ att'.timer = FALSE
        /\ UNCHANGED <<cfg, gsup, mm, auth, leg, iu, sub, hlr, obs>>
    BY <1>1, <1>3, <2>2 DEF EvAttachReq, AttType
  <2>4. Inv'
    BY <1>2, <2>1, <2>3 DEF Inv, Gb, Remote
  <2>5. Asked => Asked'
    BY <1>2, <2>1, <2>3 DEF Asked, Ours, Asking, Inv, Gb, Remote
  <2> QED
    BY <2>4, <2>5 DEF Kept
<1>4. CASE ~Restarts(Data)
  <2>1. Returned /\ UNCHANGED <<cfg, gsup, mm, att, auth, leg, iu, sub, hlr, obs>>
    BY <1>1, <1>2, <1>4, Steps DEF EvAttachReq, Inv
  <2>2. Inv'
    BY <1>2, <2>1 DEF Inv, Gb, Remote
  <2>3. Asked => Asked'
    BY <1>2, <2>1 DEF Asked, Ours, Asking, Inv, Gb, Remote
  <2> QED
    BY <2>2, <2>3 DEF Kept
<1> QED
  BY <1>3, <1>4

\* E_REJECT leads to the end of the context in every state.
LEMMA EvRejectInv == ASSUME TypeOK, Inv, EvReject PROVE Kept
<1>1. Running("E_REJECT") /\ att \in AttType /\ leg \in LegType /\ att.st \in AttachStates
  BY Fields DEF EvReject, TypeOK
<1>2. Top = "E_REJECT" /\ Called(Free, "-")
  BY <1>1, Runs, Steps DEF EvReject, Inv
<1>3. /\ att'.st = IF att.st = "INIT" THEN "INIT" ELSE "REJECT"
      /\ att'.timer = FALSE
  <2>1. "REJECT" \in OutStates(att.st) <=> att.st \notin {"INIT", "REJECT"}
    BY <1>1 DEF OutStates, AttachStates
  <2> QED
    BY <1>1, <2>1 DEF EvReject, AttType
<1>4. leg'.T = "off" /\ leg'.preq = leg.preq /\ UNCHANGED <<cfg, gsup, mm, auth, iu, sub, hlr, obs>>
  BY <1>1 DEF EvReject, TimerStopAll, LegType
<1>5. Inv'
  BY <1>2, <1>3, <1>4 DEF Inv, Gb, Remote
<1>6. Asked => Asked'
  BY <1>2, <1>3, <1>4 DEF Asked, Ours, Asking, Inv, Gb, Remote
<1> QED
  BY <1>5, <1>6 DEF Kept

\* The identity that was asked for, another one, or none at all.
LEMMA EvIdenRespInv == ASSUME TypeOK, Inv, EvIdenResp PROVE Kept
<1>1. Running("E_IDEN_RESP_RECV") /\ att \in AttType /\ att.id \in IdTypes
  BY DEF EvIdenResp, TypeOK, AttType
<1>2. Top = "E_IDEN_RESP_RECV" /\ Arg = Data /\ ~Stale
  BY <1>1, Runs
<1>3. \/ Returned
      \/ att.st = "IDENTIY" /\ Called("E_REJECT", "-")
      \/ att.st = "IDENTIY" /\ Data = "IMEI" /\ Called("state_chg", "IDENTIY")
      \/ att.st = "IDENTIY" /\ ~(Data = "IMEI" /\ ~mm.imsi) /\ Data # "OTHER" /\ Called("state_chg", "AUTH")
  BY <1>1, <1>2, Steps DEF EvIdenResp, Inv, AttachStates, MustAskImsi
<1>4. /\ att'.st = att.st /\ att'.timer = att.timer
      /\ UNCHANGED <<cfg, gsup, mm, auth, leg, iu, sub, hlr, obs>>
  BY <1>1 DEF EvIdenResp, AttType
<1>5. Calls' /\ Life' /\ Timers' /\ Connected' /\ Trusting'
  BY <1>1, <1>2, <1>3, <1>4 DEF Inv, Gb, Remote
<1>6. Identified' /\ Identifying' /\ Challenging' /\ Located' /\ Integrity'
  BY <1>1, <1>2, <1>3, <1>4 DEF Inv, Gb, Remote
<1>7. Asked => Asked'
  BY <1>1, <1>2, <1>3, <1>4 DEF Asked, Ours, Asking, Inv, Gb, Remote
<1> QED
  BY <1>5, <1>6, <1>7 DEF Inv, Kept

\* The MS has answered the challenge.
LEMMA EvAuthSuccessInv == ASSUME TypeOK, Inv, EvAuthSuccess PROVE Kept
<1>1. Running("E_AUTH_RESP_RECV_SUCCESS")
  BY DEF EvAuthSuccess
<1>2. Top = "E_AUTH_RESP_RECV_SUCCESS" /\ ~Stale
  BY <1>1, Runs
<1>3. \/ att.st = "AUTH" /\ Top' = "sgsn_auth_request" /\ Callers' = Callers \cup {Proceed}
      \/ att.st # "AUTH" /\ Returned
  BY <1>1, <1>2, Steps DEF EvAuthSuccess, Inv
<1>4. UNCHANGED <<cfg, gsup, mm, att, auth, leg, iu, sub, hlr, obs>>
  BY DEF EvAuthSuccess
<1>5. Calls' /\ Life' /\ Timers' /\ Connected' /\ Trusting'
  BY <1>2, <1>3, <1>4 DEF Inv, Gb, Remote
<1>6. Identified' /\ Identifying' /\ Challenging' /\ Located' /\ Integrity'
  BY <1>2, <1>3, <1>4 DEF Inv, Gb, Remote
<1>7. Asked => Asked'
  BY <1>2, <1>3, <1>4 DEF Asked, Ours, Asking, Inv, Gb, Remote
<1> QED
  BY <1>5, <1>6, <1>7 DEF Inv, Kept

\* The MS asks for a resynchronisation.
LEMMA EvAuthResyncInv == ASSUME TypeOK, Inv, EvAuthResync PROVE Kept
<1>1. Running("E_AUTH_RESP_RECV_RESYNC")
  BY DEF EvAuthResync
<1>2. Top = "E_AUTH_RESP_RECV_RESYNC" /\ ~Stale
  BY <1>1, Runs
<1>3. Called("state_chg", "ASK_VLR") \/ Called("E_REJECT", "-")
  BY <1>1, <1>2, Steps DEF EvAuthResync, Inv, AttachStates
<1>4. UNCHANGED <<cfg, gsup, mm, att, auth, leg, iu, sub, hlr, obs>>
  BY DEF EvAuthResync
<1>5. Calls' /\ Life' /\ Timers' /\ Connected' /\ Trusting'
  BY <1>2, <1>3, <1>4 DEF Inv, Gb, Remote
<1>6. Identified' /\ Identifying' /\ Challenging' /\ Located' /\ Integrity'
  BY <1>2, <1>3, <1>4 DEF Inv, Gb, Remote
<1>7. Asked => Asked'
  BY <1>2, <1>3, <1>4 DEF Asked, Ours, Asking, Inv, Gb, Remote
<1> QED
  BY <1>5, <1>6, <1>7 DEF Inv, Kept

\* The HLR has answered.
LEMMA EvVlrAnsweredInv == ASSUME TypeOK, Inv, EvVlrAnswered PROVE Kept
<1>1. Running("E_VLR_ANSWERED")
  BY DEF EvVlrAnswered
<1>2. Top = "E_VLR_ANSWERED" /\ ~Stale
  BY <1>1, Runs
<1>3. \/ att.st \in {"AUTH", "ASK_VLR"} /\ auth.sec /\ Called(Proceed, "-")
      \/ att.st = "ASK_VLR" /\ ~auth.sec /\ Called("state_chg", "AUTH")
      \/ ~(att.st \in {"AUTH", "ASK_VLR"} /\ auth.sec) /\ Returned
  BY <1>1, <1>2, Steps DEF EvVlrAnswered, Inv, AttachStates
<1>4. UNCHANGED <<cfg, gsup, mm, att, auth, leg, iu, sub, hlr, obs>>
  BY DEF EvVlrAnswered
<1>5. Calls' /\ Life' /\ Timers' /\ Connected' /\ Trusting'
  BY <1>2, <1>3, <1>4 DEF Inv, Gb, Remote
<1>6. Identified' /\ Identifying' /\ Challenging' /\ Located' /\ Integrity'
  BY <1>2, <1>3, <1>4 DEF Inv, Gb, Remote
<1>7. Asked => Asked'
  BY <1>2, <1>3, <1>4 DEF Asked, Ours, Asking, Inv, Gb, Remote
<1> QED
  BY <1>5, <1>6, <1>7 DEF Inv, Kept

\* The connection is protected.
LEMMA EvIuSecurityCmdCompleteInv == ASSUME TypeOK, Inv, EvIuSecurityCmdComplete PROVE Kept
<1>1. Running("E_IU_SECURITY_CMD_COMPLETE")
  BY DEF EvIuSecurityCmdComplete
<1>2. Top = "E_IU_SECURITY_CMD_COMPLETE" /\ ~Stale
  BY <1>1, Runs
<1>3. (att.st = "IU_SECURITY_CMD" /\ Called(Proceed, "-")) \/ Returned
  BY <1>1, <1>2, Steps DEF EvIuSecurityCmdComplete, Inv
<1>4. UNCHANGED <<cfg, gsup, mm, att, auth, leg, iu, sub, hlr, obs>>
  BY DEF EvIuSecurityCmdComplete
<1>5. Calls' /\ Life' /\ Timers' /\ Connected' /\ Trusting'
  BY <1>1, <1>2, <1>3, <1>4 DEF Inv, Gb, Remote
<1>6. Identified' /\ Identifying' /\ Challenging' /\ Located' /\ Integrity'
  BY <1>1, <1>2, <1>3, <1>4 DEF Inv, Gb, Remote
<1>7. Asked => Asked'
  BY <1>1, <1>2, <1>3, <1>4 DEF Asked, Ours, Asking, Inv, Gb, Remote
<1> QED
  BY <1>5, <1>6, <1>7 DEF Inv, Kept

\* The attach is complete.
LEMMA EvAttachCompleteInv == ASSUME TypeOK, Inv, EvAttachComplete PROVE Kept
<1>1. Running("E_ATTACH_COMPLETE_RECV") /\ att \in AttType
  BY DEF EvAttachComplete, TypeOK
<1>2. Top = "E_ATTACH_COMPLETE_RECV" /\ ~Stale
  BY <1>1, Runs
<1>3. Returned
  BY <1>1, <1>2, Steps DEF EvAttachComplete, Inv
<1>4. /\ \/ att.st = "ACCEPT" /\ att'.st = "INIT" /\ att'.timer = FALSE
         \/ att.st # "ACCEPT" /\ UNCHANGED att
      /\ UNCHANGED <<cfg, gsup, mm, auth, leg, iu, sub, hlr, obs>>
  BY <1>1 DEF EvAttachComplete, NewAtt
<1>5. Inv'
  BY <1>2, <1>3, <1>4 DEF Inv, Gb, Remote
<1>6. Asked => Asked'
  BY <1>2, <1>3, <1>4 DEF Asked, Ours, Asking, Inv, Gb, Remote
<1> QED
  BY <1>5, <1>6 DEF Kept

\* The attach FSM preserves the invariant.
LEMMA AttachFsmInv == ASSUME TypeOK, Inv, AttachFsmStep PROVE Kept
  BY StateChgInv, StInitInv, IdentityOnEnterInv, AuthOnEnterInv, AskVlrOnEnterInv,
     IuSecurityCmdOnEnterInv, AcceptOnEnterInv, ProceedInv, EvAttachReqInv, EvRejectInv,
     EvIdenRespInv, EvAuthSuccessInv, EvAuthResyncInv, EvVlrAnsweredInv,
     EvIuSecurityCmdCompleteInv, EvAttachCompleteInv, Zenon DEF AttachFsmStep
\* The fields of the subscriber record that the invariant names stay.
SameSub(b) == b.ex = sub.ex /\ b.mm = sub.mm /\ b.aip = sub.aip /\ b.ulp = sub.ulp /\ b.authz = sub.authz

\* sgsn_auth_request asks the HLR for vectors, for the location, or for nothing.
LEMMA AuthRequestInv == ASSUME TypeOK, Inv, AuthRequest PROVE Kept
<1>1. Running("sgsn_auth_request") /\ auth \in AuthType /\ sub \in SubType
  BY DEF AuthRequest, TypeOK
<1>2. Top = "sgsn_auth_request" /\ ~Stale /\ UNCHANGED <<cfg, mm, att, leg, iu, gsup, obs>>
  BY <1>1, Runs DEF AuthRequest
<1>3. LinkedSub \in SubType /\ LinkedSub = [sub EXCEPT !.ex = TRUE, !.mm = TRUE]
  BY <1>1, SubSet, Values DEF LinkedSub
<1>4. /\ LinkedSub.ex = TRUE /\ LinkedSub.mm = TRUE /\ LinkedSub.aip = sub.aip
      /\ LinkedSub.ulp = sub.ulp /\ LinkedSub.authz = sub.authz
  BY <1>1 DEF LinkedSub, SubType
<1>5. CASE ~Remote \/ (sub.err /\ ~sub.authz)
  <2>1. Called("sgsn_auth_update", "-") /\ UNCHANGED auth
    BY <1>1, <1>5, Steps DEF AuthRequest, Inv
  <2>2. /\ sub' = sub \/ (sub'.ex = TRUE /\ sub'.mm = TRUE)
        /\ sub'.aip = sub.aip /\ sub'.ulp = sub.ulp /\ sub'.authz = sub.authz
    BY <1>4, <1>5 DEF AuthRequest
  <2>3. Inv'
    BY <1>2, <2>1, <2>2 DEF Inv, Gb, Remote
  <2>4. Asked => Asked'
    BY <1>2, <1>5, <2>1, <2>2 DEF Asked, Ours, Asking, Inv, Gb, Remote
  <2> QED
    BY <2>3, <2>4 DEF Kept
<1>6. CASE Remote /\ ~(sub.err /\ ~sub.authz) /\ MustFetchVectors
  <2>1. Returned
    BY <1>1, <1>2, <1>6, Steps DEF AuthRequest, Inv
  <2>2. /\ auth'.sec = FALSE /\ auth'.key = FALSE
        /\ auth'.state = auth.state /\ auth'.chal = "none"
    BY <1>1, <1>6 DEF AuthRequest, NoVector, AuthType
  <2>3. sub'.ex = TRUE /\ sub'.mm = TRUE /\ sub'.ulp = sub.ulp /\ sub'.authz = sub.authz
    <3> DEFINE b == IF FreshAttach THEN ResetAuthTriplets(LinkedSub) ELSE LinkedSub
    <3>1. PICK ok \in Sends : sub' = [b EXCEPT !.aip = ok]
      BY <1>6 DEF AuthRequest
    <3>2. /\ b \in SubType /\ b.ex = TRUE /\ b.mm = TRUE
          /\ b.ulp = sub.ulp /\ b.authz = sub.authz
      <4> HIDE DEF LinkedSub
      <4>1. \A x \in SubType : LET y == ResetAuthTriplets(x) IN
              y \in SubType /\ y.ex = x.ex /\ y.mm = x.mm /\ y.ulp = x.ulp /\ y.authz = x.authz
        BY DEF ResetAuthTriplets, SubType
      <4> QED
        BY <1>3, <1>4, <4>1
    <3> HIDE DEF b
    <3> QED
      BY <3>1, <3>2 DEF SubType
  <2>4. RequireAuth /\ ~auth.sec
    BY <1>6 DEF MustFetchVectors
  <2>5. Inv'
    BY <1>2, <2>1, <2>2, <2>3, <2>4 DEF Inv, Gb, Remote
  <2>6. Asked => Asked'
    BY <1>2, <2>1, <2>2, <2>3, <2>4 DEF Asked, Ours, Asking, Inv, Gb, Remote
  <2> QED
    BY <2>5, <2>6 DEF Kept
<1>7. CASE Remote /\ ~(sub.err /\ ~sub.authz) /\ ~MustFetchVectors
  <2> DEFINE take == cfg.require_auth /\ ~auth.sec
             b == [LinkedSub EXCEPT !.vec = IF take THEN @ - 1 ELSE @]
  <2>1. Returned \/ Called("sgsn_auth_update", "-")
    BY <1>1, <1>2, <1>7, Steps DEF AuthRequest, Inv
  <2>2. /\ auth'.sec = auth.sec /\ auth'.state = auth.state
        /\ \/ UNCHANGED auth
           \/ take /\ auth'.key = TRUE /\ auth'.chal # "current"
    BY <1>1, <1>7 DEF AuthRequest, TakeTuple, AuthType
  <2>3. sub'.ex = TRUE /\ sub'.mm = TRUE /\ sub'.aip = sub.aip /\ sub'.authz = sub.authz
    <3>1. /\ b.ex = TRUE /\ b.mm = TRUE /\ b.aip = sub.aip /\ b.authz = sub.authz
          /\ [b EXCEPT !.ulp = TRUE].ex = TRUE /\ [b EXCEPT !.ulp = TRUE].mm = TRUE
          /\ [b EXCEPT !.ulp = TRUE].aip = sub.aip /\ [b EXCEPT !.ulp = TRUE].authz = sub.authz
      BY <1>3, <1>4 DEF SubType
    <3>2. sub' = b \/ sub' = [b EXCEPT !.ulp = TRUE]
      BY <1>7 DEF AuthRequest
    <3> QED
      BY <3>1, <3>2
  <2>4. take => RequireAuth /\ ~auth.sec
    BY <1>7
  <2>5. (sub.ulp => sub'.ulp) /\ (cfg.require_ul /\ leg.preq = "ATTACH" => sub'.ulp)
    <3>1. b.ulp = sub.ulp /\ [b EXCEPT !.ulp = TRUE].ulp = TRUE
      BY <1>3, <1>4 DEF SubType
    <3>2. sub' = IF NeedUpdateLocation /\ ~sub.ulp THEN [b EXCEPT !.ulp = TRUE] ELSE b
      BY <1>7 DEF AuthRequest
    <3> QED
      BY <3>1, <3>2 DEF NeedUpdateLocation
  <2>6. Calls' /\ Life' /\ Timers' /\ Connected' /\ Trusting'
    BY <1>2, <2>1, <2>2, <2>3, <2>4 DEF Inv, Gb, Remote
  <2>7. Identified' /\ Identifying' /\ Challenging' /\ Located' /\ Integrity'
    BY <1>2, <2>1, <2>2, <2>3, <2>4 DEF Inv, Gb, Remote
  <2>8. Asked => Asked'
    BY <1>2, <2>1, <2>2, <2>3, <2>4, <2>5 DEF Asked, Ours, Asking, Inv, Gb, Remote
  <2> QED
    BY <2>6, <2>7, <2>8 DEF Inv, Kept
<1> QED
  BY <1>5, <1>6, <1>7

\* The end of sgsn_auth_update: only a change of the state calls anything.
LEMMA SetAuthStateMoves ==
  ASSUME TypeOK, Inv, Running("sgsn_auth_update"),
         NEW a \in AuthType, NEW b \in SubType, NEW s \in AuthStates, SetAuthState(a, b, s)
  PROVE  /\ auth'.state = s /\ auth'.sec = a.sec /\ auth'.key = a.key /\ auth'.chal = a.chal
         /\ sub'.ex = b.ex /\ sub'.mm = b.mm /\ sub'.aip = b.aip /\ sub'.ulp = b.ulp /\ sub'.authz = b.authz
         /\ \/ Returned /\ (s = auth.state \/ s \in {"UNKNOWN", "UMTS_RESYNC"})
            \/ Called("gsm0408_gprs_authenticate", "-") /\ s = "AUTHENTICATE"
            \/ Called("gsm0408_gprs_access_granted", "-") /\ s = "ACCEPTED" /\ s # auth.state
            \/ s = "REJECTED" /\ (\/ Called("gsm0408_gprs_access_cancelled", "-")
                                  \/ Called("gsm0408_gprs_access_denied", "-"))
<1>1. auth'.state = s /\ auth'.sec = a.sec /\ auth'.key = a.key /\ auth'.chal = a.chal
  BY DEF SetAuthState, AuthType
<1>2. sub'.ex = b.ex /\ sub'.mm = b.mm /\ sub'.aip = b.aip /\ sub'.ulp = b.ulp /\ sub'.authz = b.authz
  BY DEF SetAuthState, SubType
<1>3. ~Stale
  BY Runs
<1>4. CASE s = auth.state
  BY <1>1, <1>2, <1>3, <1>4, Steps DEF SetAuthState, Inv
<1>5. CASE s # auth.state /\ s = "AUTHENTICATE"
  <2>1. Do(<<Call("gsm0408_gprs_authenticate")>>)
    BY <1>5 DEF SetAuthState
  <2> QED
    BY <1>1, <1>2, <1>5, <2>1, Steps DEF Inv
<1>6. CASE s # auth.state /\ s = "ACCEPTED"
  <2>1. Do(<<Call("gsm0408_gprs_access_granted")>>)
    BY <1>6 DEF SetAuthState
  <2> QED
    BY <1>1, <1>2, <1>6, <2>1, Steps DEF Inv
<1>7. CASE s # auth.state /\ s = "REJECTED"
  <2>1. Do(<<Call(IF sub.canc THEN "gsm0408_gprs_access_cancelled" ELSE "gsm0408_gprs_access_denied")>>)
    BY <1>7 DEF SetAuthState
  <2>2. CASE sub.canc
    BY <1>1, <1>2, <1>7, <2>1, <2>2, Steps DEF Inv
  <2>3. CASE ~sub.canc
    BY <1>1, <1>2, <1>7, <2>1, <2>3, Steps DEF Inv
  <2> QED
    BY <2>2, <2>3
<1>8. CASE s # auth.state /\ s \in {"UNKNOWN", "UMTS_RESYNC"}
  <2>1. Return
    BY <1>8 DEF SetAuthState
  <2> QED
    BY <1>1, <1>2, <1>3, <1>8, <2>1, Steps DEF Inv
<1> QED
  BY <1>4, <1>5, <1>6, <1>7, <1>8 DEF AuthStates

\* What the subscriber record may say of the state.
LEMMA UpdatedStates ==
  ASSUME TypeOK, Inv
  PROVE  /\ UpdatedAuthState \in AuthStates
         /\ UpdatedAuthState \in {"UNKNOWN", "UMTS_RESYNC"} => UpdatedAuthState = auth.state \/ ~Remote
         /\ ~RequireAuth => UpdatedAuthState # "AUTHENTICATE"
         /\ Remote /\ UpdatedAuthState = "ACCEPTED"
              => \/ auth.state = "ACCEPTED" /\ (~sub.mm \/ sub.aip \/ sub.ulp)
                 \/ /\ sub.mm /\ sub.authz /\ ~sub.aip /\ ~sub.ulp
                    /\ RequireAuth => auth.sec
<1>1. auth.state \in AuthStates
  BY Fields
<1>2. ~RequireAuth => auth.state # "AUTHENTICATE"
  BY DEF Inv
<1> QED
  BY <1>1, <1>2 DEF UpdatedAuthState, SgsnAuthState, RemoteAuthState, LocalAuthState, Pending, AuthStates

\* sgsn_auth_update acts on what the subscriber record says.
LEMMA AuthUpdateInv == ASSUME TypeOK, Inv, AuthUpdate PROVE Kept
<1>1. Running("sgsn_auth_update") /\ auth \in AuthType /\ sub \in SubType
  BY DEF AuthUpdate, TypeOK
<1>2. Top = "sgsn_auth_update" /\ ~Stale /\ UNCHANGED <<cfg, mm, att, leg, iu, gsup, obs>>
  BY <1>1, Runs DEF AuthUpdate
<1>3. CASE ~NeedsTuple
  <2>1. SetAuthState(auth, sub, UpdatedAuthState)
    BY <1>3 DEF AuthUpdate
  <2> DEFINE s == UpdatedAuthState
  <2>2. s \in AuthStates
    BY UpdatedStates
  <2>3. /\ auth'.state = s /\ auth'.sec = auth.sec /\ auth'.key = auth.key /\ auth'.chal = auth.chal
        /\ sub'.ex = sub.ex /\ sub'.mm = sub.mm /\ sub'.aip = sub.aip /\ sub'.ulp = sub.ulp /\ sub'.authz = sub.authz
        /\ \/ Returned /\ (s = auth.state \/ s \in {"UNKNOWN", "UMTS_RESYNC"})
           \/ Called("gsm0408_gprs_authenticate", "-") /\ s = "AUTHENTICATE"
           \/ Called("gsm0408_gprs_access_granted", "-") /\ s = "ACCEPTED" /\ s # auth.state
           \/ s = "REJECTED" /\ (\/ Called("gsm0408_gprs_access_cancelled", "-")
                                 \/ Called("gsm0408_gprs_access_denied", "-"))
    BY <1>1, <2>1, <2>2, SetAuthStateMoves
  <2>4. /\ s \in {"UNKNOWN", "UMTS_RESYNC"} => s = auth.state \/ ~Remote
        /\ ~RequireAuth => s # "AUTHENTICATE"
        /\ Remote /\ s = "ACCEPTED"
              => \/ auth.state = "ACCEPTED" /\ (~sub.mm \/ sub.aip \/ sub.ulp)
                 \/ /\ sub.mm /\ sub.authz /\ ~sub.aip /\ ~sub.ulp
                    /\ RequireAuth => auth.sec
    BY UpdatedStates
  <2> HIDE DEF s
  <2>5. Calls' /\ Life' /\ Timers' /\ Connected' /\ Trusting'
    BY <1>2, <2>3, <2>4, ZenonT(30) DEF Inv, Gb, Remote
  <2>6. Identified' /\ Identifying' /\ Challenging' /\ Located' /\ Integrity'
    BY <1>2, <2>3, <2>4 DEF Inv, Gb, Remote
  <2>7. Asked => Asked'
    BY <1>2, <2>3, <2>4 DEF Asked, Ours, Asking, Inv, Gb, Remote
  <2> QED
    BY <2>5, <2>6, <2>7 DEF Inv, Kept
<1>4. CASE NeedsTuple
  <2>1. RequireAuth /\ ~auth.key
    BY <1>4, UpdatedStates DEF NeedsTuple
  <2>2. att.st # "AUTH"
    BY <1>2, <2>1 DEF Inv
  <2>3. CASE sub.mm /\ sub.vec > 0
    <3>1. /\ TakeTuple \in AuthType /\ TakeTuple.key = TRUE /\ TakeTuple.sec = auth.sec
          /\ TakeTuple.chal # "current"
      BY <1>1 DEF TakeTuple, AuthType, Challenges
    <3> DEFINE b == [sub EXCEPT !.vec = @ - 1]
    <3>2. b \in SubType /\ SameSub(b)
      <4>1. sub.vec \in Nat /\ sub.vec - 1 \in Nat
        BY <1>1, <2>3 DEF SubType
      <4>2. b = [sub EXCEPT !.vec = sub.vec - 1]
        BY <1>1 DEF SubType
      <4> QED
        BY <1>1, <4>1, <4>2 DEF SubType, SameSub
    <3>3. SetAuthState(TakeTuple, b, "AUTHENTICATE")
      BY <1>4, <2>3 DEF AuthUpdate
    <3> HIDE DEF b
    <3>4. /\ auth'.state = "AUTHENTICATE" /\ auth'.sec = auth.sec /\ auth'.chal # "current"
          /\ SameSub(sub')
          /\ Returned \/ Called("gsm0408_gprs_authenticate", "-")
      BY <1>1, <3>1, <3>2, <3>3, SetAuthStateMoves DEF AuthStates, SameSub
    <3>5. Inv'
      BY <1>2, <2>1, <2>2, <3>4, ZenonT(30) DEF Inv, Gb, Remote, SameSub
    <3>6. Asked => Asked'
      BY <1>2, <2>1, <2>2, <3>4 DEF Asked, Ours, Asking, Inv, Gb, Remote, SameSub
    <3> QED
      BY <3>5, <3>6 DEF Kept
  <2>4. CASE ~(sub.mm /\ sub.vec > 0)
    <3> DEFINE asked == [auth EXCEPT !.sec = FALSE]
    <3>1. /\ asked \in AuthType /\ asked.sec = FALSE /\ asked.key = auth.key /\ asked.chal = auth.chal
          /\ asked.state = auth.state
      BY <1>1 DEF AuthType
    <3>2. \/ SetAuthState(auth, sub, "REJECTED")
          \/ SetAuthState(asked, sub, "REJECTED")
          \/ Return /\ auth' = asked /\ sub' = [sub EXCEPT !.aip = TRUE]
      BY <1>4, <2>4 DEF AuthUpdate
    <3> HIDE DEF asked
    <3>3. ASSUME NEW a \in AuthType, SetAuthState(a, sub, "REJECTED"), a.sec => auth.sec,
                 a.key = auth.key, a.chal = auth.chal
          PROVE  Kept
      <4>1. /\ auth'.state = "REJECTED" /\ (auth'.sec => auth.sec) /\ auth'.key = auth.key
            /\ auth'.chal = auth.chal /\ SameSub(sub')
            /\ \/ Returned \/ Called("gsm0408_gprs_access_cancelled", "-")
               \/ Called("gsm0408_gprs_access_denied", "-")
        BY <1>1, <3>3, SetAuthStateMoves DEF AuthStates, SameSub
      <4>2. Calls' /\ Life' /\ Timers' /\ Connected' /\ Trusting'
        BY <1>2, <2>1, <2>2, <4>1 DEF Inv, Gb, Remote, SameSub
      <4>3. Identified' /\ Identifying' /\ Challenging' /\ Located' /\ Integrity'
        BY <1>2, <2>1, <2>2, <4>1 DEF Inv, Gb, Remote, SameSub
      <4>4. Asked => Asked'
        BY <1>2, <2>1, <2>2, <4>1 DEF Asked, Ours, Asking, Inv, Gb, Remote, SameSub
      <4> QED
        BY <4>2, <4>3, <4>4 DEF Inv, Kept
    <3>4. ASSUME Return, auth' = asked, sub' = [sub EXCEPT !.aip = TRUE] PROVE Kept
      <4>1. /\ sub'.ex = sub.ex /\ sub'.mm = sub.mm /\ sub'.ulp = sub.ulp /\ sub'.authz = sub.authz
            /\ Returned
        BY <1>1, <1>2, <3>4, Steps DEF SubType, Inv
      <4>2. Inv'
        BY <1>2, <2>1, <2>2, <3>1, <3>4, <4>1 DEF Inv, Gb, Remote
      <4>3. Asked => Asked'
        BY <1>2, <2>1, <2>2, <3>1, <3>4, <4>1 DEF Asked, Ours, Asking, Inv, Gb, Remote
      <4> QED
        BY <4>2, <4>3 DEF Kept
    <3> QED
      BY <1>1, <3>1, <3>2, <3>3, <3>4
  <2> QED
    BY <2>3, <2>4
<1> QED
  BY <1>3, <1>4
\* gsm0408_gprs_authenticate tells the attach FSM, or authorises on its own.
LEMMA GprsAuthenticateInv == ASSUME TypeOK, Inv, GprsAuthenticate PROVE Kept
<1>1. Running("gsm0408_gprs_authenticate") /\ auth \in AuthType
  BY DEF GprsAuthenticate, TypeOK
<1>2. Top = "gsm0408_gprs_authenticate" /\ ~Stale
  BY <1>1, Runs
<1>3. \/ att.st # "INIT" /\ Called("E_VLR_ANSWERED", "-")
      \/ att.st = "INIT" /\ Called("gsm48_gmm_authorize", "-")
  <2>1. CASE att.st # "INIT"
    BY <1>1, <2>1, Steps DEF GprsAuthenticate, Inv
  <2>2. CASE att.st = "INIT"
    BY <1>1, <2>2, Steps DEF GprsAuthenticate, Inv
  <2> QED
    BY <2>1, <2>2
<1>4. /\ auth'.sec = FALSE /\ auth'.state = auth.state /\ auth'.key = auth.key /\ auth'.chal = auth.chal
      /\ UNCHANGED <<cfg, mm, att, leg, iu, sub, hlr, gsup, obs>>
  BY <1>1 DEF GprsAuthenticate, AuthType
<1>5. Calls' /\ Life' /\ Timers' /\ Connected' /\ Trusting'
  BY <1>2, <1>3, <1>4 DEF Inv, Gb, Remote
<1>6. Identified' /\ Identifying' /\ Challenging' /\ Located' /\ Integrity'
  BY <1>2, <1>3, <1>4 DEF Inv, Gb, Remote
<1>7. Asked => Asked'
  BY <1>2, <1>3, <1>4 DEF Asked, Ours, Asking, Inv, Gb, Remote
<1> QED
  BY <1>5, <1>6, <1>7 DEF Inv, Kept

\* gsm0408_gprs_access_granted tells the attach FSM of an attach in progress.
LEMMA AccessGrantedInv == ASSUME TypeOK, Inv, AccessGranted PROVE Kept
<1>1. Running("gsm0408_gprs_access_granted")
  BY DEF AccessGranted
<1>2. Top = "gsm0408_gprs_access_granted" /\ ~Stale
  BY <1>1, Runs
<1>3. (att.st # "INIT" /\ Called("E_VLR_ANSWERED", "-")) \/ Returned
  BY <1>1, <1>2, Steps DEF AccessGranted, Inv
<1>4. UNCHANGED <<cfg, mm, att, auth, leg, iu, sub, hlr, gsup, obs>>
  BY DEF AccessGranted
<1>5. Calls' /\ Life' /\ Timers' /\ Connected' /\ Trusting'
  BY <1>2, <1>3, <1>4 DEF Inv, Gb, Remote
<1>6. Identified' /\ Identifying' /\ Challenging' /\ Located' /\ Integrity'
  BY <1>2, <1>3, <1>4 DEF Inv, Gb, Remote
<1>7. Asked => Asked'
  BY <1>2, <1>3, <1>4 DEF Asked, Ours, Asking, Inv, Gb, Remote
<1> QED
  BY <1>5, <1>6, <1>7 DEF Inv, Kept

\* gsm0408_gprs_access_denied ends the attach or the context.
LEMMA AccessDeniedInv == ASSUME TypeOK, Inv, AccessDenied PROVE Kept
<1>1. Running("gsm0408_gprs_access_denied")
  BY DEF AccessDenied
<1>2. Top = "gsm0408_gprs_access_denied" /\ ~Stale
  BY <1>1, Runs
<1>3. \/ Called(Free, "-") \/ Called("E_REJECT", "-")
      \/ att.st = "INIT" /\ Returned
  BY <1>1, <1>2, Steps DEF AccessDenied, Inv
<1>4. UNCHANGED <<cfg, mm, att, auth, leg, iu, sub, hlr, gsup, obs>>
  BY DEF AccessDenied
<1>5. Calls' /\ Life' /\ Timers' /\ Connected' /\ Trusting'
  BY <1>2, <1>3, <1>4 DEF Inv, Gb, Remote
<1>6. Identified' /\ Identifying' /\ Challenging' /\ Located' /\ Integrity'
  BY <1>2, <1>3, <1>4 DEF Inv, Gb, Remote
<1>7. Asked => Asked'
  BY <1>2, <1>3, <1>4 DEF Asked, Ours, Asking, Inv, Gb, Remote
<1> QED
  BY <1>5, <1>6, <1>7 DEF Inv, Kept

\* gsm0408_gprs_access_cancelled, with a cause and without one.
LEMMA AccessCancelledInv == ASSUME TypeOK, Inv, AccessCancelled PROVE Kept
<1>1. Running("gsm0408_gprs_access_cancelled")
  BY DEF AccessCancelled
<1>2. Top = "gsm0408_gprs_access_cancelled" /\ ~Stale
  BY <1>1, Runs
<1>3. Called("gsm0408_gprs_access_denied", "-") \/ Called(Free, "-")
  <2>1. CASE sub.err
    BY <1>1, <2>1, Steps DEF AccessCancelled, Inv
  <2>2. CASE ~sub.err
    BY <1>1, <2>2, Steps DEF AccessCancelled, Inv
  <2> QED
    BY <2>1, <2>2
<1>4. UNCHANGED <<cfg, mm, att, auth, leg, iu, sub, hlr, gsup, obs>>
  BY DEF AccessCancelled
<1>5. Calls' /\ Life' /\ Timers' /\ Connected' /\ Trusting'
  BY <1>2, <1>3, <1>4 DEF Inv, Gb, Remote
<1>6. Identified' /\ Identifying' /\ Challenging' /\ Located' /\ Integrity'
  BY <1>2, <1>3, <1>4 DEF Inv, Gb, Remote
<1>7. Asked => Asked'
  BY <1>2, <1>3, <1>4 DEF Asked, Ours, Asking, Inv, Gb, Remote
<1> QED
  BY <1>5, <1>6, <1>7 DEF Inv, Kept

\* mmctx_timer_start starts a timer only when no attach is in progress.
LEMMA TimerStartFields ==
  \A l \in LegType, t \in LegTimers :
    /\ TimerStart(l, t) \in LegType
    /\ att.st # "INIT" => TimerStart(l, t) = l
  BY Values, LegSet, Zenon DEF TimerStart, AttachFsmOwnsTimer

\* gsm48_gmm_authorize asks for an identity, for an authentication, for
\* integrity protection, or answers the request that is pending.
LEMMA GmmAuthorizeInv == ASSUME TypeOK, Inv, GmmAuthorize PROVE Kept
<1>1. /\ Running("gsm48_gmm_authorize") /\ auth \in AuthType /\ leg \in LegType /\ iu \in IuType
      /\ mm \in MmType /\ obs \in ObsType
  BY DEF GmmAuthorize, TypeOK
<1>2. Top = "gsm48_gmm_authorize" /\ ~Stale /\ UNCHANGED <<cfg, att, sub, hlr, gsup>>
  BY <1>1, Runs DEF GmmAuthorize
<1>3. \/ Returned
      \/ Called("sgsn_auth_request", "-") /\ (auth.state = "UNKNOWN" \/ (auth.state = "AUTHENTICATE" /\ auth.sec))
  BY <1>1, <1>2, Steps DEF GmmAuthorize, Inv
<1>4. mm'.alive = mm.alive /\ mm'.imsi = mm.imsi /\ mm'.imei = mm.imei
  BY <1>1 DEF GmmAuthorize, MmType
<1>5. /\ auth'.state = auth.state /\ auth'.sec = auth.sec /\ auth'.key = auth.key
      /\ auth'.chal = auth.chal \/ (auth.state = "AUTHENTICATE" /\ mm.imei /\ mm.imsi)
  BY <1>1 DEF GmmAuthorize, AuthType
<1>6. iu'.ue = iu.ue /\ iu'.integ = iu.integ
  BY <1>1 DEF GmmAuthorize, IuType
<1>7. ~obs'.null /\ obs'.aka = obs.aka /\ obs'.loc = obs.loc
  <2>1. ~obs.null /\ (auth.state = "ACCEPTED" /\ ~Gb => iu.ue)
    BY <1>2 DEF Inv
  <2> QED
    BY <1>1, <2>1, Zenon DEF GmmAuthorize, ObsType
<1>8. att.st # "INIT" => leg'.T = leg.T
  <2> SUFFICES ASSUME att.st # "INIT" PROVE leg'.T = leg.T
    OBVIOUS
  <2>1. \A t \in LegTimers : TimerStart(leg, t) = leg
    BY <1>1, TimerStartFields
  <2>2. TimerStart(leg, "T3370") = leg /\ TimerStart(leg, "T3360") = leg
    BY <2>1, Values
  <2> QED
    BY <1>1, <2>2 DEF GmmAuthorize, LegType
<1>9. mm.imei /\ mm.imsi => leg'.id = "NONE"
  <2>1. \A l \in LegType : /\ [l EXCEPT !.id = "NONE"].id = "NONE"
                           /\ [l EXCEPT !.id = "NONE", !.preq = "none"].id = "NONE"
    BY DEF LegType
  <2>2. \A t \in LegTimers : TimerStart(leg, t) \in LegType
    BY <1>1, TimerStartFields
  <2> QED
    BY <1>1, <2>1, <2>2, Values DEF GmmAuthorize
<1>10. leg'.preq = leg.preq \/ leg'.preq = "none"
  <2>1. \A t \in LegTimers : TimerStart(leg, t) \in LegType /\ TimerStart(leg, t).preq = leg.preq
    BY <1>1, TimerStartFields DEF TimerStart, LegType
  <2> DEFINE a == TimerStart(leg, "T3370")
             b == TimerStart(leg, "T3360")
             c == TimerStart(leg, "T3350")
  <2>2. /\ a \in LegType /\ b \in LegType /\ c \in LegType
        /\ a.preq = leg.preq /\ b.preq = leg.preq /\ c.preq = leg.preq
    BY <2>1, Values
  <2>3. \/ leg' = [a EXCEPT !.id = IF mm.imei THEN "IMSI" ELSE "IMEI"]
        \/ leg' = [b EXCEPT !.id = "NONE"] \/ leg' = [leg EXCEPT !.id = "NONE"]
        \/ leg' = [c EXCEPT !.id = "NONE", !.preq = "none"]
        \/ leg' = [leg EXCEPT !.id = "NONE", !.preq = "none"]
    BY DEF GmmAuthorize
  <2> HIDE DEF a, b, c
  <2> QED
    BY <1>1, <2>2, <2>3 DEF LegType
<1>11. Calls' /\ Life' /\ Timers' /\ Connected' /\ Trusting'
  BY <1>2, <1>3, <1>4, <1>5, <1>6, <1>7, <1>8 DEF Inv, Gb, Remote
<1>12. Identified' /\ Identifying' /\ Challenging' /\ Located' /\ Integrity'
  BY <1>2, <1>3, <1>4, <1>5, <1>6, <1>9 DEF Inv, Gb, Remote
<1>13. Asked => Asked'
  BY <1>2, <1>3, <1>4, <1>5, <1>6, <1>7, <1>8, <1>9, <1>10 DEF Asked, Ours, Asking, Inv, Gb, Remote
<1> QED
  BY <1>11, <1>12, <1>13 DEF Inv, Kept

\* The authorisation layer preserves the invariant.
LEMMA AuthInv == ASSUME TypeOK, Inv, AuthStep PROVE Kept
  BY AuthRequestInv, AuthUpdateInv, GprsAuthenticateInv, AccessGrantedInv, AccessDeniedInv,
     AccessCancelledInv, GmmAuthorizeInv, Zenon DEF AuthStep
\* A handler that has ended, and one that has not moved.
LEMMA Stays ==
  /\ stack' = <<>> => Top' = "none" /\ Callers' = {}
  /\ UNCHANGED stack => Top' = Top /\ Arg' = Arg /\ Callers' = Callers
<1>1. ASSUME stack' = <<>> PROVE Top' = "none" /\ Callers' = {}
  BY <1>1 DEF Top, Callers
<1>2. ASSUME UNCHANGED stack PROVE Top' = Top /\ Arg' = Arg /\ Callers' = Callers
  BY <1>2 DEF Top, Arg, Callers
<1> QED
  BY <1>1, <1>2

\* gprs_gmm_mm_ctx_cleanup_free: the context is gone, and the subscriber
\* with it unless a GSUP handler holds it.
LEMMA CleanupFreeInv == ASSUME TypeOK, Inv, CleanupFree PROVE Kept
<1>1. sub \in SubType /\ obs \in ObsType
  BY DEF TypeOK
<1>2. Top' = "none" /\ Callers' = {}
  BY Stays DEF CleanupFree
<1>3. /\ mm'.alive = FALSE /\ att'.st = "INIT" /\ att'.timer = FALSE /\ leg'.T = "off" /\ leg'.id = "NONE" /\ leg'.preq = "none"
      /\ auth'.state = "UNKNOWN" /\ auth'.sec = FALSE /\ auth'.key = FALSE /\ auth'.chal = "none"
  BY DEF CleanupFree, NoMm, NewAtt, NewAuth, NewLeg
<1>4. obs'.null = obs.null /\ obs'.aka = FALSE /\ UNCHANGED <<cfg, gsup>>
  BY <1>1 DEF CleanupFree, ObsType
<1>5. \/ sub.mm /\ gsup = "idle" /\ ~sub'.ex /\ ~sub'.mm /\ ~sub'.aip
      \/ sub.mm /\ gsup # "idle" /\ sub'.ex = sub.ex /\ ~sub'.mm /\ sub'.aip = sub.aip /\ sub'.authz = sub.authz
      \/ ~sub.mm /\ UNCHANGED sub
  BY <1>1 DEF CleanupFree, Unlinked, NoSub, SubType
<1>6. Inv'
  BY <1>2, <1>3, <1>4, <1>5 DEF Inv, Gb, Remote
<1>7. Asked => Asked'
  BY <1>2, <1>3, <1>4, <1>5 DEF Asked, Ours, Asking, Inv, Gb, Remote
<1> QED
  BY <1>6, <1>7 DEF Kept

\* The connection is lost with the RNC.
LEMMA RncLossReleaseInv == ASSUME TypeOK, Inv, RncLossRelease PROVE Kept
<1>1. Running("rnc_loss_release") /\ mm \in MmType
  BY DEF RncLossRelease, TypeOK
<1>2. Top = "rnc_loss_release" /\ ~Stale
  BY <1>1, Runs
<1>3. Returned
  BY <1>1, <1>2, Steps DEF RncLossRelease, Inv
<1>4. /\ mm'.alive = mm.alive /\ mm'.imsi = mm.imsi /\ mm'.imei = mm.imei
      /\ UNCHANGED <<cfg, att, auth, leg, sub, hlr, gsup, obs>>
  BY <1>1 DEF RncLossRelease, MmType
<1>5. Inv'
  BY <1>2, <1>3, <1>4 DEF Inv, Gb, Remote
<1>6. Asked => Asked'
  BY <1>2, <1>3, <1>4 DEF Asked, Ours, Asking, Inv, Gb, Remote
<1> QED
  BY <1>5, <1>6 DEF Kept

\* gprs_subscr_cleanup takes away a record that is no longer authorised.
LEMMA SubscrCleanupInv == ASSUME TypeOK, Inv, SubscrCleanup PROVE Kept
<1>1. sub \in SubType /\ stack = <<>> /\ gsup = "cancel"
  BY DEF SubscrCleanup, TypeOK
<1>2. Top = "none" /\ Callers = {} /\ Top' = "none" /\ Callers' = {}
  BY <1>1, Stays, Starts DEF SubscrCleanup
<1>3. /\ sub'.ex = sub.ex /\ sub'.mm = FALSE /\ sub'.aip = sub.aip /\ sub'.ulp = sub.ulp /\ sub'.authz = sub.authz
      /\ gsup' = "put" /\ UNCHANGED <<cfg, mm, att, auth, leg, iu, hlr, obs>>
  BY <1>1 DEF SubscrCleanup, SubType
<1>4. Inv'
  BY <1>1, <1>2, <1>3 DEF Inv, Gb, Remote
<1>5. Asked => Asked'
  BY <1>1, <1>2, <1>3 DEF Asked, Ours, Asking, Inv, Gb, Remote
<1> QED
  BY <1>4, <1>5 DEF Kept

\* gprs_subscr_put frees the record that no context uses.
LEMMA SubscrPutInv == ASSUME TypeOK, Inv, SubscrPut PROVE Kept
<1>1. sub \in SubType /\ stack = <<>> /\ gsup = "put"
  BY DEF SubscrPut, TypeOK
<1>2. Top = "none" /\ Callers = {} /\ Top' = "none" /\ Callers' = {}
  BY <1>1, Stays, Starts DEF SubscrPut
<1>3. /\ \/ sub.mm /\ UNCHANGED sub
         \/ ~sub.mm /\ ~sub'.ex /\ ~sub'.mm /\ ~sub'.aip /\ ~sub'.authz
      /\ gsup' = "idle" /\ UNCHANGED <<cfg, mm, att, auth, leg, iu, hlr, obs>>
  BY <1>1 DEF SubscrPut, NoSub
<1>4. Inv'
  BY <1>1, <1>2, <1>3 DEF Inv, Gb, Remote
<1>5. Asked => Asked'
  BY <1>1, <1>2, <1>3 DEF Asked, Ours, Asking, Inv, Gb, Remote
<1> QED
  BY <1>4, <1>5 DEF Kept

\* So does the end of a handler.
LEMMA EndInv == ASSUME TypeOK, Inv, EndStep PROVE Kept
  BY CleanupFreeInv, RncLossReleaseInv, SubscrCleanupInv, SubscrPutInv, Zenon DEF EndStep
\* The invariant while the SGSN waits for an input.
LEMMA AtRest ==
  ASSUME TypeOK, Inv, Quiet
  PROVE  /\ stack = <<>> /\ gsup = "idle" /\ Top = "none" /\ Callers = {}
         /\ sub.ex = sub.mm /\ att.st # "REJECT"
         /\ auth.chal # "none" => RequireAuth
         /\ auth.key => RequireAuth
<1>1. stack = <<>> /\ gsup = "idle" /\ Top = "none" /\ Callers = {}
  BY Starts DEF Quiet
<1>2. sub.ex \in BOOLEAN /\ sub.mm \in BOOLEAN
  BY DEF TypeOK, SubType
<1> QED
  BY <1>1, <1>2 DEF Inv

\* An input that calls a function without an argument.
LEMMA Calling ==
  ASSUME stack = <<>>, NEW f \in PlainFns, stack' = <<Call(f)>>
  PROVE  Begun(f, "-")
  BY Starts, Zenon

\* What the messages do to the context.
LEMMA MmFields == \A m \in MmType :
  Heard(m).alive = m.alive /\ Heard(m).imsi = m.imsi /\ Heard(m).imei = m.imei
  BY DEF Heard, MmType

\* What a message may do to the connection.
LEMMA ConnectionFields ==
  ASSUME TypeOK, NEW c, iu' = Connection(c)
  PROVE  Gb \/ iu'.ue
  BY DEF Connection, TypeOK, IuType

\* An Attach Request, also one for a context that does not exist yet.
LEMMA RxAttachReqInv ==
  ASSUME TypeOK, Inv, NEW m \in Reqs, NEW known \in BOOLEAN, NEW newconn \in BOOLEAN,
         RxAttachReq(m, known, newconn)
  PROVE  Kept
<1>1. Quiet /\ mm \in MmType
  BY DEF RxAttachReq, Input, TypeOK
<1>2. stack = <<>> /\ Top = "none" /\ Callers = {} /\ att.st # "REJECT"
  BY <1>1, AtRest
<1>3. Begun("E_ATTACH_REQ_RECV", m)
  BY <1>2, Starts DEF RxAttachReq
<1>4. mm'.alive = TRUE /\ mm'.imsi = (IF mm.alive THEN mm.imsi ELSE known) /\ mm'.imei = mm.imei
  <2> DEFINE x == [mm EXCEPT !.alive = TRUE, !.gmm = "COMMON_PROC_INIT",
                             !.imsi = IF mm.alive THEN @ ELSE known]
  <2>1. mm' = Heard(x)
    BY DEF RxAttachReq
  <2>2. x \in MmType /\ x.alive = TRUE /\ x.imsi = (IF mm.alive THEN mm.imsi ELSE known) /\ x.imei = mm.imei
    BY <1>1 DEF MmType, GmmStates
  <2> HIDE DEF x
  <2> QED
    BY <2>1, <2>2, MmFields
<1>5. Gb \/ iu'.ue
  BY ConnectionFields DEF RxAttachReq
<1>6. UNCHANGED <<cfg, att, auth, leg, sub, hlr, gsup, obs>>
  BY DEF RxAttachReq
<1>7. Calls' /\ Life' /\ Timers' /\ Connected' /\ Trusting'
  BY <1>2, <1>3, <1>4, <1>5, <1>6 DEF Inv, Gb, Remote
<1>8. Identified' /\ Identifying' /\ Challenging' /\ Located' /\ Integrity'
  BY <1>2, <1>3, <1>4, <1>6 DEF Inv, Gb, Remote
<1>9. Asked => Asked'
  BY <1>2, <1>3, <1>4, <1>5, <1>6 DEF Asked, Ours, Asking, Inv, Gb, Remote
<1> QED
  BY <1>7, <1>8, <1>9 DEF Inv, Kept

\* Inputs that end the context.
LEMMA DropInv == ASSUME TypeOK, Inv, Quiet, mm.alive, Drop PROVE Kept
<1>1. stack = <<>> /\ Top = "none" /\ Callers = {}
  BY AtRest
<1>2. Begun(Free, "-")
  BY <1>1, Calling DEF Drop, PlainFns
<1>3. UNCHANGED <<cfg, mm, att, auth, leg, iu, sub, hlr, gsup, obs>>
  BY DEF Drop
<1>4. Inv'
  BY <1>1, <1>2, <1>3 DEF Inv, Gb, Remote
<1>5. Asked => Asked'
  BY <1>1, <1>2, <1>3 DEF Asked, Ours, Asking, Inv, Gb, Remote
<1> QED
  BY <1>4, <1>5 DEF Kept

\* An Identity Response that was asked for.
LEMMA RxIdRespInv ==
  ASSUME TypeOK, Inv, NEW type \in {"IMSI", "IMEI", "OTHER"}, RxIdResp(type)
  PROVE  Kept
<1>1. Quiet /\ mm \in MmType /\ leg \in LegType /\ mm.alive /\ leg.id # "NONE"
  BY DEF RxIdResp, Rx, Input, TypeOK
<1>2. stack = <<>> /\ Top = "none" /\ Callers = {} /\ att.st # "REJECT"
  BY <1>1, AtRest
<1>3. Begun("E_IDEN_RESP_RECV", type)
  BY <1>2, Starts DEF RxIdResp, IdTypes
<1>4. mm'.alive = mm.alive /\ (mm.imsi \/ type = "IMSI" => mm'.imsi) /\ (mm.imei => mm'.imei)
  <2> DEFINE x == [mm EXCEPT !.imsi = @ \/ type = "IMSI", !.imei = @ \/ type = "IMEI"]
  <2>1. mm' = Heard(x)
    BY DEF RxIdResp
  <2>2. x \in MmType /\ x.alive = mm.alive /\ (mm.imsi \/ type = "IMSI" => x.imsi) /\ (mm.imei => x.imei)
    <3>1. (mm.imsi \/ type = "IMSI") \in BOOLEAN /\ (mm.imei \/ type = "IMEI") \in BOOLEAN
      OBVIOUS
    <3> QED
      BY <1>1, <3>1, Zenon DEF MmType
  <2> HIDE DEF x
  <2> QED
    BY <2>1, <2>2, MmFields
<1>5. leg'.id = leg.id /\ leg'.preq = leg.preq /\ (leg'.T = leg.T \/ leg'.T = "off")
  BY <1>1 DEF RxIdResp, TimerStopAll, LegType
<1>6. UNCHANGED <<cfg, att, auth, iu, sub, hlr, gsup, obs>>
  BY DEF RxIdResp
<1>7. Calls' /\ Life' /\ Timers' /\ Connected' /\ Trusting'
  BY <1>1, <1>2, <1>3, <1>4, <1>5, <1>6 DEF Inv, Gb, Remote
<1>8. Identified' /\ Identifying' /\ Challenging' /\ Located' /\ Integrity'
  BY <1>1, <1>2, <1>3, <1>4, <1>5, <1>6 DEF Inv, Gb, Remote
<1>9. Asked => Asked'
  BY <1>1, <1>2, <1>3, <1>4, <1>5, <1>6 DEF Asked, Ours, Asking, Inv, Gb, Remote
<1> QED
  BY <1>7, <1>8, <1>9 DEF Inv, Kept

\* The answer to a challenge: right, or the end of the context.
LEMMA RxAuthCiphRespInv ==
  ASSUME TypeOK, Inv, NEW good \in BOOLEAN, RxAuthCiphResp(good)
  PROVE  Kept
<1>1. /\ Quiet /\ mm \in MmType /\ leg \in LegType /\ auth \in AuthType /\ obs \in ObsType
      /\ mm.alive /\ auth.key
  BY DEF RxAuthCiphResp, Rx, Input, TypeOK
<1>2. stack = <<>> /\ Top = "none" /\ Callers = {} /\ RequireAuth
  BY <1>1, AtRest
<1>3. \/ good /\ auth.chal = "current" /\ Begun("E_AUTH_RESP_RECV_SUCCESS", "-")
      \/ Begun(Free, "-")
  <2>1. CASE good /\ auth.chal = "current"
    BY <1>2, <2>1, Calling DEF RxAuthCiphResp, PlainFns
  <2>2. CASE ~(good /\ auth.chal = "current")
    <3>1. stack' = <<Call("gprs_gmm_mm_ctx_cleanup_free")>>
      BY <2>2 DEF RxAuthCiphResp
    <3> QED
      BY <1>2, <3>1, Calling DEF PlainFns
  <2> QED
    BY <2>1, <2>2
<1>4. mm'.alive = mm.alive /\ mm'.imsi = mm.imsi /\ mm'.imei = TRUE
  <2> DEFINE x == [mm EXCEPT !.imei = TRUE]
  <2>1. mm' = Heard(x)
    BY DEF RxAuthCiphResp
  <2>2. x \in MmType /\ x.alive = mm.alive /\ x.imsi = mm.imsi /\ x.imei = TRUE
    BY <1>1 DEF MmType
  <2> HIDE DEF x
  <2> QED
    BY <2>1, <2>2, MmFields
<1>5. leg'.id = leg.id /\ leg'.preq = leg.preq /\ leg'.T = "off"
  BY <1>1 DEF RxAuthCiphResp, TimerStopAll, LegType
<1>6. auth'.state = auth.state /\ auth'.key = auth.key /\ auth'.chal = auth.chal
  BY <1>1 DEF RxAuthCiphResp, AuthType
<1>7. auth'.sec <=> good /\ auth.chal = "current"
  BY <1>1, Zenon DEF RxAuthCiphResp, AuthType
<1>8. obs'.null = obs.null /\ obs'.loc = obs.loc /\ UNCHANGED <<cfg, att, iu, sub, hlr, gsup>>
  BY <1>1 DEF RxAuthCiphResp, ObsType
<1>9. obs'.aka <=> obs.aka \/ (good /\ auth.chal = "current")
  BY <1>1, Zenon DEF RxAuthCiphResp, ObsType
<1>10. Calls' /\ Life' /\ Timers' /\ Connected' /\ Trusting'
  BY <1>1, <1>2, <1>3, <1>4, <1>5, <1>6, <1>8 DEF Inv, Gb, Remote
<1>11. Identified' /\ Identifying' /\ Challenging' /\ Located' /\ Integrity'
  BY <1>1, <1>2, <1>3, <1>4, <1>5, <1>6, <1>7, <1>8 DEF Inv, Gb, Remote
<1>12. Asked => Asked'
  BY <1>1, <1>2, <1>3, <1>5, <1>6, <1>7, <1>8, <1>9 DEF Asked, Ours, Asking, Inv, Gb, Remote
<1> QED
  BY <1>10, <1>11, <1>12 DEF Inv, Kept
\* A response without its mandatory IEs.
LEMMA RxAuthCiphRespMalformedInv == ASSUME TypeOK, Inv, RxAuthCiphRespMalformed PROVE Kept
<1>1. Quiet /\ mm \in MmType /\ leg \in LegType
  BY DEF RxAuthCiphRespMalformed, Rx, Input, TypeOK
<1>2. Top = "none" /\ Callers = {} /\ Top' = "none" /\ Callers' = {}
  BY <1>1, AtRest, Stays DEF RxAuthCiphRespMalformed
<1>3. /\ mm'.alive = mm.alive /\ mm'.imsi = mm.imsi /\ mm'.imei = mm.imei
      /\ leg'.T = "off" /\ leg'.id = leg.id /\ leg'.preq = leg.preq /\ UNCHANGED <<cfg, att, auth, iu, sub, hlr, gsup, obs>>
  BY <1>1, MmFields DEF RxAuthCiphRespMalformed, TimerStopAll, LegType
<1>4. Inv'
  BY <1>2, <1>3 DEF Inv, Gb, Remote
<1>5. Asked => Asked'
  BY <1>2, <1>3 DEF Asked, Ours, Asking, Inv, Gb, Remote
<1> QED
  BY <1>4, <1>5 DEF Kept

\* A synchronisation failure, or another one.
LEMMA RxAuthCiphFailInv ==
  ASSUME TypeOK, Inv, NEW auts \in BOOLEAN, RxAuthCiphFail(auts)
  PROVE  Kept
<1>1. /\ Quiet /\ mm \in MmType /\ auth \in AuthType /\ sub \in SubType
      /\ mm.alive /\ (Gb \/ iu.ue)
  BY DEF RxAuthCiphFail, Rx, Input, TypeOK
<1>2. stack = <<>> /\ Top = "none" /\ Callers = {}
  BY <1>1, AtRest
<1>3. /\ mm'.alive = mm.alive /\ mm'.imsi = mm.imsi /\ mm'.imei = mm.imei
      /\ UNCHANGED <<cfg, att, leg, iu, gsup, obs>>
  BY <1>1, MmFields DEF RxAuthCiphFail
<1>4. (auts /\ Begun("E_AUTH_RESP_RECV_RESYNC", "-")) \/ Begun(Free, "-")
  <2>1. \/ auts /\ stack' = <<Call("E_AUTH_RESP_RECV_RESYNC")>>
        \/ stack' = <<Call("gprs_gmm_mm_ctx_cleanup_free")>>
    BY DEF RxAuthCiphFail
  <2> QED
    BY <1>2, <2>1, Calling DEF PlainFns
<1>5. \/ ~auts /\ UNCHANGED <<auth, sub>>
      \/ /\ auth'.key = FALSE /\ auth'.state = "UMTS_RESYNC" /\ auth'.sec = auth.sec /\ auth'.chal = "none"
         /\ sub'.ex = TRUE /\ sub'.mm = TRUE /\ sub'.ulp = sub.ulp /\ sub'.authz = sub.authz
  <2>1. CASE ~auts
    BY <2>1 DEF RxAuthCiphFail
  <2>2. CASE auts
    <3>1. PICK ok \in Sends : sub' = [LinkedSub EXCEPT !.aip = ok]
      BY <2>2 DEF RxAuthCiphFail
    <3>2. /\ auth'.key = FALSE /\ auth'.state = "UMTS_RESYNC" /\ auth'.sec = auth.sec /\ auth'.chal = "none"
      BY <1>1, <2>2 DEF RxAuthCiphFail, NoVector, AuthType
    <3> QED
      BY <1>1, <3>1, <3>2 DEF LinkedSub, SubType
  <2> QED
    BY <2>1, <2>2
<1>6. Calls' /\ Life' /\ Timers' /\ Connected' /\ Trusting'
  BY <1>1, <1>2, <1>3, <1>4, <1>5 DEF Inv, Gb, Remote
<1>7. Identified' /\ Identifying' /\ Challenging' /\ Located' /\ Integrity'
  BY <1>1, <1>2, <1>3, <1>4, <1>5 DEF Inv, Gb, Remote
<1>8. Asked => Asked'
  BY <1>1, <1>2, <1>3, <1>4, <1>5 DEF Asked, Ours, Asking, Inv, Gb, Remote
<1> QED
  BY <1>6, <1>7, <1>8 DEF Inv, Kept

\* The MS has got the P-TMSI of the attach.
LEMMA RxAttachComplInv == ASSUME TypeOK, Inv, RxAttachCompl PROVE Kept
<1>1. Quiet /\ mm \in MmType /\ leg \in LegType /\ mm.alive
  BY DEF RxAttachCompl, Rx, Input, TypeOK
<1>2. stack = <<>> /\ Top = "none" /\ Callers = {}
  BY <1>1, AtRest
<1>3. Begun("E_ATTACH_COMPLETE_RECV", "-")
  BY <1>2, Calling DEF RxAttachCompl, PlainFns
<1>4. mm'.alive = mm.alive /\ mm'.imsi = mm.imsi /\ mm'.imei = mm.imei
  <2>1. Heard(mm) \in MmType
    BY <1>1, MmOps
  <2>2. PICK g, x : mm' = [Heard(mm) EXCEPT !.gmm = g, !.st = x]
    BY DEF RxAttachCompl
  <2> QED
    BY <1>1, <2>1, <2>2, MmFields DEF MmType
<1>5. leg'.T = "off" /\ leg'.id = leg.id /\ leg'.preq = "none" /\ UNCHANGED <<cfg, att, auth, iu, sub, hlr, gsup, obs>>
  BY <1>1 DEF RxAttachCompl, PtmsiAssigned, TimerStopAll, LegType
<1>6. Inv'
  BY <1>1, <1>2, <1>3, <1>4, <1>5 DEF Inv, Gb, Remote
<1>7. Asked => Asked'
  BY <1>1, <1>2, <1>3, <1>4, <1>5 DEF Asked, Ours, Asking, Inv, Gb, Remote
<1> QED
  BY <1>6, <1>7 DEF Kept

\* A Routeing Area Update is authorised.
LEMMA RxRauReqInv ==
  ASSUME TypeOK, Inv, NEW newconn \in BOOLEAN, RxRauReq(newconn)
  PROVE  Kept
<1>1. Quiet /\ mm \in MmType /\ leg \in LegType /\ mm.alive
  BY DEF RxRauReq, Input, TypeOK
<1>2. stack = <<>> /\ Top = "none" /\ Callers = {}
  BY <1>1, AtRest
<1>3. Begun("gsm48_gmm_authorize", "-")
  BY <1>2, Calling DEF RxRauReq, PlainFns
<1>4. mm'.alive = mm.alive /\ mm'.imsi = mm.imsi /\ mm'.imei = mm.imei
  <2> DEFINE x == [mm EXCEPT !.gmm = "COMMON_PROC_INIT"]
  <2>1. mm' = Heard(x)
    BY DEF RxRauReq
  <2>2. x \in MmType /\ x.alive = mm.alive /\ x.imsi = mm.imsi /\ x.imei = mm.imei
    BY <1>1 DEF MmType, GmmStates
  <2> HIDE DEF x
  <2> QED
    BY <2>1, <2>2, MmFields
<1>5. Gb \/ iu'.ue
  BY ConnectionFields DEF RxRauReq
<1>6. leg'.id = leg.id /\ leg'.preq = "RAU" /\ (att.st # "INIT" => leg'.T = leg.T)
  <2>1. "T3350" \in LegTimers
    BY Values
  <2>2. TimerStart(leg, "T3350") \in LegType /\ (att.st # "INIT" => TimerStart(leg, "T3350") = leg)
    BY <1>1, <2>1, TimerStartFields
  <2>3. TimerStart(leg, "T3350").id = leg.id
    BY <1>1 DEF TimerStart, LegType
  <2>4. leg' = [TimerStart(leg, "T3350") EXCEPT !.preq = "RAU"]
    BY DEF RxRauReq
  <2> QED
    BY <2>2, <2>3, <2>4 DEF LegType
<1>7. UNCHANGED <<cfg, att, auth, sub, hlr, gsup, obs>>
  BY DEF RxRauReq
<1>8. Calls' /\ Life' /\ Timers' /\ Connected' /\ Trusting'
  BY <1>1, <1>2, <1>3, <1>4, <1>5, <1>6, <1>7 DEF Inv, Gb, Remote
<1>9. Identified' /\ Identifying' /\ Challenging' /\ Located' /\ Integrity'
  BY <1>1, <1>2, <1>3, <1>4, <1>5, <1>6, <1>7 DEF Inv, Gb, Remote
<1>10. Asked => Asked'
  BY <1>1, <1>2, <1>3, <1>4, <1>5, <1>6, <1>7 DEF Asked, Ours, Asking, Inv, Gb, Remote
<1> QED
  BY <1>8, <1>9, <1>10 DEF Inv, Kept

\* The P-TMSI of another procedure; it ends without a call.
LEMMA RxComplInv == ASSUME TypeOK, Inv, RxRauCompl \/ RxPtmsiReallCompl PROVE Kept
<1>1. Quiet /\ mm \in MmType /\ leg \in LegType /\ UNCHANGED stack
  BY DEF RxRauCompl, RxPtmsiReallCompl, Rx, Input, TypeOK
<1>2. Top = "none" /\ Callers = {} /\ Top' = "none" /\ Callers' = {}
  BY <1>1, AtRest, Stays
<1>3. mm'.alive = mm.alive /\ mm'.imsi = mm.imsi /\ mm'.imei = mm.imei
  <2>1. Heard(mm) \in MmType
    BY <1>1, MmOps
  <2>2. mm' = Heard(mm) \/ \E g, x : mm' = [Heard(mm) EXCEPT !.gmm = g, !.st = x]
    BY DEF RxRauCompl, RxPtmsiReallCompl
  <2> QED
    BY <1>1, <2>1, <2>2, MmFields DEF MmType
<1>4. leg'.T = "off" /\ leg'.id = leg.id /\ leg'.preq = "none" /\ UNCHANGED <<cfg, att, auth, iu, sub, hlr, gsup, obs>>
  BY <1>1 DEF RxRauCompl, RxPtmsiReallCompl, PtmsiAssigned, TimerStopAll, LegType
<1>5. Inv'
  BY <1>2, <1>3, <1>4 DEF Inv, Gb, Remote
<1>6. Asked => Asked'
  BY <1>2, <1>3, <1>4 DEF Asked, Ours, Asking, Inv, Gb, Remote
<1> QED
  BY <1>5, <1>6 DEF Kept

\* A Service Request is authorised, or refused.
LEMMA RxServiceReqInv ==
  ASSUME TypeOK, Inv, NEW newconn \in BOOLEAN, NEW refused \in BOOLEAN, RxServiceReq(newconn, refused)
  PROVE  Kept
<1>1. Quiet /\ mm \in MmType /\ leg \in LegType /\ mm.alive
  BY DEF RxServiceReq, Input, TypeOK
<1>2. stack = <<>> /\ Top = "none" /\ Callers = {}
  BY <1>1, AtRest
<1>3. \/ Begun("gsm48_gmm_authorize", "-") /\ ~refused
      \/ Top' = "none" /\ Callers' = {}
  <2>1. UNCHANGED stack \/ (stack' = <<Call("gsm48_gmm_authorize")>> /\ ~refused)
    BY DEF RxServiceReq
  <2>2. "gsm48_gmm_authorize" \in PlainFns
    BY DEF PlainFns
  <2> QED
    BY <1>2, <2>1, <2>2, Calling, Stays
<1>4. mm'.alive = mm.alive /\ mm'.imsi = mm.imsi /\ mm'.imei = mm.imei
  BY <1>1 DEF RxServiceReq, MmType
<1>5. Gb \/ iu'.ue
  BY ConnectionFields DEF RxServiceReq
<1>6. /\ leg'.id = leg.id /\ leg'.T = leg.T /\ leg'.preq = IF refused THEN leg.preq ELSE "SERVICE"
      /\ UNCHANGED <<cfg, att, auth, sub, hlr, gsup, obs>>
  BY <1>1 DEF RxServiceReq, LegType
<1>7. Calls' /\ Life' /\ Timers' /\ Connected' /\ Trusting'
  BY <1>1, <1>2, <1>3, <1>4, <1>5, <1>6 DEF Inv, Gb, Remote
<1>8. Identified' /\ Identifying' /\ Challenging' /\ Located' /\ Integrity'
  BY <1>1, <1>2, <1>3, <1>4, <1>5, <1>6 DEF Inv, Gb, Remote
<1>9. Asked => Asked'
  BY <1>1, <1>2, <1>3, <1>4, <1>5, <1>6 DEF Asked, Ours, Asking, Inv, Gb, Remote
<1> QED
  BY <1>7, <1>8, <1>9 DEF Inv, Kept

\* BSSGP SUSPEND and RESUME, and the READY timer.
LEMMA SuspendInv == ASSUME TypeOK, Inv, Suspend \/ Resume \/ ReadyTimeout PROVE Kept
<1>1. mm \in MmType /\ UNCHANGED <<cfg, att, auth, leg, iu, sub, hlr, stack, gsup, obs>>
  BY DEF Suspend, Resume, ReadyTimeout, TypeOK
<1>2. mm'.alive = mm.alive /\ mm'.imsi = mm.imsi /\ mm'.imei = mm.imei
  BY <1>1 DEF Suspend, Resume, ReadyTimeout, MmType
<1>3. Top' = Top /\ Arg' = Arg /\ Callers' = Callers
  BY <1>1, Stays
<1>4. Inv'
  BY <1>1, <1>2, <1>3 DEF Inv, Gb, Remote
<1>5. Asked => Asked'
  BY <1>1, <1>2, <1>3 DEF Asked, Ours, Asking, Inv, Gb, Remote
<1> QED
  BY <1>4, <1>5 DEF Kept

\* The messages of the MS preserve the invariant.
LEMMA MsInv == ASSUME TypeOK, Inv, MsInput PROVE Kept
<1>1. CASE RxAttachReqRefused \/ RxRauReqRefused \/ RxDetach \/ AccessCancelledByOperator
  BY <1>1, DropInv DEF RxAttachReqRefused, RxRauReqRefused, RxDetach, AccessCancelledByOperator, Rx, Input
<1>2. CASE \E m \in Reqs, known, newconn \in BOOLEAN : RxAttachReq(m, known, newconn)
  BY <1>2, RxAttachReqInv, Zenon
<1>3. CASE \E type \in {"IMSI", "IMEI", "OTHER"} : RxIdResp(type)
  BY <1>3, RxIdRespInv, Zenon
<1>4. CASE \E good \in BOOLEAN : RxAuthCiphResp(good)
  BY <1>4, RxAuthCiphRespInv, Zenon
<1>5. CASE \E auts \in BOOLEAN : RxAuthCiphFail(auts)
  BY <1>5, RxAuthCiphFailInv, Zenon
<1>6. CASE \E newconn \in BOOLEAN : RxRauReq(newconn)
  BY <1>6, RxRauReqInv, Zenon
<1>7. CASE \E newconn, refused \in BOOLEAN : RxServiceReq(newconn, refused)
  BY <1>7, RxServiceReqInv, Zenon
<1>8. CASE RxAuthCiphRespMalformed \/ RxAttachCompl \/ RxRauCompl \/ RxPtmsiReallCompl \/ Suspend \/ Resume
  BY <1>8, RxAuthCiphRespMalformedInv, RxAttachComplInv, RxComplInv, SuspendInv, Zenon
<1> QED
  BY <1>1, <1>2, <1>3, <1>4, <1>5, <1>6, <1>7, <1>8, Zenon DEF MsInput
\* num_T_exp++
LEMMA ExpiredFields == \A l \in LegType :
  Expired(l) \in LegType /\ Expired(l).T = l.T /\ Expired(l).id = l.id /\ Expired(l).preq = l.preq
<1> TAKE l \in LegType
<1>1. Expired(l) \in LegType
  BY ExpiredType
<1>2. Expired(l).T = l.T /\ Expired(l).id = l.id /\ Expired(l).preq = l.preq
  BY DEF Expired, LegType
<1> QED
  BY <1>1, <1>2

\* gmm_attach_timer_cb sends again, gives up, or lets the timer run out.
LEMMA FsmTimeoutInv == ASSUME TypeOK, Inv, FsmTimeout PROVE Kept
<1>1. /\ Quiet /\ att.timer /\ att \in AttType /\ auth \in AuthType /\ leg \in LegType
      /\ att.st \in AttachStates /\ UNCHANGED <<cfg, mm, iu, sub, hlr, gsup, obs>>
  BY Fields DEF FsmTimeout, TypeOK
<1>2. stack = <<>> /\ Top = "none" /\ Callers = {} /\ att.st # "REJECT"
  BY <1>1, AtRest
<1>3. leg'.T = leg.T /\ leg'.preq = leg.preq /\ leg'.id = leg.id
  BY <1>1, ExpiredFields DEF FsmTimeout
<1>4. mm.alive /\ att.st # "INIT"
  BY <1>1, <1>2 DEF Inv
<1>5. CASE stack' = <<Call("E_REJECT")>> /\ att' = [att EXCEPT !.timer = FALSE] /\ UNCHANGED auth
  <2>1. Begun("E_REJECT", "-")
    BY <1>2, <1>5, Calling DEF PlainFns
  <2>2. att'.st = att.st /\ att'.timer = FALSE /\ UNCHANGED auth
    BY <1>1, <1>5 DEF AttType
  <2>3. Inv'
    BY <1>1, <1>2, <1>3, <1>4, <2>1, <2>2 DEF Inv, Gb, Remote
  <2>4. Asked => Asked'
    BY <1>1, <1>2, <1>3, <1>4, <2>1, <2>2 DEF Asked, Ours, Asking, Inv, Gb, Remote
  <2> QED
    BY <2>3, <2>4 DEF Kept
<1>6. CASE UNCHANGED <<att, stack>> /\ \E ok \in TxResults :
             auth' = IF att.st = "AUTH"
                     THEN [auth EXCEPT !.chal = IF ok THEN "current" ELSE @] ELSE auth
  <2>1. Top' = "none" /\ Callers' = {}
    BY <1>2, <1>6, Stays
  <2>2. /\ auth'.state = auth.state /\ auth'.sec = auth.sec /\ auth'.key = auth.key
        /\ att.st # "AUTH" => UNCHANGED auth
    BY <1>1, <1>6 DEF AuthType
  <2>3. Inv'
    BY <1>1, <1>2, <1>3, <1>4, <1>6, <2>1, <2>2 DEF Inv, Gb, Remote
  <2>4. Asked => Asked'
    BY <1>1, <1>2, <1>3, <1>4, <1>6, <2>1, <2>2 DEF Asked, Ours, Asking, Inv, Gb, Remote
  <2> QED
    BY <2>3, <2>4 DEF Kept
<1>7. CASE /\ att.st \notin Retransmits \cup {"ASK_VLR"}
           /\ att' = [att EXCEPT !.timer = FALSE] /\ UNCHANGED <<auth, stack>>
  <2>1. Top' = "none" /\ Callers' = {}
    BY <1>2, <1>7, Stays
  <2>2. att'.st = att.st /\ att'.timer = FALSE /\ UNCHANGED auth
    BY <1>1, <1>7 DEF AttType
  <2>3. att.st = "IU_SECURITY_CMD"
    BY <1>1, <1>2, <1>4, <1>7 DEF Retransmits, AttachStates
  <2>4. Inv'
    BY <1>1, <1>2, <1>3, <1>4, <2>1, <2>2, <2>3 DEF Inv, Gb, Remote
  <2>5. Asked => Asked'
    BY <1>1, <1>2, <1>3, <1>4, <2>1, <2>2, <2>3 DEF Asked, Ours, Asking, Inv, Gb, Remote
  <2> QED
    BY <2>4, <2>5 DEF Kept
<1> QED
  BY <1>5, <1>6, <1>7 DEF FsmTimeout

\* mmctx_timer_cb: the shared timer runs only when no attach is in progress.
LEMMA LegacyTimeoutInv == ASSUME TypeOK, Inv, LegacyTimeout PROVE Kept
<1>1. /\ Quiet /\ leg.T # "off" /\ auth \in AuthType /\ leg \in LegType
      /\ UNCHANGED <<cfg, mm, att, iu, sub, hlr, gsup, obs>>
  BY DEF LegacyTimeout, TypeOK
<1>2. stack = <<>> /\ Top = "none" /\ Callers = {} /\ (auth.key => RequireAuth)
  BY <1>1, AtRest
<1>3. mm.alive /\ att.st = "INIT"
  BY <1>1, <1>2 DEF Inv
<1>4. leg'.id = leg.id /\ leg'.preq = leg.preq
  <2>1. Expired(leg) \in LegType /\ Expired(leg).id = leg.id /\ Expired(leg).preq = leg.preq
    BY <1>1, ExpiredFields
  <2>2. leg' = Expired(leg) \/ \E t : leg' = [Expired(leg) EXCEPT !.T = t]
    BY DEF LegacyTimeout
  <2> QED
    BY <2>1, <2>2 DEF LegType
<1>5. Begun(Free, "-") \/ (Top' = "none" /\ Callers' = {})
  <2>1. stack' = <<Call("gprs_gmm_mm_ctx_cleanup_free")>> \/ UNCHANGED stack
    BY <1>3 DEF LegacyTimeout
  <2>2. "gprs_gmm_mm_ctx_cleanup_free" \in PlainFns
    BY DEF PlainFns
  <2> QED
    BY <1>2, <2>1, <2>2, Calling, Stays
<1>6. /\ auth'.state = auth.state /\ auth'.sec = auth.sec /\ auth'.key = auth.key
      /\ UNCHANGED auth \/ auth.key
  BY <1>1 DEF LegacyTimeout, AuthType
<1>7. Inv'
  BY <1>1, <1>2, <1>3, <1>4, <1>5, <1>6 DEF Inv, Gb, Remote
<1>8. Asked => Asked'
  BY <1>1, <1>2, <1>3, <1>4, <1>5, <1>6 DEF Asked, Ours, Asking, Inv, Gb, Remote
<1> QED
  BY <1>7, <1>8 DEF Kept

\* The timers preserve the invariant.
LEMMA TimerInv == ASSUME TypeOK, Inv, TimerInput PROVE Kept
  BY FsmTimeoutInv, LegacyTimeoutInv, SuspendInv, Zenon DEF TimerInput

\* The Iu connection is released; an attach in progress ends.
LEMMA IuReleaseInv == ASSUME TypeOK, Inv, IuRelease PROVE Kept
<1>1. Quiet /\ mm.alive /\ mm \in MmType
  BY DEF IuRelease, Input, TypeOK
<1>2. stack = <<>> /\ Top = "none" /\ Callers = {} /\ att.st # "REJECT"
  BY <1>1, AtRest
<1>3. \/ att.st # "INIT" /\ Begun("E_REJECT", "-")
      \/ att.st = "INIT" /\ Top' = "none" /\ Callers' = {}
  <2>1. CASE att.st # "INIT"
    BY <1>2, <2>1, Calling DEF IuRelease, PlainFns
  <2>2. CASE att.st = "INIT"
    BY <2>2, Stays DEF IuRelease
  <2> QED
    BY <2>1, <2>2
<1>4. /\ mm'.alive = mm.alive /\ mm'.imsi = mm.imsi /\ mm'.imei = mm.imei
      /\ UNCHANGED <<cfg, att, auth, leg, sub, hlr, gsup, obs>>
  BY <1>1 DEF IuRelease, MmType
<1>5. Inv'
  BY <1>1, <1>2, <1>3, <1>4 DEF Inv, Gb, Remote
<1>6. Asked => Asked'
  BY <1>1, <1>2, <1>3, <1>4 DEF Asked, Ours, Asking, Inv, Gb, Remote
<1> QED
  BY <1>5, <1>6 DEF Kept

\* The connection is protected from now on.
LEMMA SecurityModeCompleteInv == ASSUME TypeOK, Inv, SecurityModeComplete PROVE Kept
<1>1. Quiet /\ mm.alive /\ iu.ue /\ iu \in IuType
  BY DEF SecurityModeComplete, Input, TypeOK
<1>2. stack = <<>> /\ Top = "none" /\ Callers = {}
  BY <1>1, AtRest
<1>3. (leg.preq # "ATTACH" /\ Begun("gsm48_gmm_authorize", "-")) \/ Begun("E_IU_SECURITY_CMD_COMPLETE", "-")
  <2>1. (leg.preq # "ATTACH" /\ stack' = <<Call("gsm48_gmm_authorize")>>) \/ stack' = <<Call("E_IU_SECURITY_CMD_COMPLETE")>>
    BY DEF SecurityModeComplete
  <2> QED
    BY <1>2, <2>1, Calling DEF PlainFns
<1>4. iu'.ue = iu.ue /\ iu'.integ = TRUE /\ UNCHANGED <<cfg, mm, att, auth, leg, sub, hlr, gsup, obs>>
  BY <1>1 DEF SecurityModeComplete, IuType
<1>5. Calls' /\ Life' /\ Timers' /\ Connected' /\ Trusting'
  BY <1>1, <1>2, <1>3, <1>4 DEF Inv, Gb, Remote
<1>6. Identified' /\ Identifying' /\ Challenging' /\ Located' /\ Integrity'
  BY <1>1, <1>2, <1>3, <1>4 DEF Inv, Gb, Remote
<1>7. Asked => Asked'
  BY <1>1, <1>2, <1>3, <1>4 DEF Asked, Ours, Asking, Inv, Gb, Remote
<1> QED
  BY <1>5, <1>6, <1>7 DEF Inv, Kept

\* An RNC is lost: an attach in progress is aborted first.
LEMMA RncLossInv == ASSUME TypeOK, Inv, RncLoss PROVE Kept
<1>1. Quiet /\ mm.alive /\ att \in AttType
  BY DEF RncLoss, Input, TypeOK
<1>2. stack = <<>> /\ Top = "none" /\ Callers = {} /\ att.st # "REJECT"
  BY <1>1, AtRest
<1>3. UNCHANGED <<cfg, mm, auth, leg, iu, sub, hlr, gsup, obs>>
  BY DEF RncLoss
<1>4. CASE att.st = "INIT"
  <2>1. Begun("rnc_loss_release", "-") /\ UNCHANGED att
    BY <1>2, <1>4, Calling DEF RncLoss, PlainFns
  <2>2. Inv'
    BY <1>1, <1>2, <1>3, <1>4, <2>1 DEF Inv, Gb, Remote
  <2>3. Asked => Asked'
    BY <1>1, <1>2, <1>3, <1>4, <2>1 DEF Asked, Ours, Asking, Inv, Gb, Remote
  <2> QED
    BY <2>2, <2>3 DEF Kept
<1>5. CASE att.st # "INIT"
  <2>1. Top' = "E_REJECT" /\ Callers' = {"rnc_loss_release"}
    BY <1>2, <1>5, Starts DEF RncLoss
  <2>2. att'.st = att.st /\ att'.timer = FALSE
    BY <1>1, <1>2, <1>5 DEF RncLoss, AttType
  <2>3. Inv'
    BY <1>1, <1>2, <1>3, <1>5, <2>1, <2>2 DEF Inv, Gb, Remote
  <2>4. Asked => Asked'
    BY <1>1, <1>2, <1>3, <1>5, <2>1, <2>2 DEF Asked, Ours, Asking, Inv, Gb, Remote
  <2> QED
    BY <2>3, <2>4 DEF Kept
<1> QED
  BY <1>4, <1>5

\* The connection is released without a word to the attach.
LEMMA ReleasedInv == ASSUME TypeOK, Inv, GtpuErrorInd \/ RabRespUnknown PROVE Kept
<1>1. Quiet /\ mm \in MmType /\ UNCHANGED <<cfg, att, auth, leg, sub, hlr, stack, gsup, obs>>
  BY DEF GtpuErrorInd, RabRespUnknown, Input, TypeOK
<1>2. Top = "none" /\ Callers = {} /\ Top' = "none" /\ Callers' = {}
  BY <1>1, AtRest, Stays
<1>3. mm'.alive = mm.alive /\ mm'.imsi = mm.imsi /\ mm'.imei = mm.imei
  BY <1>1 DEF GtpuErrorInd, RabRespUnknown, MmType
<1>4. Inv'
  BY <1>1, <1>2, <1>3 DEF Inv, Gb, Remote
<1>5. Asked => Asked'
  BY <1>1, <1>2, <1>3 DEF Asked, Ours, Asking, Inv, Gb, Remote
<1> QED
  BY <1>4, <1>5 DEF Kept

\* The Iu events preserve the invariant.
LEMMA IuInv == ASSUME TypeOK, Inv, IuInput PROVE Kept
  BY IuReleaseInv, SecurityModeCompleteInv, RncLossInv, ReleasedInv, Zenon DEF IuInput
\* What a GSUP handler tells the context of the subscriber.
LEMMA Tells ==
  ASSUME stack = <<>>, NEW f \in PlainFns, TellContext(f)
  PROVE  (sub.mm /\ Begun(f, "-")) \/ (~sub.mm /\ Top' = "none" /\ Callers' = {})
<1>1. CASE sub.mm
  BY <1>1, Calling DEF TellContext
<1>2. CASE ~sub.mm
  BY <1>2, Stays DEF TellContext
<1> QED
  BY <1>1, <1>2

\* An answer of the HLR that gives or takes an authorisation, while the
\* handler holds the subscriber.
LEMMA AnswerInv ==
  ASSUME TypeOK, Inv, Quiet, sub.ex,
         \/ gsup' = "put"
         \/ gsup' = "cancel" /\ ~sub'.authz,
         sub'.ex = sub.ex, sub'.mm = sub.mm, sub'.aip => sub.aip, sub'.ulp => sub.ulp,
         TellContext("sgsn_auth_update"),
         obs'.null = obs.null, obs'.aka = obs.aka,
         \/ ~sub'.authz
         \/ obs'.loc = InAttach
         \/ (sub'.authz => sub.authz) /\ sub'.ulp = sub.ulp /\ obs'.loc = obs.loc,
         UNCHANGED <<cfg, mm, att, auth, leg, iu>>
  PROVE  Kept
<1>1. stack = <<>> /\ Top = "none" /\ Callers = {} /\ sub.mm
  BY AtRest
<1>2. "sgsn_auth_update" \in PlainFns
  BY DEF PlainFns
<1>3. Begun("sgsn_auth_update", "-")
  BY <1>1, <1>2, Tells
<1>4. Calls' /\ Life' /\ Timers' /\ Connected' /\ Trusting'
  BY <1>1, <1>3 DEF Inv, Gb, Remote
<1>5. Identified' /\ Identifying' /\ Challenging' /\ Located' /\ Integrity'
  BY <1>1, <1>3 DEF Inv, Gb, Remote
<1>6. Asked => Asked'
  BY <1>1, <1>3 DEF InAttach, Asked, Ours, Asking, Inv, Gb, Remote
<1> QED
  BY <1>4, <1>5, <1>6 DEF Inv, Kept

\* A message that is discarded, or changes nothing the invariant names.
LEMMA DiscardedInv ==
  ASSUME TypeOK, Inv, Quiet, UNCHANGED <<cfg, mm, att, auth, leg, iu, obs, stack>>,
         \/ UNCHANGED <<sub, gsup>>
         \/ /\ sub.ex /\ gsup' = "put"
            /\ sub'.ex = sub.ex /\ sub'.mm = sub.mm /\ sub'.aip = sub.aip /\ sub'.ulp = sub.ulp
            /\ sub'.authz = sub.authz
  PROVE  Kept
<1>1. Top = "none" /\ Callers = {} /\ Top' = "none" /\ Callers' = {}
  BY AtRest, Stays
<1>2. Inv'
  BY <1>1 DEF Inv, Gb, Remote
<1>3. Asked => Asked'
  BY <1>1 DEF Asked, Ours, Asking, Inv, Gb, Remote
<1> QED
  BY <1>2, <1>3 DEF Kept

\* Send Auth Info Result.
LEMMA SaiResultInv == ASSUME TypeOK, Inv, NEW n \in 0..MaxVec, SaiResult(n) PROVE Kept
<1>1. Quiet /\ sub \in SubType /\ UNCHANGED <<cfg, mm, att, auth, leg, iu, obs>>
  BY DEF SaiResult, TypeOK
<1>2. CASE sub.ex
  <2>1. PICK v : sub' = [sub EXCEPT !.vec = v, !.upd = TRUE, !.err = FALSE, !.aip = FALSE]
    BY <1>2 DEF SaiResult
  <2>2. sub'.ex = sub.ex /\ sub'.mm = sub.mm /\ ~sub'.aip /\ sub'.ulp = sub.ulp /\ sub'.authz = sub.authz
    BY <1>1, <2>1 DEF SubType
  <2>3. gsup' = "put" /\ TellContext("sgsn_auth_update")
    BY <1>2 DEF SaiResult
  <2> QED
    BY <1>1, <1>2, <2>2, <2>3, AnswerInv
<1>3. CASE ~sub.ex
  <2>1. UNCHANGED <<sub, gsup, stack>>
    BY <1>3 DEF SaiResult
  <2> QED
    BY <1>1, <2>1, DiscardedInv
<1> QED
  BY <1>2, <1>3

\* Send Auth Info Error.
LEMMA SaiErrorInv == ASSUME TypeOK, Inv, NEW kind \in ErrKinds, SaiError(kind) PROVE Kept
<1>1. Quiet /\ sub \in SubType /\ UNCHANGED <<cfg, mm, att, auth, leg, iu, obs>>
  BY DEF SaiError, TypeOK
<1>2. CASE sub.ex
  <2>1. sub'.ex = sub.ex /\ sub'.mm = sub.mm /\ sub'.ulp = sub.ulp
    BY <1>1, <1>2 DEF SaiError, SubType
  <2>2. (sub'.aip <=> sub.aip /\ kind = "EINVAL") /\ (sub'.authz <=> sub.authz /\ kind # "EACCES")
    <3>1. /\ sub'.aip = (sub.aip /\ kind = "EINVAL")
          /\ sub'.authz = (sub.authz /\ kind # "EACCES")
      BY <1>1, <1>2, Zenon DEF SaiError, SubType
    <3> QED
      BY <3>1, Zenon
  <2>3. gsup' = "put"
    BY <1>2 DEF SaiError
  <2>4. CASE kind = "EINVAL"
    <3>1. UNCHANGED stack
      BY <1>2, <2>4 DEF SaiError
    <3>2. sub'.aip = sub.aip /\ sub'.authz = sub.authz
      <4>1. sub' \in SubType
        BY HlrTypes DEF HlrInput, HlrAnswer, TypeOK
      <4>2. sub'.aip \in BOOLEAN /\ sub.aip \in BOOLEAN /\ sub'.authz \in BOOLEAN /\ sub.authz \in BOOLEAN
        BY <1>1, <4>1 DEF SubType
      <4> QED
        BY <2>2, <2>4, <4>2
    <3> QED
      BY <1>1, <1>2, <2>1, <2>3, <3>1, <3>2, DiscardedInv
  <2>5. CASE kind # "EINVAL"
    <3>1. TellContext("sgsn_auth_update")
      BY <1>2, <2>5 DEF SaiError
    <3> QED
      BY <1>1, <1>2, <2>1, <2>2, <2>3, <3>1, AnswerInv
  <2> QED
    BY <2>4, <2>5
<1>3. CASE ~sub.ex
  <2>1. UNCHANGED <<sub, gsup, stack>>
    BY <1>3 DEF SaiError
  <2> QED
    BY <1>1, <2>1, DiscardedInv
<1> QED
  BY <1>2, <1>3

\* Update Location Result and Insert Subscriber Data.
LEMMA InsertInv == ASSUME TypeOK, Inv, UlResult \/ InsertData PROVE Kept
<1>1. Quiet /\ sub \in SubType /\ obs \in ObsType /\ UNCHANGED <<cfg, mm, att, auth, leg, iu>>
  BY DEF UlResult, InsertData, Input, TypeOK
<1>2. CASE sub.ex
  <2>1. sub' = DataInserted(sub) /\ gsup' = "put" /\ TellContext("sgsn_auth_update")
    BY <1>2 DEF UlResult, InsertData
  <2>2. sub'.ex = sub.ex /\ sub'.mm = sub.mm /\ sub'.aip = sub.aip /\ ~sub'.ulp
    BY <1>1, <2>1 DEF DataInserted, SubType
  <2>3. obs'.null = obs.null /\ obs'.aka = obs.aka /\ obs'.loc = InAttach
    BY <1>1, <1>2 DEF UlResult, InsertData, ObsType
  <2> QED
    BY <1>1, <1>2, <2>1, <2>2, <2>3, AnswerInv
<1>3. CASE ~sub.ex
  <2>1. UNCHANGED <<sub, gsup, stack, obs>>
    BY <1>3 DEF UlResult, InsertData
  <2> QED
    BY <1>1, <2>1, DiscardedInv
<1> QED
  BY <1>2, <1>3

\* Update Location Error.
LEMMA UlErrorInv == ASSUME TypeOK, Inv, NEW kind \in ErrKinds, UlError(kind) PROVE Kept
<1>1. Quiet /\ sub \in SubType /\ UNCHANGED <<cfg, mm, att, auth, leg, iu, obs>>
  BY DEF UlError, TypeOK
<1>2. CASE sub.ex /\ kind # "EINVAL"
  <2>1. sub'.ex = sub.ex /\ sub'.mm = sub.mm /\ ~sub'.aip /\ sub'.ulp = sub.ulp
    BY <1>1, <1>2 DEF UlError, SubType
  <2>2. gsup' = "put" /\ TellContext("sgsn_auth_update")
    BY <1>2 DEF UlError
  <2>3. sub'.authz => sub.authz
    <3>1. sub'.authz = (sub.authz /\ kind # "EACCES")
      BY <1>1, <1>2, Zenon DEF UlError, SubType
    <3> QED
      BY <3>1, Zenon
  <2> QED
    BY <1>1, <1>2, <2>1, <2>2, <2>3, AnswerInv
<1>3. CASE ~(sub.ex /\ kind # "EINVAL")
  <2>1. UNCHANGED <<sub, gsup, stack>>
    BY <1>3 DEF UlError
  <2> QED
    BY <1>1, <2>1, DiscardedInv
<1> QED
  BY <1>2, <1>3

\* Delete Subscriber Data finds the context of the subscriber.
LEMMA DeleteDataInv == ASSUME TypeOK, Inv, DeleteData PROVE Kept
<1>1. Quiet /\ sub.ex /\ obs \in ObsType /\ gsup' = "put" /\ UNCHANGED <<cfg, mm, att, auth, leg, iu, sub, hlr>>
  BY DEF DeleteData, Input, TypeOK
<1>2. stack = <<>> /\ Top = "none" /\ Callers = {} /\ sub.mm
  BY <1>1, AtRest
<1>3. "gsm0408_gprs_access_denied" \in PlainFns
  BY DEF PlainFns
<1>4. Begun("gsm0408_gprs_access_denied", "-")
  BY <1>2, <1>3, Tells DEF DeleteData
<1>5. ~obs'.null /\ obs'.aka = obs.aka /\ obs'.loc = obs.loc
  <2>1. ~obs.null
    BY DEF Inv
  <2> QED
    BY <1>1, <1>2, <2>1, Zenon DEF DeleteData, ObsType
<1>6. Calls' /\ Life' /\ Timers' /\ Connected' /\ Trusting'
  BY <1>1, <1>2, <1>4, <1>5 DEF Inv, Gb, Remote
<1>7. Identified' /\ Identifying' /\ Challenging' /\ Located' /\ Integrity'
  BY <1>1, <1>2, <1>4 DEF Inv, Gb, Remote
<1>8. Asked => Asked'
  BY <1>1, <1>2, <1>4, <1>5 DEF Asked, Ours, Asking, Inv, Gb, Remote
<1> QED
  BY <1>6, <1>7, <1>8 DEF Inv, Kept

\* A cancellation takes the authorisation away before the context is told.
LEMMA CancelInv ==
  ASSUME TypeOK, Inv, Quiet, sub.ex, NEW cause, Cancel(cause), UNCHANGED <<cfg, mm, att, auth, leg, iu, obs>>
  PROVE  Kept
<1>1. sub \in SubType
  BY DEF TypeOK
<1>2. sub'.ex = sub.ex /\ sub'.mm = sub.mm /\ sub'.aip = sub.aip /\ ~sub'.ulp /\ ~sub'.authz
  BY <1>1 DEF Cancel, SubType
<1>3. gsup' = "cancel" /\ TellContext("sgsn_auth_update")
  BY DEF Cancel
<1> QED
  BY <1>2, <1>3, AnswerInv

\* Location Cancel, and the answer to a Purge.
LEMMA CancelledInv ==
  ASSUME TypeOK, Inv, PurgeAnswer \/ \E withdraw \in BOOLEAN : LocationCancel(withdraw)
  PROVE  Kept
<1>1. Quiet /\ UNCHANGED <<cfg, mm, att, auth, leg, iu, obs>>
  BY DEF PurgeAnswer, LocationCancel, Input
<1>2. CASE sub.ex
  BY <1>1, <1>2, CancelInv DEF PurgeAnswer, LocationCancel
<1>3. CASE ~sub.ex
  <2>1. UNCHANGED <<sub, gsup, stack>>
    BY <1>3 DEF PurgeAnswer, LocationCancel
  <2> QED
    BY <1>1, <2>1, DiscardedInv
<1> QED
  BY <1>2, <1>3

\* The messages of the HLR, and its loss, preserve the invariant.
LEMMA HlrInv == ASSUME TypeOK, Inv, HlrInput PROVE Kept
<1>1. CASE HlrLost
  BY <1>1, DiscardedInv DEF HlrLost
<1>2. CASE \E n \in 0..MaxVec : SaiResult(n)
  BY <1>2, SaiResultInv, Zenon
<1>3. CASE \E kind \in ErrKinds : SaiError(kind) \/ UlError(kind)
  BY <1>3, SaiErrorInv, UlErrorInv, Zenon
<1>4. CASE UlResult \/ InsertData \/ DeleteData \/ PurgeAnswer \/ \E withdraw \in BOOLEAN : LocationCancel(withdraw)
  BY <1>4, InsertInv, DeleteDataInv, CancelledInv, Zenon
<1> QED
  BY <1>1, <1>2, <1>3, <1>4, Zenon DEF HlrInput, HlrAnswer

-----------------------------------------------------------------------------
(* The theorems.                                                           *)

\* The invariant holds before there is a context.
LEMMA InitInv == Init => Inv /\ Asked
<1> SUFFICES ASSUME Init PROVE Inv /\ Asked
  OBVIOUS
<1>1. Top = "none" /\ Callers = {}
  BY DEF Init, Top, Callers
<1>2. /\ ~mm.alive /\ att.st = "INIT" /\ ~att.timer /\ leg.T = "off" /\ leg.id = "NONE" /\ leg.preq = "none"
      /\ auth.state = "UNKNOWN" /\ ~auth.sec /\ ~auth.key /\ auth.chal = "none"
      /\ ~sub.ex /\ ~sub.mm /\ ~sub.aip /\ gsup = "idle" /\ ~obs.null
  BY DEF Init, NoMm, NewAtt, NewLeg, NewAuth, NoSub
<1> QED
  BY <1>1, <1>2 DEF Inv, Asked, Ours, Asking

\* Every step preserves it.
LEMMA NextInv == TypeOK /\ Inv /\ [Next]_vars => Kept
<1> SUFFICES ASSUME TypeOK, Inv, [Next]_vars PROVE Kept
  OBVIOUS
<1>1. CASE Next
  BY <1>1, AttachFsmInv, AuthInv, EndInv, MsInv, TimerInv, IuInv, HlrInv, Zenon DEF Next, HandlerStep
<1>2. CASE UNCHANGED vars
  <2>1. UNCHANGED <<cfg, mm, att, auth, leg, iu, sub, stack, gsup, obs>>
    BY <1>2 DEF vars
  <2>2. Top' = Top /\ Arg' = Arg /\ Callers' = Callers
    BY <2>1, Stays
  <2> QED
    BY <2>1, <2>2 DEF Kept, Inv, Asked, Ours, Asking, Gb, Remote
<1> QED
  BY <1>1, <1>2

\* It is an invariant of the specification.
THEOREM Invariance == Spec => [](Inv /\ Asked)
<1>1. Spec => []TypeOK
  BY TypeCorrect
<1>2. TypeOK /\ (Inv /\ Asked) /\ [Next]_vars => (Inv /\ Asked)'
  BY NextInv DEF Kept
<1> QED
  BY <1>1, <1>2, InitInv, PTL DEF Spec

\* sgsn_data->mm and iu.ue_ctx are set wherever they are used without a test:
\* a GSUP message finds the context of a record that exists, and a security
\* mode command is sent only over a connection (part Connected).
THEOREM PointersAreSet == Spec => []PointersSet
<1>1. Inv => PointersSet
  BY DEF Inv, PointersSet
<1> QED
  BY <1>1, Invariance, PTL

\* mm->timer and the timer of the attach FSM never run together (part Timers):
\* mmctx_timer_start refuses while an attach is in progress, and st_init stops
\* the shared timer before the FSM starts its own.
THEOREM TimersAreExclusive == Spec => []TimersExclusive
<1>1. Inv => TimersExclusive
  BY DEF Inv, TimersExclusive
<1> QED
  BY <1>1, Invariance, PTL

\* Whenever the SGSN waits, the attach FSM's timer runs in every state but
\* Init and IuSecurityCommand (part Timers): gmm_attach_timer_cb gives up only
\* by ending the context.
THEOREM AttachIsSupervised == Spec => []AttachSupervised
<1>1. TypeOK /\ Inv => AttachSupervised
  BY AtRest DEF Inv, AttachSupervised
<1> QED
  BY <1>1, TypeCorrect, Invariance, PTL

\* Between inputs the subscriber record exists exactly as long as a live
\* context uses it (part Life): gprs_subscr_get and gprs_subscr_put balance on
\* every path through the GSUP handlers and the end of a context.
THEOREM SubscriberIsOwned == Spec => []SubscriberOwned
<1>1. TypeOK /\ Inv => SubscriberOwned
  BY AtRest DEF Inv, SubscriberOwned
<1> QED
  BY <1>1, TypeCorrect, Invariance, PTL

\* While the SGSN waits in Authenticate it holds the vector of the challenge
\* (part Challenging), so gmm_attach_timer_cb can send it again.
THEOREM ChallengeIsBacked == Spec => []ChallengeHasVector
<1>1. TypeOK /\ Inv => ChallengeHasVector
  BY AtRest DEF Inv, ChallengeHasVector
<1> QED
  BY <1>1, TypeCorrect, Invariance, PTL
-----------------------------------------------------------------------------
(* The accept.                                                             *)

\* Only osmo_fsm_inst_state_chg, told to do so, enters WaitAttachComplete.
LEMMA Accepting ==
  ASSUME TypeOK, Inv, [Next]_vars, att.st # "ACCEPT", att'.st = "ACCEPT"
  PROVE  Told("ACCEPT")
<1>1. att \in AttType /\ att.st \in AttachStates
  BY Fields DEF TypeOK
<1>2. CASE AttachFsmStep
  <2>1. CASE StateChg
    <3>1. Running("state_chg")
      BY <2>1 DEF StateChg
    <3>2. Top = "state_chg" /\ Arg = Data
      BY <3>1, Runs
    <3>3. Data = "ACCEPT"
      BY <1>1, <2>1 DEF StateChg, AttType
    <3> QED
      BY <3>2, <3>3
  <2>2. CASE StInit \/ AuthOnEnter \/ EvIdenResp
    BY <1>1, <2>2 DEF StInit, AuthOnEnter, EvIdenResp, AttType
  <2>3. CASE EvAttachReq \/ EvReject
    BY <1>1, <2>3 DEF EvAttachReq, EvReject, AttType
  <2>4. CASE EvAttachComplete
    BY <1>1, <2>4 DEF EvAttachComplete, NewAtt
  <2>5. CASE \/ IdentityOnEnter \/ AskVlrOnEnter \/ IuSecurityCmdOnEnter \/ AcceptOnEnter
             \/ AttachProceedAfterAuth \/ EvAuthSuccess \/ EvAuthResync \/ EvVlrAnswered
             \/ EvIuSecurityCmdComplete
    <3>1. UNCHANGED att
      BY <2>5 DEF IdentityOnEnter, AskVlrOnEnter, IuSecurityCmdOnEnter, AcceptOnEnter,
                  AttachProceedAfterAuth, EvAuthSuccess, EvAuthResync, EvVlrAnswered,
                  EvIuSecurityCmdComplete
    <3> QED
      BY <3>1
  <2> QED
    BY <1>2, <2>1, <2>2, <2>3, <2>4, <2>5, Zenon DEF AttachFsmStep
<1>3. CASE AuthStep
  <2>1. UNCHANGED att
    BY <1>3 DEF AuthStep, AuthRequest, AuthUpdate, GprsAuthenticate, AccessGranted, AccessDenied,
                AccessCancelled, GmmAuthorize
  <2> QED
    BY <2>1
<1>4. CASE EndStep
  BY <1>4 DEF EndStep, CleanupFree, RncLossRelease, SubscrCleanup, SubscrPut, NewAtt
<1>5. CASE MsInput
  <2>1. UNCHANGED att
    BY <1>5 DEF MsInput, RxAttachReq, RxAttachReqRefused, RxRauReqRefused, RxDetach,
                AccessCancelledByOperator, Drop, RxIdResp, RxAuthCiphResp, RxAuthCiphRespMalformed,
                RxAuthCiphFail, RxAttachCompl, RxRauReq, RxRauCompl, RxPtmsiReallCompl,
                RxServiceReq, Suspend, Resume
  <2> QED
    BY <2>1
<1>6. CASE TimerInput
  BY <1>1, <1>6 DEF TimerInput, FsmTimeout, LegacyTimeout, ReadyTimeout, AttType
<1>7. CASE IuInput
  BY <1>1, <1>7 DEF IuInput, IuRelease, SecurityModeComplete, RncLoss, GtpuErrorInd, RabRespUnknown, AttType
<1>8. CASE HlrInput
  <2>1. UNCHANGED att
    BY <1>8 DEF HlrInput, HlrAnswer, HlrLost, SaiResult, SaiError, UlResult, UlError, InsertData,
                DeleteData, LocationCancel, PurgeAnswer
  <2> QED
    BY <2>1
<1>9. CASE UNCHANGED vars
  BY <1>9 DEF vars
<1> QED
  BY <1>2, <1>3, <1>4, <1>5, <1>6, <1>7, <1>8, <1>9, Zenon DEF Next, HandlerStep

\* With "update location" required, WaitAttachComplete is entered only with a
\* record that is authorised and waits for no Update Location answer (part
\* Located); and, with authentication, unless another request took over
\* pending_req, only when the HLR has sent the subscriber's data, in an Update
\* Location Result or an Insert Subscriber Data, during this attach and after
\* the MS had been authenticated in it (Asked).
THEOREM AcceptIsLocated == Spec => AcceptLocated
<1>1. TypeOK /\ Inv /\ Asked /\ [Next]_vars =>
        [att.st # "ACCEPT" /\ att'.st = "ACCEPT" /\ Remote /\ cfg.require_ul
           => /\ sub.mm /\ sub.authz /\ ~sub.ulp
              /\ cfg.require_auth /\ leg.preq = "ATTACH" => obs.loc]_vars
  <2> SUFFICES ASSUME TypeOK, Inv, Asked, [Next]_vars,
                      att.st # "ACCEPT", att'.st = "ACCEPT", Remote, cfg.require_ul
               PROVE  /\ sub.mm /\ sub.authz /\ ~sub.ulp
                      /\ cfg.require_auth /\ leg.preq = "ATTACH" => obs.loc
    OBVIOUS
  <2>1. Told("ACCEPT")
    BY Accepting
  <2>2. att.st # "INIT"
    BY <2>1 DEF Inv
  <2>3. sub.mm /\ sub.authz /\ ~sub.ulp
    BY <2>1 DEF Inv
  <2>4. ASSUME cfg.require_auth, leg.preq = "ATTACH" PROVE obs.loc
    BY <2>1, <2>2, <2>4 DEF Asked, Ours
  <2> QED
    BY <2>3, <2>4
<1> QED
  BY <1>1, TypeCorrect, Invariance, PTL DEF Spec, AcceptLocated

\* An Attach Accept is sent only to an MS whose IMSI is known, and under an
\* access list only to one that is listed (parts Identified and Trusting).
THEOREM AcceptIsIdentified == Spec => AcceptIdentified
<1>1. TypeOK /\ Inv /\ [Next]_vars =>
        [att.st # "ACCEPT" /\ att'.st = "ACCEPT"
           => mm.imsi /\ (cfg.policy = "acl" => cfg.listed)]_vars
  BY Accepting, Fields DEF Inv, AttachStates
<1> QED
  BY <1>1, TypeCorrect, Invariance, PTL DEF Spec, AcceptIdentified

\* On Iu with authentication, a UE that is connected when WaitAttachComplete is
\* entered has integrity protection on that connection (part Integrity):
\* attach_proceed_after_auth looks at the connection the UE has now.  Nothing is
\* said of the repetitions of the Attach Accept.
THEOREM AcceptIsProtected == Spec => AcceptIntegrity
<1>1. TypeOK /\ Inv /\ [Next]_vars =>
        [att.st # "ACCEPT" /\ att'.st = "ACCEPT" /\ ~Gb /\ Remote /\ cfg.require_auth
           => (iu.ue => iu.integ)]_vars
  BY Accepting DEF Inv
<1> QED
  BY <1>1, TypeCorrect, Invariance, PTL DEF Spec, AcceptIntegrity
=============================================================================
