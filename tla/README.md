# TLA+ verification of osmo-sgsn

osmo-sgsn is a Serving GPRS Support Node: it attaches mobile stations (MS) that
come in over Gb (2G) or Iu (3G), authenticates them against an HLR over GSUP,
and tunnels their packet data to a GGSN over GTP.  The same repository holds
gtphub, a GTP proxy.  This directory models the parts of it that keep state and
decide; TLC checks the models on small instances and TLAPS proves theorems about
them for every value of their constants.

`PROJECT.json` lists components, runs, mutants, the map from definitions to
source lines, findings, hazards and theorems.

## The system

Both programs are single threaded: a select loop delivers one input (a message,
a timer, a reply of the HLR or the GGSN) and its handler runs to completion.
There are no data races.  What is hard is

* **asynchrony**: what an MS has asked for depends on answers of the HLR, of the
  GGSN and of the RNC, that come late, in any order, as an error or never, while
  the MS repeats its request, moves, or starts something else;
* **re-entrancy**: a handler dispatches FSM events synchronously and those
  dispatch again; a caller resumes after a nested call has changed the state it
  decided on, or freed the object it works on;
* **shared state of overlapping procedures**: attach, RA update and service
  request use the same authentication vector, `pending_req`, retry counter and
  subscriber flags.

### Inventory

| Component | State | Operations | Hard behaviour | What makes it correct |
|---|---|---|---|---|
| Attach FSM (`gprs_gmm_attach.c`) | state, timer, stored request, identity asked for, reattempts | ten events, entry actions, timer callback | restarts, timeouts, AUTS, events in every state | accept only after identity, authentication, integrity, location; never stuck |
| GMM handlers (`gprs_gmm.c`) | `pending_req`, `mm->timer` (T3350/T3360/T3370), `num_T_exp` | one per GMM message, `gsm48_gmm_authorize`, timer callback | procedures overlap the attach | one timer at a time; identity known |
| GMM, MM, PMM FSMs | one state each | events from the handlers | they run beside the attach FSM | states agree with the procedure |
| Authorisation (`sgsn_auth.c`) | `auth_state`, `sec_ctx`, `auth_triplet` | request, update, state, get tuple | a cached state while a request is pending | says accepted only for an authenticated, authorised MS |
| Subscriber (`gprs_subscriber.c`) | flags, vectors, `authorized`, error cause, reference count, link to the context | GSUP requests, one handler per answer, cancel, purge | answers to requests of a context that is gone | the record lives as long as its context |
| Contexts (`mmctx.c`) | list, hashes by IMSI, P-TMSI, TLLI | allocate, look up, unlink, free | freeing within a nested call | one context per identity, none used after it is freed |
| RANAP events, RNC loss (`gprs_ranap.c`, `sgsn_pdp_gn.c`) | the UE's connection, integrity | release, security mode, RAB assignment, RNC loss | connection replaced during a procedure | pointers set when they are used |
| PDP and SM (`gprs_sm.c`, `pdpctx.c`, `sgsn_libgtp.c`, `sgsn_gtp_ctx.c`) | PDP contexts with an SGSN and a libgtp half, T3395, GGSN look-up | activate, deactivate, create/update/delete confirmations | confirmations for contexts that are gone | the halves are freed once, a tunnel ends when its context does |
| gtphub (`gtphub.c`) | peers, TEI map, sequence maps, expiry queues, number pools | packets from either side, expiry, restart counters | a number expires while a packet is under way | a response goes back to who asked; a mapped TEI names one tunnel |
| LLC (`gprs_llc.c`) | LLME/LLE state, N(U), V(U), overflow counters, XID | UI frames, XID, TLLI assignment | duplicates, counter overflow, old and new TLLI | no duplicate is delivered, both TLLIs work while one is being replaced |
| SNDCP (`gprs_sndcp*.c`) | entities, defragmentation queue, compression entities | activate, segment, reassemble, XID | lost and reordered segments | an N-PDU is reassembled from its own segments |
| Iu (`iu_*.c`, `sccp.c`) | RNC FSM, SCCP connections, UE contexts | reset, connection events | RNC restart | a UE context belongs to a live connection |
| Routing areas (`gprs_routing_area.c`) | areas with their cells and RNCs | add, remove, look up | cells come and go per NSEI | lists agree |

`sgsn_auth.c` is called by the attach FSM and by `gsm48_gmm_authorize`, sends
requests through `gprs_subscriber.c`, and calls back into `gprs_gmm.c`
(`gsm0408_gprs_authenticate`, `..._access_granted`, `..._access_denied`), which
dispatches `E_VLR_ANSWERED` or `E_REJECT` to the attach FSM.  A GSUP message takes
a reference on the subscriber, updates it, has the context told through
`sgsn_update_subscriber_data`, and drops its reference.

### Plan

| # | Module | Content | State |
|---|---|---|---|
| 1 | `GmmContext` | one MM context: attach, authorisation, subscriber, timers, Iu events | modelled, checked; `GmmContextProofs`, `GmmAuthProofs`, `GmmSafetyProofs` |
| 2 | `MmRegistry` | several contexts: hashes, P-TMSI allocation, an MS found by IMSI, P-TMSI, TLLI or connection, LLMEs, RAT change | modelled, checked; `MmRegistryProofs` |
| 3 | `PdpContext`, `PdpTunnel` | SM messages, GTP confirmations, T3395, RAB, RNC loss, context transfer; the abstract tunnel it implements | modelled, checked, refinement checked; `PdpContextProofs` |
| 4 | `GtpHub` | number pools, TEI and sequence maps with expiry, peers, restart counters, GGSN look-ups | modelled, checked; `GtpHubProofs` |
| 5 | `SndcpXid`, `Bearer` | the octets of XID messages; UI frames, ciphering counters, segmentation, compression entities and their negotiation, between the SGSN and an MS | modelled, checked; `BearerProofs` |
| 6 | `Lists`, `ListsProofs` | linked lists as sequences: what removing from one leaves, and how often it has elements of a set, for every list | proved |
| 7 | proofs | all invariants of `MmRegistry`, `PdpContext` and `GtpHub`, the action property of `GtpHub`, the safety part of the refinement, all safety properties that hold of `GmmContext`, and of `Bearer` `TypeOK`, `CipherInStep` and `EntitiesUnique` | done |
| 8 | `IuRnc`, `RoutingArea` | RNC FSM and SCCP connections; area and cell lists | left |

The modules overlap at their seams rather than compose: what one decides is a
free choice in the other.  `MmRegistry` may free any context at any time
(`Cancelled`), which covers every outcome of `GmmContext`; `PdpContext` lets the GMM
state and the RAT change freely; `Bearer` presupposes an MM and a PDP context.
`PdpContext` and `Bearer` do compose parts: SM, GTP, PMM and RAB handling in the
first; LLC, SNDCP, the XID codec and the MS in the second.

## GmmContext: one mobility management context

### State and actions

| Variable | Code |
|---|---|
| `cfg` | `sgsn->cfg`: policy, access list, required authentication and update location; the RAN |
| `mm` | `struct sgsn_mm_ctx`: allocated, IMSI and IMEI known, `gmm_fsm`, `gb/iu.mm_state_fsm` |
| `att` | `gmm_att_req`: FSM state, its timer, stored request, `id_type`, `auth_reattempt` |
| `auth` | `auth_state`, `sec_ctx` (authenticated), `auth_triplet.key_seq` valid, the challenge the MS holds |
| `leg` | `mm->timer` with `T`, `num_T_exp`, `t3370_id_type`, `pending_req` |
| `iu` | `iu.ue_ctx`, a Security Mode Command under way, `integrity_active` |
| `sub` | `struct gprs_subscr`: exists, linked to the context, the pending flags, `authorized`, `error_cause`, `auth_triplets_updated`, unused vectors, purge and cancelled flags |
| `hlr` | Send Auth Info, Update Location and Purge requests the HLR has not answered |
| `stack`, `gsup` | the C call stack: functions still to run on the context, and what the GSUP handler does at its end |
| `obs` | history: in this attach the MS passed AKA, and the HLR sent the subscriber's data after that; a freed context or a null pointer was used |

An input (`MsInput`, `TimerInput`, `IuInput`, `HlrInput`) is taken when the stack is
empty and pushes the first call of its handler.  Every function that changes
state is one action (`HandlerStep`) that runs when it is at the head, and
replaces itself by the calls it makes; a call that is followed by more code leaves
a frame for the rest.  So the model has the code's order of nested effects:
`st_auth`, for example, is `sgsn_auth_request` followed by
`attach_proceed_after_auth`, with everything the first one triggers in between.

Messages are abstracted to what the handlers branch on; an Attach Request is the
same as the stored one or different (`Reqs`), which is all the FSM asks of it.  A challenge is
`"current"` or `"old"` as its vector was replaced or not: the expected result of
an old one does not match.

On Iu the connection can go away under an attach that is told (`IuRelease`, `RncLoss`) and
under one that is not: a GTP-U Error Indication in PMM-CONNECTED (`GtpuErrorInd`,
`gprs_mm_state_iu_fsm.c:123`) and a RAB Assignment Response for an unknown NSAPI
(`RabRespUnknown`, `gprs_ranap.c:118`) free it and leave the attach FSM as it is.

### Runs

| Run | Configuration | Properties |
|---|---|---|
| `gmm` | Iu, remote HLR, authentication and update location required, fair | `PointersSet`, `TimersExclusive`, `AttachSupervised`, `AcceptIntegrity`, `AttachEnds` |
| `gmm_mixed` | Gb: the local policies, and a remote HLR with and without authentication; sends may fail, two outstanding HLR requests | `TypeOK`, `SubscriberOwned`, `AcceptAuthenticated`, `ChallengeHasVector`, `AcceptIdentified`, `AcceptLocated` |
| `gmm_ul_error` | Gb, remote, every HLR request is answered | `AskVlrAwaitsHlr` is violated |
| `gmm_lifetime` | Iu, remote | `FreedWhenUnused` is violated |

Bounds.  `MaxExpiry` (5 in the code) is 2 in `gmm`, which has the properties of timers: the
counter is only compared with the limit, and 2 has a retransmission, a counter that another
procedure reset and a limit that is reached.  It is 1 in `gmm_mixed`, where a timer that fires
gives up at once.  `MaxVec` (5) is 1: a Send Auth Info Result brings no
vector or one, so that running out is frequent; more than one is covered by the
theorem.  `MaxOut` is the number of outstanding HLR requests at which no new input
of the MS is taken (answers and timers still are): with 2, an authentication and a
location request, a request of an old attach and one of a new, or a purge and a
request overlap, and an Insert Subscriber Data comes before the Update Location Result (with
1, in `gmm`, an input waits for the answer of the request before it, but answers of several
kinds, timers and the loss of connections still race).  Deadlock is
checked: the MS can always send something.  The configurations that no run has (local
policies on Iu, a remote HLR without update location) are covered by the theorems alone.

Fairness (`FairSpec`).  A handler runs to completion (`HandlerReturns`: while one runs no input
is taken, so it says that the system does not stop there), and the timer of the attach FSM fires if
it is left armed; the select loop serves due timers before it waits.  A timer that is
stopped, or started anew by changes of state, again and again need not fire
(`TimerServed`).  Nothing is assumed of the MS, the HLR or the RNC.

### What the runs show

WaitAttachComplete, on whose entry the Attach Accept is sent, is entered only with an MS that
is identified, authenticated, authorised and, on Iu, on an integrity protected connection or on
none, in every order of answers, repetitions, resynchronisations, RA updates, cancellations, lost
connections and timeouts.  Every wait of the attach is supervised by exactly one timer, except
IuSecurityCommand, whose timer fires into a callback without a case for it.  The subscriber
record lives exactly as long as its context uses it.

What the properties say, and where the code promises less than one may expect:

* `AcceptLocated`: the record is authorised and no Update Location answer is due.  The code
  takes the data from an Update Location Result or from an Insert Subscriber Data, which sets
  the same flags (`gprs_subscriber.c:475`, `880`).  With authentication it also says that the
  data came during this attach, after the MS was authenticated in it.  Two exceptions are in
  the property because they are in the code: an RA update or service request that takes over
  `pending_req` in the middle of the attach has `sgsn_auth_request` ask for nothing, and the
  attach is accepted on the earlier authorisation; and without authentication a late Update
  Location Error with "HLR unreachable" can have an attach accepted on the earlier one.
* `AcceptIntegrity`: the first accept, not its repetitions: T3350 sends the accept again over
  the connection the UE has then, and nobody looks at its protection.
* `AttachEnds`: the attach returns to Init again and again.  Two exceptions: each AUTS
  re-enters AskVLR and starts T3350 anew, and `auth_reattempt` grows in Authenticate only
  (`gprs_gmm_attach.c:465`), so an MS that sends AUTS for ever keeps an attach with a silent HLR;
  and IuSecurityCommand may wait for ever.

Two disagreements with what the code says of itself:

* `gmm_ul_error`: the handlers of an Update Location Error clear the pending flag
  of the authentication request instead of their own, so an attach that was
  refused by the HLR waits for T3350 and is rejected with "HLR did not answer in
  time" (`gprs_gmm_attach.c:495`).
* `gmm_lifetime`: `st_reject` frees the context when "the attach FSM is gone"
  (`gprs_gmm_attach.c:290`), below callers that go on with it
  (`sgsn_pdp_gn.c:117`, `gprs_gmm_attach.c:169` and `214`).  The model drops the frames
  that are left and remembers it in `obs.uaf`; the other runs hold for the
  behaviours in which those frames have no effect.

Seen while modelling and not the subject of a run: the timer of IuSecurityCommand
has no case in `gmm_attach_timer_cb`; after the authentication of an RA update the
success event goes to an attach FSM that is in Init (`gprs_gmm.c:1030`); a malformed
Authentication Response stops T3360 of an RA update (`gprs_gmm.c:740`); a
subscription withdrawn while an authentication request is pending only unlinks the
context, although it should "abort the current attachment"
(`gprs_subscriber.c:684`); two contexts may share a subscriber (`mmctx.c:585`).

### What is proved

`GmmContextProofs` proves `TypeCorrect` (`Spec => []TypeOK`).  Its lemmas say what an
assignment does to each record and what a call does to the stack; then there is
one step per action.  The type of a frame says which argument a function takes, so
the theorem includes that `state_chg` gets a state and `st_init` a request, that an
HLR answer is only counted when one was due, and that a vector is only taken from
a store that has one.

`GmmAuthProofs` proves `AcceptsAuthenticated` (`Spec => []AcceptAuthenticated`).
`AcceptAuthenticated` is not inductive: the accept is the last of a chain of nested
calls, decided by flags that were set many inputs before.  `AkaInv` adds

* `StateAuthenticated`: when authentication is required, `sec_ctx`, the cached
  state "accepted", and the states IuSecurityCommand and WaitAttachComplete all
  presuppose that the MS has passed AKA in this attach;
* `FramesAuthenticated`: so do the calls under way that lead there
  (`attach_proceed_after_auth`, the change to ACCEPT or IU_SECURITY_CMD); and the
  call that starts a new attach, which resets the history, has no other call of
  the old attach behind it.

`GmmSafetyProofs` proves the other five invariants and three action properties of the
runs.  They fail in the middle of handlers, or hold there for reasons that lie on the
call stack, so the inductive invariant `Inv` speaks of the function that runs (`Top`), its
argument, and the functions that wait for it (`Callers`):

* `Calls`: who can be waiting for whom.  A function that would go on with a freed
  context (the uses that `GmmLifetime.cfg` finds) waits only for the end of the context, never
  for anything that returns to it with the context intact; `attach_proceed_after_auth` waits only in an attach that is past
  the identification;
* `Life`: a handler runs only in a live context, and the subscriber record lives as long as the
  context or the GSUP handler that holds it (`SubscriberOwned`);
* `Timers`: `mm->timer` runs only when the attach FSM is in Init, the FSM's timer in every
  other state until the context is freed (`TimersExclusive`, `AttachSupervised`);
* `Connected`: a Security Mode Command goes to a UE that has a connection, and whoever follows
  `ue_ctx` untested has it (`PointersSet`);
* `Trusting`: without authentication there is never a vector, a challenge or a cached
  "authenticate"; under an access list only a listed IMSI is told to be accepted;
* `Identified`: the IMSI is known after the identification (`AcceptIdentified`);
* `Identifying`, `Challenging`: nothing of an earlier procedure counts as the authentication
  of this attach, and in Authenticate the cached state and the vector belong to one
  challenge (`ChallengeHasVector`);
* `Located`, `Integrity`: what has been checked when `state_chg` is called with ACCEPT
  (`AcceptLocated`, `AcceptIntegrity`).  For the action properties it is proved that no other
  step enters WaitAttachComplete (`Accepting`).

A second part, `Asked`, is about the data of the subscriber: a challenge can be answered only in
Authenticate, the answer makes this attach ask the HLR, and from then on the record is authorised
with no answer due only if data came since then (`obs.loc`).  It needs `Inv`, and `Inv` does
not need it, so each step is shown to preserve `Inv` and, if it held, `Asked` (`Kept`).

The parts depend on each other.  That Authenticate holds a vector, for instance, needs that
`sgsn_auth_request` is called there only after the MS has answered (it would discard the
vector), hence that an old answer cannot have left `sec_ctx` set, hence what the
identification phase found, hence that no Identity Response is expected once the RA update
that runs beside the attach has sent a challenge of its own.  `Inv` and `Asked` were checked with TLC
on the instances of `GmmMixed.cfg` and `GmmIu.cfg`; `MaxExpiry`, `MaxVec` and `MaxOut` do not occur in it.

All these theorems hold for every set of configurations, number of vectors,
retransmissions and outstanding requests (`ConstAssumption`).

Only model-checked: liveness, which is out of the prover's reach.

## MmRegistry: which context a message belongs to

### State and actions

`reg` is `struct sgsn_instance` as far as it concerns MM contexts, and the list of
LLMEs: the contexts with their identities (`imsi`, `p_tmsi`, `p_tmsi_old`, `tlli`,
`tlli_new`, `ra`), their RAN with `gb.llme` or `iu.ue_ctx`, and the states of the GMM, MM
and PMM FSMs; the list of contexts and the five hashes, each a sequence per key with
the latest first, because a look-up takes the first that matches; and `status`,
which is "up" or says how the process ended.  `arrived` counts messages for the bound.

`reg.renamed` is history: the IMSIs that overwrote another one.

A message is one action, `rcvmsg_gb` or `rcvmsg_iu`: the look-up of the LLME and of the
context, the handler of the message, and the freeing of an LLME that nobody owns at the
end.  Operators that take and return a registry are named for the C functions
(`sgsn_mm_ctx_unlink`, `ptmsi_update`, `rat_change`, `id_resp`, ...).  The other actions are
`llme_check` (an idle LLME times out), `Cancelled` (a procedure ends by freeing the
context; why is the subject of `GmmContext`), `iu_free_ue` and `Restart`.

Contexts and LLMEs are memory that is used again.  A pointer to freed memory is one of
the values `Stray`, `Shared` and `Gone`, by the way it came to be; using it ends the process,
and so does the failing assertion of `mmctx.c:458`.  The runs go on with a new process.

### Run

`registry` has two subscribers, P-TMSIs, routing areas and connections, one random
TLLI (which both MSs may have chosen), memory for two contexts and two LLMEs, and five
messages in any order; releases, cancellations and LLME time-outs come in between
and are not counted.  Five messages are an attach, its completion and a second MS's
attach or a move between RANs, routing areas or connections.  With two P-TMSIs the
allocation finds one taken nearly always.  The sets are interchangeable, hence the symmetry.

* `IndexFresh`: a context is in each hash under its current key and no other, whatever
  handler changed the key.
* `PtmsiUnique`: a P-TMSI, new or old, belongs to one context.
* `ImsiUnique`: a subscriber has one context.  The exception is an IMSI with which an MS
  answered the Identity Request of a context that already had another one (`renamed`).
  The exception belongs to the IMSI, not to the context: with three contexts, one that
  was renamed and has since been freed leaves behind two others that share its IMSI, and
  neither of them was renamed.
* `GbHasLlme`: the handlers' untested `gb.llme` is never NULL on Gb.
* `UeLive`: no context on Iu points to a released connection, and no two to the same.

Seen while modelling and not the subject of a run: a context that changes to Iu
before its Attach Complete, or that a late Gb message found, still has its LLME, and
freeing it fails the assertion of `mmctx.c:458`; a message that belongs to no context frees
its LLME without asking whether a context has it (comment `gprs_gmm.c:1849`); two MSs with
the same random TLLI in different routing areas share an LLME; a repeated
inter-RA update is rejected and its context freed; an RA update found by P-TMSI keeps the old
LLME; an Attach Request whose TLLI matches a context keeps the IMSI of that context; a
TLLI of P-TMSI 0 matches every context without an old P-TMSI; an Iu context keeps Gb
TLLIs that may hide another context; a change from Iu to Gb before Attach Complete
leaves `iu.ue_ctx` set; a Service Request leaves the GMM FSM in COMMON_PROC_INIT.

### What is proved

`MmRegistryProofs` proves all six invariants of the run (`TypeCorrect`, `HashesFresh`,
`PtmsiOfOneContext`, `ImsiOfOneContext`, `LlmeOfGbContext`, `UeOfIuContext`) for every number
of subscribers, P-TMSIs, TLLIs, connections, contexts, LLMEs and messages.  It assumes that
`None`, which stands for an identity that was never assigned, is a member of none of these
sets.

The handlers are functions from registry to registry that call each other, so the inductive
invariant is a predicate `Good(r, X)` of a registry:

* `Exact`: the list of contexts holds what is allocated, once; each bucket of each hash holds
  exactly the contexts with that key, once; the list of LLMEs likewise;
* P-TMSIs, IMSIs and connections are not shared, up to the exceptions of the properties;
* every context outside `X` is `Settled`: on Gb it has an LLME, on Iu a live connection or none.

`X` is the context a handler is dealing with: a context that was just allocated has no
LLME, and one that is changing RAN has neither yet or both.  Between two inputs `X` is empty;
within one it has at most one member, which is what the lemmas named `...Good` end.
The strengthening is needed because no property stands alone: that no two contexts
get a P-TMSI needs that the hash finds the one that has it, which needs that whoever changes
an identity moves the context from bucket to bucket, which needs that the bucket held it
once.  A Gb context must also have a new TLLI, since an assignment that would
unassign both TLLIs would take its LLME away.

## Lists

A linked list of the code is a sequence.  `Kept(s, S)` is what is left of `s` after all
elements outside `S` were removed, in order; `ListsProofs` proves what it contains and that it
repeats nothing that `s` did not repeat.  This is induction over
the list: the library's induction theorems take a predicate as a parameter, which
the provers cannot instantiate, so the predicate is the set of the numbers it holds for and
the theorem is that a set of numbers with a member has a least one.  `PdpContext` removes
a PDP context from `pdp_list` with it, `MmRegistry` a context from its hashes, `GtpHub` what
has expired from its queues.

`Count(s, S)` is how many elements of `s` are in `S`, and what it becomes when an element is
added at either end, when one is removed and when all outside a set are.  `GtpHub` counts
references with it, `Bearer` the fields of a saved XID request.

## PdpContext: PDP contexts and their tunnels

### State and actions

| Variable | Code |
|---|---|
| `cfg` | the Gn policies (`sgsn_pdp_gn.c`) and the unreachable timer; and which RANs, requests and how much memory a configuration explores |
| `mm` | the MM context of the MS: GMM and PMM state, connection, unreachable timer, `ggsn_lookup`, `pdp_list`, RAB assignments under way |
| `pdp` | for each memory block a `struct sgsn_pdp_ctx` with its libgtp handle: state, T3395 with its count, CDR timer, GGSN, and which requests of the handle are unanswered |
| `lookups` | the GGSN look-ups the resolver has, and what their `mmctx` points to |
| `xfer` | a transfer to another SGSN that awaits its Ack (`sgsn_gtp_ctx.c`) |
| `noted` | whether the GGSN's restart counter is known |

Every operation on one context maps a record to a record, so a loop over the list is a
map.  `MsInput` are the SM messages, the PDP status IE of an RA update, and what the GMM
layer does to the context; `GgsnInput` the confirmations and indications of libgtp, echo
time-outs, recovery, look-ups and the context transfer; `IuInput` the PMM events, RNC
loss and RAB assignment responses; `TimerInput` T3395 and the unreachable timer.  libgtp
is external: a request is answered or times out, unless its handle is freed first.

Two things the code does end the model of a process (`Running`): a Delete Request for a
handle that has no GGSN address yet, and a look-up that calls back with a freed MM
context.  They are listed below.

### Runs

`pdp`: two static contexts on Gb; two look-ups for one NSAPI on Gb; one context of an MS
that moves between Gb and Iu, with GTP deletion on RNC loss; one on Iu with deletion on
Iu release.  `T339X_MAX_RETRANS` is 1 (4 in the code): a first and a last expiry.  An
answer of the GGSN may be late, malformed, refused, or a time-out, at any point of the
other inputs.  Deadlock is not checked, as the process may end.

* `HandleHasGgsn`, `LookupPointerLive`, `TimersLive`, `XferContextAlive`: what a callback follows
  without a test is there when it comes.
* `NsapiUnique`: although the look-up is between the test and the creation.
* `ReleasedSupervised`: a context whose GGSN side is gone has T3395.
* `UnreachableIdle`: the timer that deletes tunnels runs in PMM-IDLE on Iu only.
* `TunnelSpec`: each context implements `PdpTunnel`, the life of a tunnel: none, creating,
  up, closing, released, never backwards, and never for ever in a state that waits.
  `TunnelOf` is the refinement mapping: what is unanswered at the handle decides the
  state of the tunnel.

Fairness (`FairSpec`): libgtp retransmits and then times out, so a Create or a Delete
Request ends; T3395 expires while it is armed.  Nothing is assumed of the MS, the
resolver, the RNC or updates.

`pdp_orphan` refutes `OrphanAwaitsGtp`.  A context without an MM context is kept for
"pending callbacks in libgtp" (`pdpctx.c:129`), but the delete request is skipped unless the
state is CR_CONF (`sgsn_libgtp.c:567`), which only a RAB assignment response sets: on Gb,
a detached context stays for ever and its tunnel at the GGSN, too.

Seen while modelling and not the subject of a run: when T3395 is exhausted the delete is
skipped for the same reason; `sgsn_pdp_ctx_terminate` of a context whose GGSN is gone leaks
it ("abandoned" in `PdpTunnel`); a RAB response that fails before the Create Response sends a
Delete Request without addresses; a second look-up overwrites `ggsn_lookup`, and the
first keeps a pointer to an MM context that may be freed; a repeated Activate Request on
Gb is accepted before the GGSN has confirmed; after a look-up an NSAPI in use is not
rejected; a RAB response for an unknown NSAPI drops the connection in PMM-CONNECTED;
SNDCP is not deactivated when a GGSN deletes.

### What is proved

`PdpContextProofs` proves the eight invariants of the run and `TunnelRefinement`
(`Spec => Tunnel!SafeSpec`): every behaviour of the session management, seen through `TunnelOf`,
is one of `PdpTunnel` up to its liveness.  All hold for every number of contexts, NSAPIs,
look-ups and retransmissions and all Gn policies.

The argument has two layers.  `Consistent(c)` says what holds of one context between two
inputs (a handle has a GGSN and requests a handle; a timer has an MM context; a context
without a handle has T3395), and `Evolves(c, d)` that an operation made `d` of `c`, kept it
consistent and moved its tunnel forward.  Each operation of the code on one context is shown
to be such a step; each input applies such steps to one context or to all.  `Inv`
adds what relates contexts to the rest: `pdp_list` holds exactly the contexts that have the
MM context (`Listed`), a context has an MM context only while that exists (`Owned`), and a
look-up that still points to the MM context finds it alive, with an NSAPI and a TI that
a context may get (`LookupsOwned`).
`Listed` carries most of it: all that a detach, a GGSN restart or an RNC loss reaches are
the contexts on the list, so one that was left off would keep its timer and its pointer.

The liveness of `PdpTunnel` stays with TLC.

## GtpHub: the GTP proxy

### State and actions

The hub forwards GTP packets between SGSNs and GGSNs.  It replaces the TEIs the
GSNs announce by TEIs of its own, and sequence numbers by numbers of the
receiver's pool, and has to find the way back from both.

| Variable | Code |
|---|---|
| `hub.ports`, `hub.seq_pool` | the peers of the four binds: ports with `ref_count` and `last_restart_count`; a peer's sequence number pool |
| `hub.seq_map` | the `nr_mapping`s of all peers: an unanswered request sent to `peer` as `repl` that came from `origin` as `orig` |
| `hub.tunnels`, `hub.tun` | the list of tunnels and their contents; an element of `TunIds` is the memory of a tunnel, which a later one may reuse |
| `hub.tei_pool`, `hub.pending_deletes` | the TEI pool; Delete Requests waiting for a response |
| `hub.resolved`, `hub.lookups` | the cache of resolved GGSNs; look-ups under way |
| `queries` | what c-ares was asked and has not answered; `live` is FALSE when the look-up it will be given has been freed |
| `status` | "up", or the assertion, `abort()` or use of freed memory that ended the process |

The hub is one record because its functions pass it along: each operator that
takes and returns a hub is named for the C function it models, and an action
composes them in the code's order.  Where the code walks a list (`clear_sides`, `tunnels_del`,
the `..._expire` functions, the search of a free mapped TEI) the operator states what the walk
leaves rather than folding over the list.  `gtphub_handle_buf` is the actions `Rx...`, one per
way through it; each starts with what is common (`packet_desc`: sender, restart
counter, unmapping, look-up), and an early return keeps the changes made until then.
`ggsn_lookup_cb` is the four `Lookup...` actions, `Tick` the clock, `gc` the garbage
collection.  When the process dies, its service manager starts it again without
memory of the tunnels.

Left out: packets that `gtp_decode` refuses, Echo, IEs that are only rewritten, send
failures; a TEI IE with the value 0 is taken as absent.  A member of `Setups` is a
network: its proxy, its tunnel memory, and the datagrams the GSNs may send at any time, in any order and number: a lost,
repeated or late packet is one that is sent or not.

### Runs

| Run | Configuration | Properties |
|---|---|---|
| `gtphub` | two networks: a GGSN proxy with two tunnels, TEIs 1..2 and sequence numbers 0..1; no proxy, one tunnel, one APN to look up and all other kinds of packets | `TypeOK`, `RefCountsExact`, `TeiReplUnique`, `PeerTeiUnique`, `LookupsSupervised`, `InvalidatedForGood` |
| `gtphub_assert` | the second network | `TunnelKnown` is violated |

Bounds.  Pools of two numbers run around at once, which is what they have to
survive.  Two tunnels are enough for a reused TEI, a taken mapped TEI and an
exhausted range; they are interchangeable memory, hence the symmetry.  `Slow` is
one tick longer than `Quick`; `Quick` = 0 means that what is on the quick queue may be
gone at the next collection, which is also when nothing else has expired.  No
Create Request is taken while all of `TunIds` is in use.  Deadlock is checked.

### What the runs show

Every port's counter is exactly the number of references from tunnels, mappings,
cache and proxies, on every path that drops one (expiry, delete, reuse, restart of a
GSN), so nothing refers to a freed port.  Announced tunnels keep different mapped
TEIs also when the pool has run around, and no TEI of a GSN belongs to two
tunnels.  A tunnel side that a restart has cleared never gets a peer again.
An APN is pending exactly while one query can still answer it.

One disagreement with what the code says of itself:

* `gtphub_assert`: a packet with a receiver is asserted to have a tunnel
  (`gtphub.c:2290`, `1513`); a GSN that no longer knows the context answers with TEI 0,
  the sequence number gives the receiver, and the assertion fails.

Seen while modelling and not the subject of a run: `nr_pool_next` is to "Return the
next unused number" (`gtphub.h:300`) but counts and wraps, so that two packets to a
peer may share a sequence number and both answers go to the sender of the older
one; a failed look-up says "Need to try with three digits now" (`gtphub_ares.c:77`) but
asks for the same name again, because `make_addr_str` is not called a second time; a
look-up expires after 30 s while c-ares may still call back with it; a pending
delete keeps its pointer when the tunnel is freed (`gtphub.c:1690`); a request that a
GGSN starts is routed by a sequence number the hub happens to have mapped
(`gtphub.c:2014`); the mapped TEI is written into the IE (`gtphub.c:1601`) before
`gtphub_check_reused_teis` may replace a taken one in the tunnel (`1603`), so the packet would announce
the older value: `TeiReplUnique` is about the tunnels, not about the IEs, which are left out.

A Create Response that has the address of the GSN but no TEI moves an endpoint of a tunnel to
that address and keeps the TEI it had, without `gtphub_check_reused_teis` (`gtphub.c:1597`),
which is called for announced TEIs only.  So two tunnels may come to share a peer's TEI, where a
comment expects that "There shouldn't be any" (`gtphub.c:1331`).  `PeerTeiUnique` therefore presupposes
`AnnouncesTeis`, that address and TEI come together.  A proof of the property without that
condition failed at this step, and TLC then showed it on a network with such a packet.

### What is proved

`GtpHubProofs` proves the five invariants of the run and the action property
(`TypeCorrect`, `RefCounts`, `MappedTeisUnique`, `PeerTeisUnique`, `Lookups`,
`InvalidatedStays`) for every network, memory, pool size and lifetime.  `HubAssumption` asks that tunnel
memory is finite, that a network has no more tunnels than memory, that a user packet is one
on the User port, and that the values that stand for nothing are members of no set.

The functions pass the hub along, so the inductive invariant `Inv` is built of predicates of a hub:

* `Good`: the types; the list of tunnels is the tunnels in memory; the sequence number pools
  are those of the peers that have a port; and `Exact`, every port's counter is the number of
  references to it, and nothing refers to a port that is gone;
* `Settled`: `Good`, no two announced tunnels share a mapped TEI, and no two share a TEI of a peer;
* `Supervised`: an APN is looked up exactly while one live query is about it, and is in the
  cache at most once and not while it is looked up.

`Good` may not be left out of any part: that a mapping can be dropped needs that its port is
still there to be released, which needs that the counter was exact, also on the paths that
drop a tunnel and its mappings and the peer with them.  Each operator is shown to turn a hub
that is in order into one that is, and in what relation the new one is to the old: `Voids`
(peers were taken from tunnel sides, nothing else), `Keeps` (one side of one tunnel was
rewritten and others freed), `Described` (what `packet_desc` found), `Handled` (what a whole handler does).
`InvalidatedStays` is in these relations: none gives a side without a Ctrl peer one.

## SndcpXid and Bearer: the user plane on Gb

### State and actions

`SndcpXid` has no state: the encoders and decoders of LLC XID fields
(`gprs_llc_xid.c`) and of SNDCP compression fields (`gprs_sndcp_xid.c`), octet by octet, for
RFC 1144, RFC 2507, ROHC, V.42bis and V.44, and the completion of an answer from the
request.  `MCBearer` assumes, and TLC evaluates, that the two messages of
`tests/sndcp_xid` are decoded and encoded to themselves (`TestVectors`).

`Bearer` puts it between an SGSN and an MS.

| Variable | Code |
|---|---|
| `cfg` | header and data compression off, passive or active; ciphering; and what a scenario lets happen |
| `lle` | `struct gprs_llc_lle`: `vu_send`, `vu_recv`, overflow counters, `vu_recv_last` and `_duplicates`, the saved XID request |
| `comp` | `llme->comp`: the two lists of compression entities; `gen` counts how often they were freed |
| `sne` | per NSAPI: N-PDU number and `defrag` |
| `up`, `down` | the frames under way, in order |
| `ms` | the MS (external): its counters, entities, and reassembly |
| `obs` | what was sent, delivered and refused, and which faults happened |

`cb_data_ind` sends an N-PDU of the GGSN (compress, segment, number, cipher);
`rx_ui` receives a frame (window, decipher, reassemble, expand, deliver); `Activate`
and `sndcp_sm_deactivate_ind` come from SM; `gprs_llc_process_xid_ind` and `..._conf` handle XID.
An octet of an N-PDU is its N-PDU, place and compressions, so that a wrong length, order
or entity shows.  The MS is modelled from the protocol the code expects: it cuts, numbers
and compresses as the SGSN does, answers each XID field by refusing it, taking it, or
lowering a parameter, and sends no data while its own negotiation is under way.  The MS
finishes one negotiation before the next activation.

### Runs

`bearer` explores scenarios: lost segments; repeated frames; two cycles of frame numbers
with two NSAPIs, ciphered and not; an MS that restarts its numbering; negotiations by the
SGSN, with and without loss; proposals by the MS of all five algorithms.  A frame
carries 7 octets (500), so an N-PDU has one to three segments; numbers are modulo 8 (512)
with a window of 4 (32), so that cycles wrap.  Deadlock is not checked: a scenario ends.

* `UplinkIntact`: what is delivered to the GGSN is what the MS sent, whole and in order,
  although segments are lost.
* `BearerTransparent`: without faults nothing is missing in either direction.
* `RestartLearnt`: unciphered, with no frame repeated and at most one lost, an MS that restarts
  its numbering loses at most one frame each time.  This is what the code does, not what its comment
  says; that is the subject of `bearer_twice`.
* `CipherInStep`: the overflow counters of both sides agree.  With nothing lost or repeated no
  frame of an MS that goes on with its numbers is refused, ciphered or not, and none of the
  SGSN's is but the last of a cycle.
* `EntitiesUnique`: no two entities of a list have one number; `gprs_sndcp_comp_delete` ends at
  the first it finds.
* `EntitiesAgree`: after a negotiation both sides have the same entities, with the
  same algorithms, values, NSAPIs and parameters.

The properties name the faults they exclude, and each exclusion is something the code does
not survive: a lost first segment mixes two N-PDUs (`gprs_sndcp.c:462`, FIXME); a segment
that comes twice makes `tot_len` too long; a wipe of the entities hits an MS that still
compresses with them; a lost XID frame is not repeated, as there is no T200.  `oc_ui_send`
grows one frame before the number wraps (`gprs_llc.c:797`), so the last frame of a ciphered
cycle cannot be deciphered, which `CipherInStep` and `BearerTransparent` say; the loss of
that frame on the way up leaves `oc_recv` behind.

`bearer_wipe` refutes `DefragListsLive`: an activation wipes "possible leftovers from a
previous session" (`gprs_sndcp.c:1030`) by freeing the lists of the LLME, to which an N-PDU of
another NSAPI in reassembly still points (`gprs_sndcp.c:851`); a compressed one, as an expansion with
value 0 returns before it looks into a list.

`bearer_twice` refutes `RepetitionDiscarded`.  A number within the window of repetitions is to be passed
on when it came "for three times" (`gprs_llc.c:892`), but one that differs from the last such number is
passed on at once (`gprs_llc.c:896`): a UI frame that comes twice is delivered twice.

Malformed XID.  When a message of the MS is not decoded, `gprs_sndcp_decode_xid` frees the list of
fields (`gprs_sndcp_xid.c:1379`, `1389`, `1404`) and its caller frees it again (`1662`, `1678`); when a
parameter is absent the encoder of the answer fails an assertion (`gprs_sndcp_xid.c:110` and the
like); and the answer is written into as many octets as the indication had (`gprs_sndcp.c:1211`),
with an assertion on three.  The program does not survive these, so `gprs_llc_process_xid_ind` and
`..._conf` are guarded by their absence (`IndSurvived`, `ConfSurvived`); the MS of the scenarios sends
only messages that pass, and the same states are reached without the guards.  `EntitiesUnique` is
proved for every message the program survives.

Seen while modelling and not the subject of a run: overlapping activations answer one request with the XID of another; a field with P=0 deletes
the entity of that number of both classes; fragments leak on deactivation.

### What is proved

`BearerProofs` proves `TypeCorrect`, `CipherCounters` and `NumbersUnique` for every modulus of the
numbers, window, frame size and set of scenarios (`BearerAssumption`: at least two frame
numbers, a frame larger than its header, and scenarios of the type `ScenarioType`).

`CipherInStep` speaks of frames that were refused in the past.  Frame number and overflow counter
together are the place of a frame in the row of all frames sent; the SGSN counts the
last frame of a cycle one cycle ahead, which `Place` allows for.  The inductive invariant `Inv` is that, as
long as nothing was lost or repeated, the UI frames under way, in order, have exactly the
places from the one the receiver expects to the last one sent (`InRow`), so that what comes
next is what is expected.  The MS refuses the last frame of a ciphered cycle and still expects
it when the next one comes, which is the second case of `DownRow`.  What is said of the way up
ends when the MS restarts its numbering.

`NumbersUnique` has an invariant of its own (`CompOK`): each list of entities is a list without
a number that occurs twice.  A deletion of the first entity with a number then leaves none with it, and an
addition deletes before it adds.  The entities come from octets that the MS chose: for any
octets `decode_xid_block` yields a list of fields (induction over its passes), and so
does taking them in turn (`Handled`, induction over the fields).

Only model-checked: `UplinkIntact`, `BearerTransparent` and `EntitiesAgree`, which rest on what the
codec, compression and reassembly compute for every message and N-PDU; and `RestartLearnt`, which
holds up to a number of losses: when more than `NuMod - Window` frames in a row are lost the window
takes a frame for an old one.  The scenario loses one.

## Not modelled

* Message and frame formats other than XID, logging, statistics, the VTY and the HTTP API
  (except the operator's cancel), whose state is the configuration, a constant here.
* Imported compression algorithms, the cipher and the FCS, and the libraries (osmo_fsm,
  libgtp, libosmogb, c-ares, the GSUP client) other than as their users see them.
* The RNC FSM and SCCP connections (`iu_rnc_fsm.c`, `sccp.c`) and routing areas: they keep
  state of their own that the modelled parts do not read; planned last.
* Paging, RIM, and the target side of a context transfer: requests that are forwarded.
* Within `GmmContext`: identities and several contexts (see `MmRegistry`) and PDP contexts
  (see `PdpContext`).

What is proved altogether: 38 listed theorems in seven modules, on the lemmas about lists in
`ListsProofs`.  Checked by TLC only are

* liveness (`AttachEnds`, the liveness of `PdpTunnel`), which is out of the prover's reach;
* `EntitiesAgree`, `UplinkIntact` and `BearerTransparent`: they rest on what the folds of `SndcpXid`
  and `Bearer` compute for every message, and a fold takes its step as an operator, which the
  provers cannot instantiate;
* `RestartLearnt`, for the bound on losses given above;
* the disagreements of the six runs that expect a violation, which are counterexamples.
