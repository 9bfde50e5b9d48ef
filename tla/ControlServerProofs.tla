------------------------ MODULE ControlServerProofs ------------------------
(***************************************************************************)
(* The request queue, for any number of requests, paths and calls: every   *)
(* decision reaches the guest once and as it was taken, and nothing but a  *)
(* call of the user or an approved request changes what a guest may see;   *)
(* the registry they share answers exactly throughout; and the whole       *)
(* implements the sharing of paths that the user was promised.             *)
(***************************************************************************)
EXTENDS ControlServer, PathRegistryProofs, TLAPS

\* Typing of the queue's own variables; the registry's are not needed here.
QueueTypeOK ==
    /\ status \in [Requests -> {"none", "pending", "approved", "denied"}]
    /\ result \in [Requests -> {"empty", "approved", "denied", "closed"}]
    /\ handler \in [Requests -> {"none", "waiting", "expose", "done"}]
    /\ answer \in [Requests -> {"none", "approved", "denied", "failed"}]

\* How a request's stages go together: it is pending exactly until its result
\* is in the channel, and the result that waits there is the decision.
StagesAgree ==
    \A r \in Requests :
        /\ handler[r] = "none" <=> status[r] = "none"
        /\ status[r] = "pending" => handler[r] = "waiting"
        /\ handler[r] # "done" => answer[r] = "none"
        /\ result[r] = "approved" => status[r] = "approved"
        /\ result[r] \in {"denied", "closed"} => status[r] = "denied"

QueueInv == QueueTypeOK /\ StagesAgree /\ OneResult /\ AnswerIsDecision

LEMMA QueueFrame == QueueInv /\ UNCHANGED queueVars => QueueInv'
BY DEF QueueInv, QueueTypeOK, StagesAgree, OneResult, AnswerIsDecision, queueVars

LEMMA QueueInductive == QueueInv /\ [ControlNext]_controlVars => QueueInv'
<1> SUFFICES ASSUME QueueInv, [ControlNext]_controlVars PROVE QueueInv'
  OBVIOUS
<1>1. ASSUME NEW o \in Origins, NEW token \in BOOLEAN, Call(o, token)
      PROVE  QueueInv'
  <2>1. CASE \/ \E p \in Exposable, ro \in BOOLEAN : handleExpose(o, token, p, ro)
             \/ \E p \in Exposable : handleUnexpose(o, token, p)
    BY <2>1, QueueFrame DEF handleExpose, handleUnexpose
  <2>2. ASSUME NEW r \in Requests,
               \/ handleRequestMethod(o, token, r)
               \/ handleReqApprove(o, token, r)
               \/ handleReqDeny(o, token, r)
        PROVE  QueueInv'
    BY <2>2 DEF QueueInv, QueueTypeOK, StagesAgree, OneResult, AnswerIsDecision,
       handleRequestMethod, handleReqApprove, handleReqDeny, Resolve
  <2> QED
    BY <1>1, <2>1, <2>2 DEF Call
<1>2. ASSUME NEW r \in Requests, Handle(r) PROVE QueueInv'
  <2> USE DEF QueueInv, QueueTypeOK, StagesAgree, OneResult, AnswerIsDecision
  <2>1. CASE Wait(r)
    BY <2>1 DEF Wait
  <2>2. CASE ExposeApproved(r)
    BY <2>2 DEF ExposeApproved, Answer
  <2>3. CASE ExposeFails(r)
    BY <2>3 DEF ExposeFails, Answer
  <2> QED
    BY <1>2, <2>1, <2>2, <2>3 DEF Handle
<1>3. CASE Shutdown
  BY <1>3 DEF Shutdown, CloseAll, Pending, QueueInv, QueueTypeOK, StagesAgree,
     OneResult, AnswerIsDecision
<1>4. CASE \/ \E p \in Fleeting : HostChanges(p)
           \/ Exit \/ Ended \/ UNCHANGED controlVars
  BY <1>4, QueueFrame DEF HostChanges, Exit, Ended, controlVars
<1> QED
  BY <1>1, <1>2, <1>3, <1>4 DEF ControlNext

LEMMA QueueInvariant == ControlSpec => []QueueInv
<1>1. ControlInit => QueueInv
  BY DEF ControlInit, QueueInv, QueueTypeOK, StagesAgree, OneResult,
     AnswerIsDecision
<1> QED
  BY <1>1, QueueInductive, PTL DEF ControlSpec

\* The sends in Approve and Deny never block and never meet a closed channel,
\* however decisions and the shutdown interleave.
THEOREM ResultIsSentOnce == ControlSpec => []OneResult
BY QueueInvariant, PTL DEF QueueInv

\* A guest is answered what was decided.
THEOREM AnswersAreDecisions == ControlSpec => []AnswerIsDecision
BY QueueInvariant, PTL DEF QueueInv

-----------------------------------------------------------------------------
\* One step: the registry changes only by a call that authenticateRequest lets
\* through, which TCP callers have none of, or by an approved request.
GuestStep ==
    exposed' # exposed \/ readOnly' # readOnly =>
        \/ caller' = "unix"
        \/ \E r \in Requests :
              /\ status[r] = "approved"
              /\ answer[r] = "none" /\ answer'[r] = "approved"
              /\ exposed' = exposed \cup {Wanted[r].path}

LEMMA GuestStepHolds == QueueInv /\ [ControlNext]_controlVars => GuestStep
<1> SUFFICES ASSUME QueueInv, [ControlNext]_controlVars PROVE GuestStep
  OBVIOUS
<1>1. ASSUME NEW o \in Origins, NEW token \in BOOLEAN, Call(o, token)
      PROVE  GuestStep
  <2>1. CASE \/ \E p \in Exposable, ro \in BOOLEAN : handleExpose(o, token, p, ro)
             \/ \E p \in Exposable : handleUnexpose(o, token, p)
    BY <2>1 DEF handleExpose, handleUnexpose, authenticateRequest, GuestStep
  <2>2. CASE \E r \in Requests : \/ handleRequestMethod(o, token, r)
                                 \/ handleReqApprove(o, token, r)
                                 \/ handleReqDeny(o, token, r)
    BY <2>2 DEF handleRequestMethod, handleReqApprove, handleReqDeny, GuestStep,
       registryVars, vars
  <2> QED
    BY <1>1, <2>1, <2>2 DEF Call
<1>2. ASSUME NEW r \in Requests, Handle(r) PROVE GuestStep
  <2>1. CASE ExposeApproved(r)
    <3>1. /\ status[r] = "approved"
          /\ answer[r] = "none" /\ answer'[r] = "approved"
      BY <2>1 DEF ExposeApproved, Answer, QueueInv, QueueTypeOK, StagesAgree,
         AnswerIsDecision
    <3>2. exposed' = exposed \cup {Wanted[r].path}
      BY <2>1 DEF ExposeApproved, Add, AddPath, AddPathAgain
    <3> QED
      BY <3>1, <3>2 DEF GuestStep
  <2>2. CASE Wait(r) \/ ExposeFails(r)
    BY <2>2 DEF Wait, ExposeFails, registryVars, vars, GuestStep
  <2> QED
    BY <1>2, <2>1, <2>2 DEF Handle
<1>3. CASE \/ \E p \in Fleeting : HostChanges(p)
           \/ Shutdown \/ Exit \/ Ended \/ UNCHANGED controlVars
  BY <1>3 DEF HostChanges, Shutdown, Exit, Ended, controlVars, registryVars, vars,
     GuestStep
<1> QED
  BY <1>1, <1>2, <1>3 DEF ControlNext

\* A guest changes what it may see only through a request the user approved,
\* and then by the path it asked for.
THEOREM GuestsNeedApproval == ControlSpec => GuestNeedsApproval
<1>1. QueueInv /\ [ControlNext]_controlVars => [GuestStep]_controlVars
  BY GuestStepHolds
<1> QED
  BY <1>1, QueueInvariant, PTL DEF ControlSpec, GuestNeedsApproval, GuestStep

-----------------------------------------------------------------------------
(* The registry under concurrent calls and handlers *)

LEMMA RegistryMoves == [ControlNext]_controlVars => Next \/ UNCHANGED vars
<1> SUFFICES ASSUME [ControlNext]_controlVars PROVE Next \/ UNCHANGED vars
  OBVIOUS
<1>1. ASSUME NEW p \in Exposable, NEW ro \in BOOLEAN, Add(p, ro) PROVE Next
  BY <1>1 DEF Add, Next
<1>2. ASSUME NEW o \in Origins, NEW token \in BOOLEAN, Call(o, token)
      PROVE  Next \/ UNCHANGED vars
  <2>1. CASE \E p \in Exposable, ro \in BOOLEAN : handleExpose(o, token, p, ro)
    BY <2>1, <1>1 DEF handleExpose
  <2>2. CASE \E p \in Exposable : handleUnexpose(o, token, p)
    BY <2>2 DEF handleUnexpose, Next
  <2>3. CASE \E r \in Requests : \/ handleRequestMethod(o, token, r)
                                 \/ handleReqApprove(o, token, r)
                                 \/ handleReqDeny(o, token, r)
    BY <2>3 DEF handleRequestMethod, handleReqApprove, handleReqDeny, registryVars
  <2> QED
    BY <1>2, <2>1, <2>2, <2>3 DEF Call
<1>3. ASSUME NEW r \in Requests, Handle(r) PROVE Next \/ UNCHANGED vars
  <2>1. Wanted[r].path \in Exposable /\ Wanted[r].ro \in BOOLEAN
    BY ControlAssumption
  <2>2. CASE ExposeApproved(r)
    BY <2>1, <2>2, <1>1 DEF ExposeApproved
  <2>3. CASE Wait(r) \/ ExposeFails(r)
    BY <2>3 DEF Wait, ExposeFails, registryVars
  <2> QED
    BY <1>3, <2>2, <2>3 DEF Handle
<1>4. CASE \/ \E p \in Fleeting : HostChanges(p)
           \/ Shutdown \/ Exit \/ Ended \/ UNCHANGED controlVars
  BY <1>4 DEF HostChanges, Shutdown, Exit, Ended, controlVars, registryVars
<1> QED
  BY <1>2, <1>3, <1>4 DEF ControlNext

LEMMA SharedRegistryInvariant == ControlSpec => []RegistryInv
<1>1. ControlInit => RegistryInv
  BY InitRegistry DEF ControlInit
<1>2. RegistryInv /\ [ControlNext]_controlVars => RegistryInv'
  BY RegistryMoves, RegistryInductive
<1> QED
  BY <1>1, <1>2, PTL DEF ControlSpec

\* However the user's calls and the handlers of approved requests interleave,
\* CheckPath answers what the exposed paths call for.
THEOREM SharedTrieIsExact == ControlSpec => []CheckPathExact
BY SharedRegistryInvariant, CheckPathIsExact, PTL

\* And so do the listings of virtual directories.
THEOREM SharedListsAreExact == ControlSpec => []ChildrenLeadSomewhere
BY SharedRegistryInvariant, ChildrenAreExact, PTL
-----------------------------------------------------------------------------
(* Sharing as the user sees it *)

LEMMA AddShares ==
    ASSUME RegistryInv, NEW p, NEW ro \in BOOLEAN, Add(p, ro)
    PROVE  Sharing!Share(p, ro)
<1>1. readOnly \subseteq exposed
  BY DEF RegistryInv, TypeOK
<1>2. CASE AddPath(p, ro)
  BY <1>1, <1>2 DEF AddPath, Sharing!Share
<1>3. CASE AddPathAgain(p, ro)
  BY <1>3 DEF AddPathAgain, Sharing!Share
<1> QED
  BY <1>2, <1>3 DEF Add

\* What neither answers, decides nor shares is not seen by the user.
LEMMA SharingBlind ==
    ASSUME UNCHANGED <<exposed, readOnly, status, answer, caller>>,
           (phase' # "serving") <=> (phase # "serving")
    PROVE  UNCHANGED Sharing!vars
BY DEF Sharing!vars, Sharing!sharing

LEMMA CallShares ==
    ASSUME RegistryInv, QueueInv,
           NEW o \in Origins, NEW token \in BOOLEAN, Call(o, token)
    PROVE  Sharing!Next
<1>1. ASSUME NEW p \in Exposable, NEW ro \in BOOLEAN, handleExpose(o, token, p, ro)
      PROVE  Sharing!UserShares(p, ro)
  BY <1>1, AddShares
     DEF handleExpose, authenticateRequest, queueVars, Sharing!UserShares
<1>2. ASSUME NEW p \in Exposable, handleUnexpose(o, token, p)
      PROVE  Sharing!UserWithdraws(p)
  BY <1>2 DEF handleUnexpose, authenticateRequest, RemovePath, queueVars,
     Sharing!UserWithdraws
<1>3. ASSUME NEW r \in Requests, handleRequestMethod(o, token, r)
      PROVE  Sharing!GuestAsks(r)
  BY <1>3 DEF handleRequestMethod, registryVars, vars, Sharing!GuestAsks,
     Sharing!sharing
<1>4. ASSUME NEW r \in Requests, handleReqApprove(o, token, r)
      PROVE  Sharing!UserDecides(r, "approved")
  BY <1>4 DEF handleReqApprove, authenticateRequest, Resolve, registryVars, vars,
     Sharing!UserDecides, Sharing!sharing
<1>5. ASSUME NEW r \in Requests, handleReqDeny(o, token, r)
      PROVE  Sharing!UserDecides(r, "denied")
  BY <1>5 DEF handleReqDeny, authenticateRequest, Resolve, registryVars, vars,
     Sharing!UserDecides, Sharing!sharing
<1> QED
  BY <1>1, <1>2, <1>3, <1>4, <1>5 DEF Call, Sharing!Next

LEMMA HandlerShares ==
    ASSUME RegistryInv, QueueInv, NEW r \in Requests, Handle(r)
    PROVE  Sharing!Next \/ UNCHANGED Sharing!vars
<1>1. CASE Wait(r) /\ result[r] = "approved"
  BY <1>1, SharingBlind DEF Wait, registryVars, vars
<1>2. CASE Wait(r) /\ result[r] # "approved"
  <2>1. status[r] = "denied" /\ answer[r] = "none"
    BY <1>2 DEF Wait, QueueInv, QueueTypeOK, StagesAgree
  <2>2. Sharing!Refuse(r)
    BY <1>2, <2>1 DEF Wait, registryVars, vars, Sharing!Refuse, Sharing!Answer,
       Sharing!sharing
  <2> QED
    BY <2>2 DEF Sharing!Next
<1>3. CASE ExposeApproved(r) \/ ExposeFails(r)
  <2>1. status[r] = "approved" /\ answer[r] = "none"
    BY <1>3 DEF ExposeApproved, ExposeFails, Answer, QueueInv, StagesAgree,
       AnswerIsDecision
  <2>2. ASSUME ExposeApproved(r) PROVE Sharing!Serve(r)
    <3>1. Wanted[r].ro \in BOOLEAN
      BY ControlAssumption
    <3> QED
      BY <2>1, <2>2, <3>1, AddShares
         DEF ExposeApproved, Answer, Sharing!Serve, Sharing!Answer
  <2>3. ASSUME ExposeFails(r) PROVE Sharing!Fail(r)
    BY <2>1, <2>3 DEF ExposeFails, Answer, registryVars, vars, Sharing!Fail,
       Sharing!Answer, Sharing!sharing
  <2> QED
    BY <1>3, <2>2, <2>3 DEF Sharing!Next
<1> QED
  BY <1>1, <1>2, <1>3 DEF Handle

LEMMA SharingStep ==
    RegistryInv /\ QueueInv /\ [ControlNext]_controlVars
        => [Sharing!Next]_(Sharing!vars)
<1> SUFFICES ASSUME RegistryInv, QueueInv, [ControlNext]_controlVars
             PROVE  Sharing!Next \/ UNCHANGED Sharing!vars
  OBVIOUS
<1>1. CASE Shutdown
  <2>1. Sharing!Close
    BY <1>1 DEF Shutdown, CloseAll, Pending, registryVars, vars, Sharing!Close,
       Sharing!sharing
  <2> QED
    BY <2>1 DEF Sharing!Next
<1>2. CASE \/ \E p \in Fleeting : HostChanges(p)
           \/ Exit \/ Ended \/ UNCHANGED controlVars
  BY <1>2, SharingBlind
     DEF HostChanges, Exit, Ended, controlVars, queueVars, registryVars, vars
<1> QED
  BY <1>1, <1>2, CallShares, HandlerShares DEF ControlNext

LEMMA SharingInitially == ControlInit => Sharing!Init
BY DEF ControlInit, Init, Sharing!Init

\* The servers, the queue, the handlers and the shutdown together implement
\* what the user was promised, for any paths, requests and interleaving: no
\* guest decides its own request, no mode is lost, no approval counts twice.
THEOREM ServersSharePaths == ControlSpec => IsPathSharing
<1>1. RegistryInv /\ QueueInv /\ [ControlNext]_controlVars
        => [Sharing!Next]_(Sharing!vars)
  BY SharingStep
<1> QED
  BY <1>1, SharingInitially, SharedRegistryInvariant, QueueInvariant, PTL
     DEF ControlSpec, IsPathSharing, Sharing!Spec
=============================================================================
