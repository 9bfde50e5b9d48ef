---------------------------- MODULE ControlServer ----------------------------
(***************************************************************************)
(* The control servers of 9passthrough (control.go) and the queue of path  *)
(* requests they share (requests.go), over the path registry.              *)
(*                                                                         *)
(* The user's tool calls over a unix socket and may do everything.  The    *)
(* guest calls over TCP and may, with the token, only ask for a path: the  *)
(* handler of such a call creates a request, waits on its result channel   *)
(* and, once the user has approved it, exposes the path itself.  Approve,  *)
(* Deny and CloseAll run under the queue's mutex, AddPath and RemovePath   *)
(* under the registry's; between them everything interleaves.              *)
(***************************************************************************)
EXTENDS PathRegistry

CONSTANTS
    Requests,    \* "request" calls, each with an id of its own
    Wanted,      \* the path and the mode each of them asks for
    Fleeting     \* paths that may come and go on the host

ASSUME ControlAssumption ==
    /\ Wanted \in [Requests -> [path : Exposable, ro : BOOLEAN]]
    /\ Fleeting \subseteq Exposable

Origins == {"unix", "tcp"}

VARIABLES
    host,     \* the paths of Exposable that os.Stat finds
    status,   \* PathRequest.Status, "none" before Create
    result,   \* PathRequest.resultChan: empty, holding a result, or closed
    handler,  \* where handleRequestMethod of each request stands
    answer,   \* what the guest was answered
    phase,    \* main: serving, closing (after CloseAll), exited
    caller    \* whose call changed the registry or decided a request last

registryVars == vars
queueVars    == <<status, result, handler, answer>>
controlVars  == <<registryVars, host, queueVars, phase, caller>>

ControlTypeOK ==
    /\ TypeOK
    /\ host \subseteq Exposable
    /\ status \in [Requests -> {"none", "pending", "approved", "denied"}]
    /\ result \in [Requests -> {"empty", "approved", "denied", "closed"}]
    /\ handler \in [Requests -> {"none", "waiting", "expose", "done"}]
    /\ answer \in [Requests -> {"none", "approved", "denied", "failed"}]
    /\ phase \in {"serving", "closing", "exited"}
    /\ caller \in Origins \cup {"none", "request"}

\* The servers are up.  Paths of the command line went through AddPath before.
ControlInit ==
    /\ Init
    /\ host = Exposable
    /\ status = [r \in Requests |-> "none"]
    /\ result = [r \in Requests |-> "empty"]
    /\ handler = [r \in Requests |-> "none"]
    /\ answer = [r \in Requests |-> "none"]
    /\ phase = "serving"
    /\ caller = "none"

Up == phase # "exited"

-----------------------------------------------------------------------------
(* Calls *)

\* Mutant: the token is enough for any method.
TokenIsEnough(o, method, token) == o = "unix" \/ token

\* The unix socket is protected by its mode; over TCP only "request" exists.
authenticateRequest(o, method, token) ==
    o = "unix" \/ (method = "request" /\ token)

\* AddPath of a path that exists on the host.
Add(p, ro) == p \in host /\ (AddPath(p, ro) \/ AddPathAgain(p, ro))

handleExpose(o, token, p, ro) ==
    /\ Up
    /\ authenticateRequest(o, "expose", token)
    /\ Add(p, ro)
    /\ caller' = o
    /\ UNCHANGED <<host, queueVars, phase>>

handleUnexpose(o, token, p) ==
    /\ Up
    /\ authenticateRequest(o, "unexpose", token)
    /\ RemovePath(p)
    /\ caller' = o
    /\ UNCHANGED <<host, queueVars, phase>>

\* Create; the handler goes on to Wait, without a deadline.
handleRequestMethod(o, token, r) ==
    /\ Up
    /\ authenticateRequest(o, "request", token)
    /\ status[r] = "none"
    /\ status' = [status EXCEPT ![r] = "pending"]
    /\ handler' = [handler EXCEPT ![r] = "waiting"]
    /\ UNCHANGED <<registryVars, host, result, answer, phase, caller>>

\* Mutant: the status is left pending.
ResolveKeepsPending(r, s) ==
    /\ status[r] = "pending"
    /\ result' = [result EXCEPT ![r] = s]
    /\ UNCHANGED status

\* Approve or Deny: only a pending request is resolved.
Resolve(r, s) ==
    /\ status[r] = "pending"
    /\ status' = [status EXCEPT ![r] = s]
    /\ result' = [result EXCEPT ![r] = s]

\* The user is answered "Request approved and path exposed" here already.
handleReqApprove(o, token, r) ==
    /\ Up
    /\ authenticateRequest(o, "req-approve", token)
    /\ Resolve(r, "approved")
    /\ caller' = o
    /\ UNCHANGED <<registryVars, host, handler, answer, phase>>

handleReqDeny(o, token, r) ==
    /\ Up
    /\ authenticateRequest(o, "req-deny", token)
    /\ Resolve(r, "denied")
    /\ caller' = o
    /\ UNCHANGED <<registryVars, host, handler, answer, phase>>

-----------------------------------------------------------------------------
(* The waiting handlers *)

\* Mutant: only a denial that was sent counts, a closed channel does not.
WaitTrustsClosed(r) ==
    /\ Up
    /\ handler[r] = "waiting"
    /\ result[r] # "empty"
    /\ result' = [result EXCEPT ![r] = IF @ = "closed" THEN @ ELSE "empty"]
    /\ IF result[r] = "denied"
         THEN /\ handler' = [handler EXCEPT ![r] = "done"]
              /\ answer' = [answer EXCEPT ![r] = "denied"]
         ELSE /\ handler' = [handler EXCEPT ![r] = "expose"]
              /\ UNCHANGED answer
    /\ UNCHANGED <<registryVars, host, status, phase, caller>>

\* A closed channel yields the zero result, which is a denial.
Wait(r) ==
    /\ Up
    /\ handler[r] = "waiting"
    /\ result[r] # "empty"
    /\ result' = [result EXCEPT ![r] = IF @ = "closed" THEN @ ELSE "empty"]
    /\ IF result[r] = "approved"
         THEN /\ handler' = [handler EXCEPT ![r] = "expose"]
              /\ UNCHANGED answer
         ELSE /\ handler' = [handler EXCEPT ![r] = "done"]
              /\ answer' = [answer EXCEPT ![r] = "denied"]
    /\ UNCHANGED <<registryVars, host, status, phase, caller>>

Answer(r, a) ==
    /\ Up
    /\ handler[r] = "expose"
    /\ handler' = [handler EXCEPT ![r] = "done"]
    /\ answer' = [answer EXCEPT ![r] = a]
    /\ UNCHANGED <<host, status, result, phase>>

\* Mutant: the mode that was asked for is lost on the way.
ExposeWritable(r) ==
    /\ Answer(r, "approved")
    /\ Add(Wanted[r].path, FALSE)
    /\ caller' = "request"

ExposeApproved(r) ==
    /\ Answer(r, "approved")
    /\ Add(Wanted[r].path, Wanted[r].ro)
    /\ caller' = "request"

\* The path is gone by now: only the guest learns of it.
ExposeFails(r) ==
    /\ Answer(r, "failed")
    /\ Wanted[r].path \notin host
    /\ UNCHANGED <<registryVars, caller>>

-----------------------------------------------------------------------------
(* main and the host *)

Pending == {r \in Requests : status[r] = "pending"}

\* Mutant: the waiting handlers are not woken.
CloseForgets ==
    /\ status' = [r \in Requests |->
                    IF r \in Pending THEN "denied" ELSE status[r]]
    /\ UNCHANGED result

CloseAll ==
    /\ status' = [r \in Requests |->
                    IF r \in Pending THEN "denied" ELSE status[r]]
    /\ result' = [r \in Requests |->
                    IF r \in Pending THEN "closed" ELSE result[r]]

\* The signal goroutine; the control servers go on until main returns.
Shutdown ==
    /\ phase = "serving"
    /\ CloseAll
    /\ phase' = "closing"
    /\ UNCHANGED <<registryVars, host, handler, answer, caller>>

Exit ==
    /\ phase = "closing"
    /\ phase' = "exited"
    /\ UNCHANGED <<registryVars, host, queueVars, caller>>

HostChanges(p) ==
    /\ Up
    /\ host' = IF p \in host THEN host \ {p} ELSE host \cup {p}
    /\ UNCHANGED <<registryVars, queueVars, phase, caller>>

Ended == phase = "exited" /\ UNCHANGED controlVars

-----------------------------------------------------------------------------
Call(o, token) ==
    \/ \E p \in Exposable, ro \in BOOLEAN : handleExpose(o, token, p, ro)
    \/ \E p \in Exposable : handleUnexpose(o, token, p)
    \/ \E r \in Requests : \/ handleRequestMethod(o, token, r)
                           \/ handleReqApprove(o, token, r)
                           \/ handleReqDeny(o, token, r)

Handle(r) == Wait(r) \/ ExposeApproved(r) \/ ExposeFails(r)

ControlNext ==
    \/ \E o \in Origins, token \in BOOLEAN : Call(o, token)
    \/ \E r \in Requests : Handle(r)
    \/ \E p \in Fleeting : HostChanges(p)
    \/ Shutdown \/ Exit \/ Ended

ControlSpec == ControlInit /\ [][ControlNext]_controlVars

\* Runnable handlers run.  Nobody has to answer a request.
ControlFairSpec ==
    ControlSpec /\ \A r \in Requests : WF_controlVars(Handle(r))

-----------------------------------------------------------------------------
(* Properties *)

\* A request is pending only while its channel is empty and open, and at most
\* one result is ever put into it: the send in Approve and Deny, made with the
\* queue's mutex held, neither blocks nor meets a channel CloseAll closed.
OneResult ==
    \A r \in Requests :
        /\ status[r] \in {"none", "pending"} => result[r] = "empty"
        /\ handler[r] = "waiting" /\ status[r] # "pending" => result[r] # "empty"
        /\ handler[r] \in {"expose", "done"} => result[r] \in {"empty", "closed"}

\* The guest is answered what was decided, also when a shutdown races the
\* user's decision: an approval is not turned into a denial nor the reverse.
AnswerIsDecision ==
    \A r \in Requests :
        /\ answer[r] \in {"approved", "failed"} => status[r] = "approved"
        /\ answer[r] = "denied" => status[r] = "denied"
        /\ handler[r] = "expose" => status[r] = "approved"

\* What a guest may see changes only by a call on the unix socket, or by a
\* request the user approved, and then by the path that was asked for.
GuestNeedsApproval ==
    [][exposed' # exposed \/ readOnly' # readOnly =>
         \/ caller' = "unix"
         \/ \E r \in Requests :
               /\ status[r] = "approved"
               /\ answer[r] = "none" /\ answer'[r] = "approved"
               /\ exposed' = exposed \cup {Wanted[r].path}]_controlVars

\* A request that was decided is answered, unless the process ends first.
DecidedIsAnswered ==
    \A r \in Requests :
        status[r] \in {"approved", "denied"} ~>
            answer[r] # "none" \/ phase = "exited"

\* What all this is for, seen by the user: whatever calls, handlers and the
\* shutdown do, what the guest sees is what the user shared or approved, each
\* request with its own path and mode, and an approval opens a path only once.
Sharing == INSTANCE PathSharing
           WITH decision <- status,
                closed <- phase # "serving"
IsPathSharing == Sharing!Spec

=============================================================================
