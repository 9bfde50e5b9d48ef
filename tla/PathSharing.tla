----------------------------- MODULE PathSharing -----------------------------
(***************************************************************************)
(* What 9passthrough promises the user whose paths a guest may ask for,    *)
(* with no sockets, channels, handlers or trie in it: what is shared       *)
(* changes by the user's own calls and, once for each request that the     *)
(* user approved, by just the path and the mode asked for.  A request is   *)
(* decided once, by the user or by the shutdown, and the decision is all   *)
(* that its guest is ever answered.  ControlServer implements it.          *)
(***************************************************************************)
CONSTANTS
    Exposable,   \* the paths that may be exposed
    Requests,    \* the guest's requests
    Wanted       \* the path and the mode each of them asks for

VARIABLES
    exposed,     \* the paths the guest may see
    readOnly,    \* those of them it may not change
    decision,    \* what became of each request: none, pending, approved, denied
    answer,      \* what its guest was answered: none, approved, denied, failed
    caller,      \* who shared a path or decided a request last
    closed       \* the server has been told to end

sharing == <<exposed, readOnly>>
vars == <<sharing, decision, answer, caller, closed>>

Init ==
    /\ exposed = {} /\ readOnly = {}
    /\ decision = [r \in Requests |-> "none"]
    /\ answer = [r \in Requests |-> "none"]
    /\ caller = "none"
    /\ closed = FALSE

\* The path is shared in this mode from now on, whether it was before or not.
Share(p, ro) ==
    /\ exposed' = exposed \cup {p}
    /\ readOnly' = IF ro THEN readOnly \cup {p} ELSE readOnly \ {p}

\* The user owns the socket "unix".
UserShares(p, ro) ==
    /\ Share(p, ro)
    /\ caller' = "unix"
    /\ UNCHANGED <<decision, answer, closed>>

UserWithdraws(p) ==
    /\ exposed' = exposed \ {p}
    /\ readOnly' = readOnly \ {p}
    /\ caller' = "unix"
    /\ UNCHANGED <<decision, answer, closed>>

GuestAsks(r) ==
    /\ decision[r] = "none"
    /\ decision' = [decision EXCEPT ![r] = "pending"]
    /\ UNCHANGED <<sharing, answer, caller, closed>>

UserDecides(r, d) ==
    /\ decision[r] = "pending"
    /\ decision' = [decision EXCEPT ![r] = d]
    /\ caller' = "unix"
    /\ UNCHANGED <<sharing, answer, closed>>

\* The shutdown denies, once, whatever nobody has decided.
Close ==
    /\ ~closed
    /\ closed' = TRUE
    /\ decision' = [r \in Requests |->
                      IF decision[r] = "pending" THEN "denied" ELSE decision[r]]
    /\ UNCHANGED <<sharing, answer, caller>>

\* A decided request is answered at most once.
Answer(r, d, a) ==
    /\ decision[r] = d
    /\ answer[r] = "none"
    /\ answer' = [answer EXCEPT ![r] = a]
    /\ UNCHANGED <<decision, closed>>

Serve(r) ==
    /\ Answer(r, "approved", "approved")
    /\ Share(Wanted[r].path, Wanted[r].ro)
    /\ caller' = "request"

\* The path was approved, and could not be shared any more.
Fail(r) == Answer(r, "approved", "failed") /\ UNCHANGED <<sharing, caller>>

Refuse(r) == Answer(r, "denied", "denied") /\ UNCHANGED <<sharing, caller>>

Next ==
    \/ \E p \in Exposable, ro \in BOOLEAN : UserShares(p, ro)
    \/ \E p \in Exposable : UserWithdraws(p)
    \/ \E r \in Requests :
          \/ GuestAsks(r) \/ UserDecides(r, "approved") \/ UserDecides(r, "denied")
          \/ Serve(r) \/ Fail(r) \/ Refuse(r)
    \/ Close

Spec == Init /\ [][Next]_vars

==============================================================================
