---------------------------- MODULE ApprovalPromise ----------------------------
(***************************************************************************)
(* What the approval of a sensitive command promises: the command runs at   *)
(* most once, only after the user approved it, and never once the request   *)
(* was denied or has expired.                                               *)
(***************************************************************************)
CONSTANT Requests

VARIABLES
    verdict,        \* what became of each request
    command,        \* what became of its command
    consent         \* the decisions the user has made

Init ==
    /\ verdict = [r \in Requests |-> "none"]
    /\ command = [r \in Requests |-> "none"]
    /\ consent = [r \in Requests |-> {}]

Resolve(r, from, to) ==
    /\ verdict[r] = from
    /\ verdict' = [verdict EXCEPT ![r] = to]
    /\ UNCHANGED <<command, consent>>

Ask(r) == Resolve(r, "none", "pending")
Approve(r) == "approve" \in consent[r] /\ Resolve(r, "pending", "approved")
Deny(r) == "deny" \in consent[r] /\ Resolve(r, "pending", "denied")
Expire(r) == Resolve(r, "pending", "expired")

Decide(r, d) ==
    /\ verdict[r] # "none"
    /\ consent' = [consent EXCEPT ![r] = @ \cup {d}]
    /\ UNCHANGED <<verdict, command>>

Run(r) ==
    /\ verdict[r] = "approved" /\ command[r] = "none"
    /\ command' \in {[command EXCEPT ![r] = "running"], [command EXCEPT ![r] = "failed"]}
    /\ UNCHANGED <<verdict, consent>>

End(S) ==
    /\ \A r \in S : command[r] = "running"
    /\ command' = [r \in Requests |-> IF r \in S THEN "over" ELSE command[r]]
    /\ UNCHANGED <<verdict, consent>>

Next ==
    \/ \E r \in Requests :
          \/ Ask(r) \/ Approve(r) \/ Deny(r) \/ Expire(r) \/ Run(r)
          \/ \E d \in {"approve", "deny"} : Decide(r, d)
    \/ \E S \in SUBSET Requests : End(S)

Spec == Init /\ [][Next]_<<verdict, command, consent>>
=============================================================================
