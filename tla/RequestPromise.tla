----------------------------- MODULE RequestPromise -----------------------------
(***************************************************************************)
(* What the MCP server promises about the requests of its client: each has  *)
(* one outcome.  It may stay without an answer only if the client cancelled *)
(* this very request, the newest under its id, or if the server closes; the *)
(* initialize request cannot be cancelled.                                  *)
(***************************************************************************)
EXTENDS Naturals

CONSTANTS Ids, Kinds, Requests, Unsent

VARIABLES
    request,        \* id and kind of each request, numbered as they come
    open,           \* requests without an outcome
    excused,        \* those of them that the client has cancelled
    answered,       \* requests with an answer
    closing         \* the server has been told to stop, or its input or output has ended

Init ==
    /\ request = [r \in Requests |-> Unsent]
    /\ open = {} /\ excused = {} /\ answered = {} /\ closing = FALSE

Ask(r, id, kind) ==
    /\ \A q \in Requests : request[q] = Unsent <=> q >= r
    /\ request' = [request EXCEPT ![r] = [id |-> id, kind |-> kind]]
    /\ open' = open \cup {r}
    /\ UNCHANGED <<excused, answered, closing>>

Cancel(r) ==
    /\ r \in open /\ request[r].kind # "initialize"
    /\ \A q \in Requests : q > r /\ request[q] # Unsent => request[q].id # request[r].id
    /\ excused' = excused \cup {r}
    /\ UNCHANGED <<request, open, answered, closing>>

Close == closing' = TRUE /\ UNCHANGED <<request, open, excused, answered>>

End(r) ==
    /\ r \in open
    /\ open' = open \ {r} /\ excused' = excused \ {r}
    /\ UNCHANGED <<request, closing>>

Answer(r) == End(r) /\ answered' = answered \cup {r}
Drop(r) == End(r) /\ (r \in excused \/ closing) /\ answered' = answered

Next ==
    \/ \E r \in Requests : \/ Cancel(r) \/ Answer(r) \/ Drop(r)
                           \/ \E id \in Ids, kind \in Kinds : Ask(r, id, kind)
    \/ Close

Spec == Init /\ [][Next]_<<request, open, excused, answered, closing>>
=============================================================================
