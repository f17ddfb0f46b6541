--------------------------- MODULE RequestService ---------------------------
(***************************************************************************)
(* What an HTTP server promises its clients, with no workers, locks or     *)
(* handlers: a request gets at most one response, only after it arrived,   *)
(* and a response sent is never taken back or followed by another.         *)
(***************************************************************************)
CONSTANTS Request, Status

VARIABLES arrived,   \* requests clients have sent
          sent       \* the responses each of them was sent

Init == arrived = {} /\ sent = [r \in Request |-> <<>>]

Arrive(r) ==
    /\ r \notin arrived
    /\ arrived' = arrived \cup {r}
    /\ UNCHANGED sent

Respond(r) ==
    /\ r \in arrived /\ sent[r] = <<>>
    /\ \E s \in Status : sent' = [sent EXCEPT ![r] = <<s>>]
    /\ UNCHANGED arrived

Next == \E r \in Request : Arrive(r) \/ Respond(r)

Spec == Init /\ [][Next]_<<arrived, sent>>
=============================================================================
