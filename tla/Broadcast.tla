------------------------------ MODULE Broadcast ------------------------------
(***************************************************************************)
(* What the proxy promises to the clients of one cache entry: a single     *)
(* download produces bytes 1, 2, ... and ends; every client that joins, at *)
(* any time, receives a growing prefix of those bytes in order, and is     *)
(* served completely unless it breaks off.                                 *)
(***************************************************************************)
EXTENDS Integers

CONSTANTS Clients

VARIABLES produced,   \* bytes downloaded so far
          ended,      \* has the download ended?
          client,     \* "away", "joined", "served" or "broken"
          got         \* the bytes each client has received

vars == <<produced, ended, client, got>>

Init == /\ produced = 0
        /\ ended = FALSE
        /\ client = [c \in Clients |-> "away"]
        /\ got = [c \in Clients |-> <<>>]

Produce == /\ ~ended
           /\ produced' > produced
           /\ UNCHANGED <<ended, client, got>>

End == /\ ~ended
       /\ ended' = TRUE
       /\ UNCHANGED <<produced, client, got>>

Join(c) == /\ client[c] = "away"
           /\ client' = [client EXCEPT ![c] = "joined"]
           /\ UNCHANGED <<produced, ended, got>>

Prefix(n) == [i \in 1..n |-> i]

Deliver(c, n) == /\ client[c] = "joined"
                 /\ got[c] = Prefix(n - 1)
                 /\ \E m \in n..produced : got' = [got EXCEPT ![c] = Prefix(m)]
                 /\ UNCHANGED <<produced, ended, client>>

Finish(c) == /\ client[c] = "joined"
             /\ ended
             /\ got[c] = Prefix(produced)
             /\ client' = [client EXCEPT ![c] = "served"]
             /\ UNCHANGED <<produced, ended, got>>

Break(c) == /\ client[c] = "joined"
            /\ client' = [client EXCEPT ![c] = "broken"]
            /\ UNCHANGED <<produced, ended, got>>

Next == \/ Produce
        \/ End
        \/ \E c \in Clients : \/ Join(c) \/ Finish(c) \/ Break(c)
                              \/ \E n \in 1..produced : Deliver(c, n)

Spec == Init /\ [][Next]_vars
=============================================================================
