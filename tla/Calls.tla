-------------------------------- MODULE Calls --------------------------------
(***************************************************************************)
(* The HTTP calls of the page open in a browser tab. The API serves them   *)
(* in any order and their answers come in any order, since a page neither  *)
(* cancels a call when it sends the next one nor waits for it; the network *)
(* may lose a call or its answer, of which the page learns only that the   *)
(* call failed. A page receives one answer at a time.                      *)
(***************************************************************************)
EXTENDS Naturals

CONSTANTS Call,   \* calls that can be in flight together
          MaxLost \* bound on those the network loses

ASSUME CallAssumption == MaxLost \in Nat

VARIABLES calls, losses

callVars == <<calls, losses>>

Idle == [kind |-> "idle"]
Pending == "pending"

\* A call of a service: what it asks for, and about what.
Out(kind, about) == [kind |-> kind, stage |-> "out", about |-> about, answer |-> Pending]

Of(kind) == {c \in Call : calls[c].kind = kind}
InFlight(kind) == Of(kind) # {}
Quiet == \A c \in Call : calls[c] = Idle
At(c, kind, stage) == calls[c].kind = kind /\ calls[c].stage = stage

\* One call is sent as the page opens, or none.
CallsInit(first) ==
    /\ \E c \in Call : calls = [d \in Call |-> IF d = c THEN first ELSE Idle]
    /\ losses = 0

Send(c, call) ==
    /\ calls[c] = Idle
    /\ calls' = [calls EXCEPT ![c] = call]
    /\ UNCHANGED losses

\* The API has done what was asked, and answers, or refuses.
Answer(c, answer) ==
    /\ calls' = [calls EXCEPT ![c].stage = "served", ![c].answer = answer]
    /\ UNCHANGED losses

Refuse(c) ==
    /\ calls' = [calls EXCEPT ![c].stage = "failed", ![c].answer = Pending]
    /\ UNCHANGED losses

\* The network loses the call, or its answer.
Lose(c) ==
    /\ calls[c] # Idle
    /\ calls[c].stage # "failed"
    /\ losses < MaxLost
    /\ losses' = losses + 1
    /\ calls' = [calls EXCEPT ![c].stage = "failed", ![c].answer = Pending]

\* The page has received its answer, and sends the next call or none.
Follow(c, next) ==
    /\ calls' = [calls EXCEPT ![c] = next]
    /\ UNCHANGED losses
=============================================================================
