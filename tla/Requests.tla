------------------------------ MODULE Requests ------------------------------
(***************************************************************************)
(* The requests in flight on the API and the ways they go on, shared by    *)
(* the modules of the record-keeping services. As in DocumentTable, a step *)
(* of a request is what its handler does up to and including one SQL       *)
(* statement; the steps of different requests interleave; the database may *)
(* refuse any statement (Fail) and the process may die (Halt). A handler   *)
(* that does several things in one database transaction does them in one   *)
(* step.                                                                   *)
(***************************************************************************)
EXTENDS Integers, Sequences, FiniteSets

CONSTANTS Request,
          MaxFaults  \* bound on refused statements

VARIABLES pc,     \* the statement each request issues next, or its answer
          req,    \* what it brings and what it has read so far, while it is busy
          faults, \* statements refused so far
          raced   \* history: rival kinds of request that were under way together,
                  \* with what they were about

requestVars == <<pc, req, faults, raced>>

Nothing == [op |-> "nothing"]
Answered == {"ok", "refused", "error", "crashed"}
Busy(r) == pc[r] \notin Answered \cup {"new"}

RequestInit ==
    /\ pc = [r \in Request |-> "new"]
    /\ req = [r \in Request |-> Nothing]
    /\ faults = 0
    /\ raced = {}

\* Request r has passed its first lookup, and holds h.
Start(r, next, h) ==
    /\ pc[r] = "new"
    /\ pc' = [pc EXCEPT ![r] = next]
    /\ req' = [req EXCEPT ![r] = IF next \in Answered THEN Nothing ELSE h]
    /\ UNCHANGED faults

Arrive(r, next, h) == Start(r, next, h) /\ UNCHANGED raced

\* It is of kind h.kind and about h.on: it is recorded which of its rivals are
\* under way.
Begin(r, next, h, rivals) ==
    LET here == {q \in Request : Busy(q) /\ "on" \in DOMAIN req[q] /\ req[q].on = h.on}
    IN  /\ Start(r, next, h)
        /\ raced' = raced \cup
              ({<<h.on, {h.kind, req[q].kind}>> : q \in here} \cap ({h.on} \X rivals))

\* Requests of the kinds a and b were under way together on x.
Together(x, a, b) == <<x, {a, b}>> \in raced

\* It goes on from the statement now; once answered it holds nothing.
Go(r, now, next) ==
    /\ pc[r] = now
    /\ pc' = [pc EXCEPT ![r] = next]
    /\ req' = IF next \in Answered THEN [req EXCEPT ![r] = Nothing] ELSE req
    /\ UNCHANGED <<faults, raced>>

\* It goes on, and holds h from here.
Hold(r, now, next, h) ==
    /\ pc[r] = now
    /\ pc' = [pc EXCEPT ![r] = next]
    /\ req' = [req EXCEPT ![r] = h]
    /\ UNCHANGED <<faults, raced>>

\* The database refuses a statement: the request ends, what it wrote stays.
Fail(r) ==
    /\ Busy(r)
    /\ faults < MaxFaults
    /\ faults' = faults + 1
    /\ pc' = [pc EXCEPT ![r] = "error"]
    /\ req' = [req EXCEPT ![r] = Nothing]
    /\ UNCHANGED raced

\* The process dies and is started again. No request is resumed.
Halt ==
    /\ \E r \in Request : Busy(r)
    /\ pc' = [r \in Request |-> IF Busy(r) THEN "crashed" ELSE pc[r]]
    /\ req' = [r \in Request |-> Nothing]
    /\ UNCHANGED <<faults, raced>>
=============================================================================
