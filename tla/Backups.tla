------------------------------- MODULE Backups -------------------------------
(***************************************************************************)
(* BackupService: dumps of the database into files, on demand and every    *)
(* night. A file is named for the second its dump began and is listed as a *)
(* backup from then on; mysqldump, gzip and the file are a pipe, and how   *)
(* mysqldump ended is told apart from the end of the pipe. After a nightly *)
(* backup files older than a fortnight are deleted. Restoring, which only  *)
(* staging allows, takes a file from its caller and is not modelled.       *)
(***************************************************************************)
EXTENDS Requests

CONSTANT MaxSecond  \* bound on the clock

VARIABLES second,  \* the clock
          dumps,   \* function on the seconds there are files of: what is in them
          old,     \* seconds a fortnight ago or more
          broken,  \* history: files whose dump failed or was cut short
          shared,  \* history: files two dumps began in one second
          belied,  \* history: a nightly backup was held complete that was not
          hadOne   \* history: there was a whole backup

backupVars == <<second, dumps, old, broken, shared, belied, hadOne>>

ASSUME BackupAssumption == MaxSecond \in Nat

BackupsInit ==
    /\ second = 1
    /\ dumps = <<>> /\ old = {}
    /\ broken = {} /\ shared = {} /\ belied = FALSE /\ hadOne = FALSE

BackupsOK ==
    /\ second \in 1..MaxSecond
    /\ dumps \in [DOMAIN dumps -> {"part", "whole", "mixed"}]
    /\ DOMAIN dumps \cup old \subseteq 1..second

Whole == {f \in DOMAIN dumps : dumps[f] = "whole"}
Writers(f) == {r \in Request : pc[r] = "dump" /\ req[r].file = f}
-----------------------------------------------------------------------------
\* createBackupFile: the file is opened, and emptied if there is one of this second.
BeginDump(r) ==
    \E kind \in {"nightly", "streamed"} :
        /\ Arrive(r, "dump", [kind |-> kind, file |-> second])
        /\ dumps' = [f \in DOMAIN dumps \cup {second} |->
                        IF f # second THEN dumps[f]
                        ELSE IF Writers(second) = {} THEN "part" ELSE "mixed"]
        /\ shared' = IF second \in DOMAIN dumps THEN shared \cup {second} ELSE shared
        /\ UNCHANGED <<second, old, broken, belied, hadOne>>

\* The pipe has ended: a nightly backup goes on to prune, a streamed one is read.
Completed(r) == Go(r, "dump", IF req[r].kind = "nightly" THEN "prune" ELSE "ok")

EndDump(r) ==
    LET f == req[r].file
    IN  /\ pc[r] = "dump"
        /\ Completed(r)
        /\ dumps' = [dumps EXCEPT ![f] = IF @ = "part" THEN "whole" ELSE @]
        /\ hadOne' = (hadOne \/ Whole' # {})
        /\ belied' = (belied \/ (req[r].kind = "nightly" /\ dumps'[f] # "whole"))
        /\ UNCHANGED <<second, old, broken, shared>>

\* mysqldump fails. What it wrote stays, under a name that is listed; the error or
\* the end of the pipe is first.
FailDump(r) ==
    LET f == req[r].file
    IN  /\ pc[r] = "dump"
        /\ faults < MaxFaults
        /\ faults' = faults + 1
        /\ broken' = broken \cup {f}
        /\ \E next \in {"error", "prune", "ok"} :
              /\ next = "prune" => req[r].kind = "nightly"
              /\ next = "ok" => req[r].kind = "streamed"
              /\ pc' = [pc EXCEPT ![r] = next]
              /\ req' = [req EXCEPT ![r] = IF next = "prune" THEN @ ELSE Nothing]
              /\ belied' = (belied \/ next = "prune")
        /\ UNCHANGED <<raced, second, dumps, old, shared, hadOne>>

\* Mutant: all but the newest go.
PruneToNewest(r) ==
    /\ pc[r] = "prune"
    /\ Go(r, "prune", "ok")
    /\ dumps' = [f \in {g \in DOMAIN dumps : \A e \in DOMAIN dumps : e <= g} |-> dumps[f]]
    /\ UNCHANGED <<second, old, broken, shared, belied, hadOne>>

Prune(r) ==
    /\ pc[r] = "prune"
    /\ Go(r, "prune", "ok")
    /\ dumps' = [f \in DOMAIN dumps \ old |-> dumps[f]]
    /\ UNCHANGED <<second, old, broken, shared, belied, hadOne>>

SecondPasses ==
    /\ second < MaxSecond
    /\ second' = second + 1
    /\ UNCHANGED <<requestVars, dumps, old, broken, shared, belied, hadOne>>

\* A fortnight goes by; no dump takes that long.
FortnightPasses ==
    /\ second < MaxSecond
    /\ \A r \in Request : ~Busy(r)
    /\ second' = second + 1
    /\ old' = 1..second
    /\ UNCHANGED <<requestVars, dumps, broken, shared, belied, hadOne>>

BackupsNext ==
    \/ \E r \in Request : BeginDump(r) \/ EndDump(r) \/ FailDump(r) \/ Prune(r)
    \/ SecondPasses \/ FortnightPasses
    \/ /\ Halt
       /\ broken' = broken \cup {req[r].file : r \in {q \in Request : pc[q] = "dump"}}
       /\ UNCHANGED <<second, dumps, old, shared, belied, hadOne>>

BackupsSpec == RequestInit /\ BackupsInit /\ [][BackupsNext]_<<requestVars, backupVars>>
-----------------------------------------------------------------------------
\* A file that is listed as a backup and not being written holds a whole dump unless
\* its dump failed or was cut short, or two began in the same second; and once there
\* was a whole backup there is one, unless the pruning followed a nightly backup that
\* was held complete and was not.
BackupsExplained ==
    /\ \A f \in DOMAIN dumps :
          \/ f \in broken \cup shared \/ Writers(f) # {}
          \/ dumps[f] = "whole"
    /\ hadOne /\ ~belied => Whole # {} \/ shared # {}
=============================================================================
