------------------------------ MODULE MCFiles ------------------------------
(* Tune files and recordings: handlers of Msq in one behaviour, requests of *)
(* LogIndex in another; part says which.                                    *)
EXTENDS MCMsq, MCLogIndex

VARIABLE part
fileVars == <<part, vars, logVars>>

FilesInit ==
  /\ part \in {"tune", "log"} /\ Init /\ LogInit
  /\ part = "log" => tune = CHOOSE t \in Tunes : TRUE
FilesNext ==
  \/ part = "tune" /\ Next /\ UNCHANGED <<part, logVars>>
  \/ part = "log" /\ LogNext /\ UNCHANGED <<part, vars>>
FilesSpec == FilesInit /\ [][FilesNext]_fileVars
=============================================================================
