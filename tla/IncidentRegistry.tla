--------------------------- MODULE IncidentRegistry ---------------------------
(***************************************************************************)
(* What the incident_registry table promises its readers: a row never      *)
(* disappears, a terminal status never becomes a non-terminal one again,   *)
(* and a pipeline once recorded is never forgotten.  Which terminal status *)
(* a row shows, when several runs reached one, is NOT promised.            *)
(* AgentRunner implements this specification.                              *)
(***************************************************************************)
CONSTANTS Incidents, None

VARIABLES status,   \* [Incidents -> Open \cup Terminal \cup {None}]; None: no row
          pipeline  \* [Incidents -> {"known", None}]

vars == <<status, pipeline>>

Open == {"running", "resumed"}
Terminal == {"resolved", "failed", "escalated", "reported"}

Init == /\ status = [i \in Incidents |-> None]
        /\ pipeline = [i \in Incidents |-> None]

Write(i) ==
    /\ \E s \in IF status[i] \in Terminal THEN Terminal ELSE Open \cup Terminal :
         status' = [status EXCEPT ![i] = s]
    /\ \E p \in IF pipeline[i] = None THEN {"known", None} ELSE {"known"} :
         pipeline' = [pipeline EXCEPT ![i] = p]

Next == \E i \in Incidents : Write(i)

Spec == Init /\ [][Next]_vars
=============================================================================
