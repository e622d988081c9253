------------------------------- MODULE Lifespan -------------------------------
(***************************************************************************)
(* The lifespan of a server (build_server in server.py) and the resource   *)
(* reads that depend on it (resources.py).                                 *)
(*                                                                         *)
(* Entering opens an HTTP client, asks Unraid for its versions and, with   *)
(* mutations on, for the key's roles, and stores the context in a holder   *)
(* the resources read.  The holder has room for one: a lifespan entered    *)
(* while another one serves is refused.  A server may be entered again     *)
(* once it has been left.                                                  *)
(***************************************************************************)
EXTENDS FiniteSets

CONSTANTS
  Entries,        \* the times the lifespan is entered
  ResourceReads,  \* the resource reads
  Nobody          \* the holder is empty

ASSUME NobodyType == Nobody \notin Entries

VARIABLES
  mutations,  \* settings.allow_mutations
  phase,      \* where each entry is
  http,       \* its HTTP client
  versions,   \* its version probe
  roles,      \* its identity check
  running,    \* the holder: whose context the resources use
  read,       \* where each read is
  client      \* whose client it uses

lifespanVars == <<mutations, phase, http, versions, roles, running, read, client>>
reading == <<read, client>>

Ended == {"left", "refused", "cancelled"}
Closing == {"leaving", "refusing", "cancelling"}

LifespanInit ==
  /\ mutations \in BOOLEAN
  /\ phase = [e \in Entries |-> "out"]
  /\ http = [e \in Entries |-> "none"]
  /\ versions = [e \in Entries |-> "none"]
  /\ roles = [e \in Entries |-> "none"]
  /\ running = Nobody
  /\ read = [r \in ResourceReads |-> "idle"]
  /\ client = [r \in ResourceReads |-> Nobody]

Goto(e, p) == phase' = [phase EXCEPT ![e] = p]

-----------------------------------------------------------------------------
RolesProbe == IF mutations THEN "asking" ELSE "skipped"

Enter(e) ==
  /\ phase[e] = "out"
  /\ Goto(e, "probing")
  /\ http' = [http EXCEPT ![e] = "open"]
  /\ versions' = [versions EXCEPT ![e] = "asking"]
  /\ roles' = [roles EXCEPT ![e] = RolesProbe]
  /\ UNCHANGED <<mutations, running, reading>>

(* An answer, an unusable answer or an error: a probe never raises.         *)
VersionsProbed(e) ==
  /\ phase[e] = "probing" /\ versions[e] = "asking"
  /\ \E v \in {"known", "unknown"} : versions' = [versions EXCEPT ![e] = v]
  /\ UNCHANGED <<mutations, phase, http, roles, running, reading>>

(* The same, or the check's own timeout.                                    *)
RolesProbed(e) ==
  /\ phase[e] = "probing" /\ roles[e] = "asking"
  /\ \E v \in {"known", "unknown"} : roles' = [roles EXCEPT ![e] = v]
  /\ UNCHANGED <<mutations, phase, http, versions, running, reading>>

Probed(e) == phase[e] = "probing" /\ versions[e] # "asking" /\ roles[e] # "asking"

(* Mutant: startup needs the version.                                       *)
Admit_KnownVersion(e) ==
  /\ Probed(e) /\ running = Nobody /\ versions[e] = "known"
  /\ running' = e
  /\ Goto(e, "serving")
  /\ UNCHANGED <<mutations, http, versions, roles, reading>>

(* The check and the store: nothing is awaited between them.                *)
Admit(e) ==
  /\ Probed(e) /\ running = Nobody
  /\ running' = e
  /\ Goto(e, "serving")
  /\ UNCHANGED <<mutations, http, versions, roles, reading>>

(* Mutant: the refusal is raised inside the try whose finally pops.         *)
Refuse_Pops(e) ==
  /\ Probed(e) /\ running # Nobody
  /\ running' = Nobody
  /\ Goto(e, "refusing")
  /\ UNCHANGED <<mutations, http, versions, roles, reading>>

Refuse(e) ==
  /\ Probed(e) /\ running # Nobody
  /\ Goto(e, "refusing")
  /\ UNCHANGED <<mutations, http, versions, roles, running, reading>>

(* The process is stopped during the probes.                                *)
CancelStartup(e) ==
  /\ phase[e] = "probing"
  /\ Goto(e, "cancelling")
  /\ UNCHANGED <<mutations, http, versions, roles, running, reading>>

Leave(e) ==
  /\ phase[e] = "serving"
  /\ running' = Nobody
  /\ Goto(e, "leaving")
  /\ UNCHANGED <<mutations, http, versions, roles, reading>>

CloseClient(e) ==
  /\ phase[e] \in Closing /\ http[e] = "open"
  /\ http' = [http EXCEPT ![e] = "closing"]
  /\ UNCHANGED <<mutations, phase, versions, roles, running, reading>>

(* async with httpx.AsyncClient: closed whatever happened inside.           *)
Exit(e) ==
  /\ phase[e] \in Closing /\ http[e] = "closing"
  /\ http' = [http EXCEPT ![e] = "closed"]
  /\ \/ phase[e] = "leaving" /\ Goto(e, "left")
     \/ phase[e] = "refusing" /\ Goto(e, "refused")
     \/ phase[e] = "cancelling" /\ Goto(e, "cancelled")
  /\ UNCHANGED <<mutations, versions, roles, running, reading>>

-----------------------------------------------------------------------------
ReadBegins(r) ==
  /\ read[r] = "idle"
  /\ client' = [client EXCEPT ![r] = running]
  /\ read' = [read EXCEPT ![r] = IF running = Nobody THEN "failed" ELSE "reading"]
  /\ UNCHANGED <<mutations, phase, http, versions, roles, running>>

(* A read answers over an open client, or fails.                            *)
ReadEnds(r) ==
  /\ read[r] = "reading"
  /\ \/ http[client[r]] = "open" /\ read' = [read EXCEPT ![r] = "ok"]
     \/ read' = [read EXCEPT ![r] = "failed"]
  /\ UNCHANGED <<mutations, phase, http, versions, roles, running, client>>

LifespanNext ==
  \/ \E e \in Entries :
       \/ Enter(e) \/ VersionsProbed(e) \/ RolesProbed(e)
       \/ Admit(e) \/ Refuse(e) \/ CancelStartup(e)
       \/ Leave(e) \/ CloseClient(e) \/ Exit(e)
  \/ \E r \in ResourceReads : ReadBegins(r) \/ ReadEnds(r)

(* Every query ends; nobody has to leave.  The role probe has a deadline.   *)
(* The version probe has the HTTP timeout, which bounds each read and not   *)
(* the request: a server that sends a byte now and then is left out.        *)
Fairness ==
  \A e \in Entries :
    /\ WF_lifespanVars(VersionsProbed(e)) /\ WF_lifespanVars(RolesProbed(e))
    /\ WF_lifespanVars(Admit(e) \/ Refuse(e))
    /\ WF_lifespanVars(CloseClient(e)) /\ WF_lifespanVars(Exit(e))

LifespanSpec == LifespanInit /\ [][LifespanNext]_lifespanVars /\ Fairness

-----------------------------------------------------------------------------
(* The resources use the context of the lifespan that serves, over a client *)
(* that is open, and there is one whenever a lifespan serves: a second one, *)
(* admitted or refused while the first serves or is still starting, never   *)
(* takes it away, and no lifespan leaves it behind.                         *)
HolderServes ==
  \A e \in Entries :
    /\ running = e <=> phase[e] = "serving"
    /\ running = e => http[e] = "open"

(* Startup ends, whatever the probes come to: the server serves, or the     *)
(* entry is refused because another one does.                               *)
StartupEnds ==
  \A e \in Entries : phase[e] = "probing" ~> phase[e] \in {"serving"} \cup Ended
=============================================================================
