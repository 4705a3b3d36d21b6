------------------------------ MODULE MCMachine ------------------------------
(***************************************************************************)
(* Four components of one machine for TLC.  They share no state: a run    *)
(* explores one at a time, and the others rest.                            *)
(***************************************************************************)
EXTENDS StorageKeys, ObservationLease, HostElection, TaskHandles

VARIABLE subject  \* the component that runs

machineVars == <<subject, keyVars, leaseVars, hostVars, handleVars>>

Init ==
  /\ subject \in {"keys", "lease", "host", "handle"}
  /\ KeyInit /\ LeaseInit /\ HostInit /\ HandleInit

Next ==
  /\ UNCHANGED subject
  /\ \/ subject = "keys" /\ KeyNext /\ UNCHANGED <<leaseVars, hostVars, handleVars>>
     \/ subject = "lease" /\ LeaseNext /\ UNCHANGED <<keyVars, hostVars, handleVars>>
     \/ subject = "host" /\ HostNext /\ UNCHANGED <<keyVars, leaseVars, handleVars>>
     \/ subject = "handle" /\ HandleNext /\ UNCHANGED <<keyVars, leaseVars, hostVars>>

\* LeaseFairness, HostFairness and HandleFairness, for the component that runs.
Spec ==
  /\ Init /\ [][Next]_machineVars
  /\ \A p \in Passer : WF_leaseVars(subject = "lease" /\ PassStep(p))
  /\ \A v \in Validator : WF_leaseVars(subject = "lease" /\ EndValidator(v))
  /\ \A o \in Obs : WF_leaseVars(subject = "lease" /\ Lapse(o))
  /\ \A h \in HostProc : WF_hostVars(subject = "host" /\ HostRun(h))
  /\ WF_hostVars(subject = "host" /\ \E s \in Server : Ensure(s))
  /\ WF_hostVars(subject = "host" /\ Silence)
  /\ WF_handleVars(subject = "handle" /\ \E c \in Client : Poll(c))
  /\ \A c \in Client : WF_handleVars(subject = "handle" /\ Serve(c))
  /\ WF_handleVars(subject = "handle" /\ WorkEnds)

\* The variables of the four components have their types.
TypeOK == KeyTypeOK /\ LeaseTypeOK /\ HostTypeOK /\ HandleTypeOK

\* AllResolved of ObservationLease, while it runs.
ObservationsResolved == subject = "lease" => AllResolved

\* HostReturns of HostElection, while it runs.
HostServes == subject = "host" => HostReturns
=============================================================================
