----------------------------- MODULE HostElection -----------------------------
(***************************************************************************)
(* host.py: one daemon host per machine, elected by a file lock, and the   *)
(* servers that start a host when there is no heartbeat and end one that   *)
(* holds the lock without one.                                             *)
(*                                                                         *)
(* Lock, pidfile, heartbeat row and process are four things that change    *)
(* one after the other.  Pids are not reused while somebody remembers one. *)
(***************************************************************************)
EXTENDS Naturals

CONSTANTS HostProc,      \* processes that are hosts or can become one
          Server,        \* servers that look after the host
          Nobody,
          MaxHostFaults  \* bound of crashes, hangs and failed calls

ASSUME HostAssumption == Nobody \notin HostProc /\ MaxHostFaults \in Nat

VARIABLES
  stage,    \* stage[h]: gone; boot, before the election; won, before the pidfile; run
  stuck,    \* hosts whose loop hangs
  starved,  \* hosts that keep the database locked, and themselves from it
  pidfile,  \* the host that it names
  aged,     \* hosts whose pidfile is older than HOST_WEDGE_KILL_AFTER_S
  beat,     \* age of the newest heartbeat: fresh, stale after the TTL, or old
            \* after HOST_WEDGE_KILL_AFTER_S
  doing,    \* doing[s]: where ensure_host_running is
  saw,      \* saw[s]: the pid that s has read
  hostFaults

hostVars == <<stage, stuck, starved, pidfile, aged, beat, doing, saw, hostFaults>>

HostInit ==
  /\ stage = [h \in HostProc |-> "gone"]
  /\ stuck = {}
  /\ starved = {}
  /\ pidfile = Nobody
  /\ aged = {}
  /\ beat = "old"
  /\ doing = [s \in Server |-> "idle"]
  /\ saw = [s \in Server |-> Nobody]
  /\ hostFaults = 0

HostFault ==
  /\ hostFaults < MaxHostFaults
  /\ hostFaults' = hostFaults + 1

Alive(h)  == stage[h] # "gone"
Holds(h)  == stage[h] \in {"won", "run"}
Serves(h) == stage[h] = "run" /\ h \notin stuck \cup starved

\* The end of a process, and of everything that is true of it; its own pidfile
\* goes first if it ends in order.
Gone(h, orderly) ==
  /\ stage' = [stage EXCEPT ![h] = "gone"]
  /\ stuck' = stuck \ {h}
  /\ starved' = starved \ {h}
  /\ aged' = aged \ {h}
  /\ pidfile' = IF orderly /\ pidfile = h THEN Nobody ELSE pidfile

Turn(s, where) == doing' = [doing EXCEPT ![s] = where]

-----------------------------------------------------------------------------
(* main. *)

\* Mutation of Elected: the lock does not keep anybody out.
ElectedIgnored == FALSE

\* Somebody has the lock of the election.
Elected == \E g \in HostProc : Holds(g)

\* The election: the lock is taken, or the process ends.
Elect(h) ==
  /\ stage[h] = "boot"
  /\ stage' = [stage EXCEPT ![h] = IF Elected THEN "gone" ELSE "won"]
  /\ UNCHANGED <<stuck, starved, pidfile, aged, beat, doing, saw, hostFaults>>

\* _write_host_pidfile, which may fail silently.
Register(h) ==
  /\ stage[h] = "won"
  /\ stage' = [stage EXCEPT ![h] = "run"]
  /\ \/ pidfile' = h /\ UNCHANGED hostFaults
     \/ UNCHANGED pidfile /\ HostFault
  /\ UNCHANGED <<stuck, starved, aged, beat, doing, saw>>

HostBeat(h) ==
  /\ Serves(h) /\ beat # "fresh"
  /\ beat' = "fresh"
  /\ UNCHANGED <<stage, stuck, starved, pidfile, aged, doing, saw, hostFaults>>

\* Without a heartbeat for HOST_WEDGE_KILL_AFTER_S the host ends by itself; the
\* end of the process frees the database.
GiveUpHost(h) ==
  /\ stage[h] = "run" /\ h \in starved \ stuck
  /\ Gone(h, TRUE)
  /\ UNCHANGED <<beat, doing, saw, hostFaults>>

\* It crashes, hangs, or leaks a write transaction.
Fail(h) ==
  /\ Holds(h)
  /\ HostFault
  /\ \/ Gone(h, FALSE)
     \/ stuck' = stuck \cup {h} /\ UNCHANGED <<stage, starved, pidfile, aged>>
     \/ starved' = starved \cup {h} /\ UNCHANGED <<stage, stuck, pidfile, aged>>
  /\ UNCHANGED <<beat, doing, saw>>

-----------------------------------------------------------------------------
(* ensure_host_running. *)

\* No heartbeat within the TTL, and no other server is at it.
Ask(s) ==
  /\ doing[s] = "idle"
  /\ beat # "fresh"
  /\ \A t \in Server : doing[t] = "idle"
  /\ Turn(s, "look")
  /\ UNCHANGED <<stage, stuck, starved, pidfile, aged, beat, saw, hostFaults>>

\* _recover_wedged_host up to its decision: without a pidfile, or before the
\* heartbeat is old, a host is spawned that loses to the one there is; if that
\* boots it is left in peace.  An unreadable database looks like no heartbeat.
Look(s) ==
  /\ doing[s] = "look"
  /\ saw' = [saw EXCEPT ![s] = pidfile]
  /\ \E age \in {beat, "old"} :
       /\ IF age = beat THEN UNCHANGED hostFaults ELSE HostFault
       /\ Turn(s, IF pidfile = Nobody THEN "spawn"
                  ELSE IF ~Alive(pidfile) THEN "clear"
                  ELSE IF age # "old" THEN "spawn"
                  ELSE IF pidfile \notin aged THEN "idle" ELSE "term")
  /\ UNCHANGED <<stage, stuck, starved, pidfile, aged, beat>>

\* SIGTERM and a grace: what hangs may not react.
Terminate(s) ==
  LET h == saw[s]
  IN  /\ doing[s] = "term"
      /\ \/ /\ ~Alive(h)
            /\ Turn(s, "spawn")
            /\ UNCHANGED <<stage, stuck, starved, pidfile, aged>>
         \/ Alive(h) /\ Gone(h, h \notin stuck) /\ Turn(s, "compare")
         \/ /\ h \in stuck
            /\ Turn(s, "kill")
            /\ UNCHANGED <<stage, stuck, starved, pidfile, aged>>
      /\ UNCHANGED <<beat, saw, hostFaults>>

\* Mutation of Killed: SIGTERM is all there is.
KilledNever(h) == UNCHANGED <<stage, stuck, starved, pidfile, aged>>

\* SIGKILL.
Killed(h) ==
  IF Alive(h) THEN Gone(h, FALSE) ELSE UNCHANGED <<stage, stuck, starved, pidfile, aged>>

Kill(s) ==
  /\ doing[s] = "kill"
  /\ Killed(saw[s])
  /\ Turn(s, IF stage'[saw[s]] = "gone" THEN "compare" ELSE "idle")
  /\ UNCHANGED <<beat, saw, hostFaults>>

\* _clear_host_pidfile(only_pid): a replacement may have been faster.
Compare(s) ==
  /\ doing[s] = "compare"
  /\ Turn(s, IF pidfile \in {saw[s], Nobody} THEN "clear" ELSE "spawn")
  /\ UNCHANGED <<stage, stuck, starved, pidfile, aged, beat, saw, hostFaults>>

\* The pidfile is removed, whatever it says by now.
Clear(s) ==
  /\ doing[s] = "clear"
  /\ pidfile' = Nobody
  /\ Turn(s, "spawn")
  /\ UNCHANGED <<stage, stuck, starved, aged, beat, saw, hostFaults>>

SpawnHost(s) ==
  /\ doing[s] = "spawn"
  /\ \E h \in HostProc :
       /\ ~Alive(h) /\ pidfile # h /\ \A t \in Server \ {s} : saw[t] # h
       /\ stage' = [stage EXCEPT ![h] = "boot"]
  /\ Turn(s, "idle")
  /\ saw' = [saw EXCEPT ![s] = Nobody]
  /\ UNCHANGED <<stuck, starved, pidfile, aged, beat, hostFaults>>

\* A spawn fails or the server ends; either way the lock is free again.
Leave(s) ==
  /\ doing[s] # "idle"
  /\ HostFault
  /\ Turn(s, "idle")
  /\ saw' = [saw EXCEPT ![s] = Nobody]
  /\ UNCHANGED <<stage, stuck, starved, pidfile, aged, beat>>

-----------------------------------------------------------------------------
\* Time passes without a heartbeat; a host that serves beats in time.
Silence ==
  /\ \A h \in HostProc : ~Serves(h)
  /\ beat # "old"
  /\ beat' = IF beat = "fresh" THEN "stale" ELSE "old"
  /\ UNCHANGED <<stage, stuck, starved, pidfile, aged, doing, saw, hostFaults>>

Mature(h) ==
  /\ pidfile = h /\ stage[h] = "run" /\ h \notin aged
  /\ Serves(h) => beat = "fresh"
  /\ aged' = aged \cup {h}
  /\ UNCHANGED <<stage, stuck, starved, pidfile, beat, doing, saw, hostFaults>>

Ensure(s) ==
  \/ Ask(s) \/ Look(s) \/ Terminate(s) \/ Kill(s)
  \/ Compare(s) \/ Clear(s) \/ SpawnHost(s)

HostStep(h) == Elect(h) \/ Register(h) \/ HostBeat(h) \/ GiveUpHost(h)

HostNext ==
  \/ \E h \in HostProc : HostStep(h) \/ Fail(h) \/ Mature(h)
  \/ \E s \in Server : Ensure(s) \/ Leave(s)
  \/ Silence

HostRun(h) == HostStep(h) \/ Mature(h)

\* Sessions keep starting, each with a call of ensure_host_running; processes
\* run and time passes.
HostFairness ==
  /\ \A h \in HostProc : WF_hostVars(HostRun(h))
  /\ WF_hostVars(\E s \in Server : Ensure(s))
  /\ WF_hostVars(Silence)

HostSpec == HostInit /\ [][HostNext]_hostVars /\ HostFairness

-----------------------------------------------------------------------------
\* Types, and the lock: two hosts would run every loop twice.
HostTypeOK ==
  /\ stage \in [HostProc -> {"gone", "boot", "won", "run"}]
  /\ stuck \subseteq HostProc
  /\ starved \subseteq HostProc
  /\ pidfile \in HostProc \cup {Nobody}
  /\ aged \subseteq HostProc
  /\ beat \in {"fresh", "stale", "old"}
  /\ doing \in [Server -> {"idle", "look", "term", "kill", "compare", "clear", "spawn"}]
  /\ saw \in [Server -> HostProc \cup {Nobody}]
  /\ hostFaults \in Nat
  /\ \A g, h \in HostProc : Holds(g) /\ Holds(h) => g = h

\* A host that hangs where nobody can find it: its pidfile was not written, or
\* was removed by a server that meant another one's.
Lost(h) == Holds(h) /\ h \in stuck /\ pidfile # h

\* The comment "Wedged-host recovery": after a crash, a hang or a leaked
\* transaction there is a host that serves again, unless the one that hangs
\* cannot be found.
HostReturns == []<>(\E h \in HostProc : Serves(h) \/ Lost(h))
=============================================================================
