---------------------------- MODULE Registration ----------------------------
(***************************************************************************)
(* MASQUE registration: what the WARP API holds, what reg.json holds, and   *)
(* the processes that change them: `serve` (ensure_masque_credentials),     *)
(* `register reg` and `register del`.  A request may be refused, or be      *)
(* carried out and its answer lost; a process may crash between any two     *)
(* steps.  reg.json is replaced atomically (write_private, EndpointStore).  *)
(***************************************************************************)
EXTENDS Naturals, FiniteSets

CONSTANTS Procs,       \* the processes run on one reg.json
          MaxFaults,   \* refused or unanswered requests, failed writes, crashes
          MaxDels      \* deletions that get as far as the API

ASSUME RegAssumption ==
  Procs \subseteq {"serve", "reg", "del"} /\ MaxFaults \in Nat /\ MaxDels \in Nat

VARIABLES
  file,      \* the device in reg.json, or None
  created,   \* devices the API has handed out, 1..n
  enrolled,  \* those whose MASQUE key is registered
  deleted,   \* those the API has removed
  pc, dev,   \* each process: its next step, and the device in its hands
  lost,      \* devices given up by a failure or a crash
  faults, dels

regVars == <<file, created, enrolled, deleted, pc, dev, lost, faults, dels>>

NoDevice == 0
New == Cardinality(created) + 1

RInit ==
  /\ file = NoDevice /\ created = {} /\ enrolled = {} /\ deleted = {} /\ lost = {}
  /\ pc = [p \in Procs |-> "idle"] /\ dev = [p \in Procs |-> NoDevice]
  /\ faults = 0 /\ dels = 0

Goto(p, at, d) == pc' = [pc EXCEPT ![p] = at] /\ dev' = [dev EXCEPT ![p] = d]

\* The attempt ends with an error; what it was registering is given up.
GiveUp(p, d) ==
  /\ faults < MaxFaults /\ faults' = faults + 1
  /\ Goto(p, "idle", NoDevice)
  /\ lost' = lost \cup ({d} \ {NoDevice})
  /\ UNCHANGED dels

NoFault == UNCHANGED <<lost, faults, dels>>

-----------------------------------------------------------------------------
\* is_file() / exists(): register only when there is no registration.
Registered == file # NoDevice

Check(p) ==
  /\ p \in {"serve", "reg"} /\ pc[p] = "idle"
  /\ \/ ~Registered /\ Goto(p, "post", NoDevice)
     \/ p = "serve" /\ Registered /\ Goto(p, "load", NoDevice)
  /\ UNCHANGED <<file, created, enrolled, deleted>> /\ NoFault

\* Step 1, POST /reg: the device exists at the API from here on.
AfterPost == "patch"

Post(p) ==
  /\ pc[p] = "post" /\ UNCHANGED <<file, enrolled, deleted>>
  /\ \/ created' = created \cup {New} /\ Goto(p, AfterPost, New) /\ NoFault
     \/ created' = created \cup {New} /\ GiveUp(p, New)
     \/ created' = created /\ GiveUp(p, NoDevice)

\* Step 2, PATCH /reg/{id}: registers the MASQUE key.
Patch(p) ==
  /\ pc[p] = "patch" /\ UNCHANGED <<file, created, deleted>>
  /\ \/ enrolled' = enrolled \cup {dev[p]} /\ Goto(p, "save", dev[p]) /\ NoFault
     \/ enrolled' = enrolled \cup {dev[p]} /\ GiveUp(p, dev[p])
     \/ enrolled' = enrolled /\ GiveUp(p, dev[p])

Save(p) ==
  /\ pc[p] = "save" /\ UNCHANGED <<created, enrolled, deleted>>
  /\ \/ /\ file' = dev[p] /\ NoFault
        /\ Goto(p, IF p = "serve" THEN "load" ELSE "idle", NoDevice)
     \/ file' = file /\ GiveUp(p, dev[p])

\* load rebuilds the credentials from the file; when the file is gone it fails,
\* and the supervisor's next attempt starts with the check again.
AfterMissing == "idle"

LoadReg(p) ==
  /\ pc[p] = "load"
  /\ IF file = NoDevice THEN Goto(p, AfterMissing, NoDevice) ELSE Goto(p, "up", file)
  /\ UNCHANGED <<file, created, enrolled, deleted>> /\ NoFault

\* The link built on the credentials ends and the supervisor starts again.
LinkEnds(p) ==
  /\ pc[p] = "up" /\ Goto(p, "idle", NoDevice)
  /\ UNCHANGED <<file, created, enrolled, deleted>> /\ NoFault

-----------------------------------------------------------------------------
\* delete: read the file, DELETE at the API, and only then remove the file.
DelRead(p) ==
  /\ p = "del" /\ pc[p] = "idle" /\ file # NoDevice /\ dels < MaxDels
  /\ Goto(p, "delete", file) /\ dels' = dels + 1
  /\ UNCHANGED <<file, created, enrolled, deleted, lost, faults>>

\* What the answer to DELETE allows: an error keeps the file for a retry.
BadAfterDelete(ok) == "remove"
AfterDelete(ok) == IF ok THEN "remove" ELSE "idle"

Delete(p) ==
  /\ pc[p] = "delete" /\ UNCHANGED <<file, created, enrolled, lost, dels>>
  /\ \/ /\ deleted' = deleted \cup {dev[p]} /\ UNCHANGED faults
        /\ Goto(p, AfterDelete(TRUE), NoDevice)
     \/ /\ faults < MaxFaults /\ faults' = faults + 1
        /\ deleted' \in {deleted, deleted \cup {dev[p]}}
        /\ Goto(p, AfterDelete(FALSE), NoDevice)

RemoveReg(p) ==
  /\ pc[p] = "remove" /\ file' = NoDevice /\ Goto(p, "idle", NoDevice)
  /\ UNCHANGED <<created, enrolled, deleted>> /\ NoFault

\* A crash loses what the process held in memory.
Crash(p) ==
  /\ pc[p] # "idle"
  /\ GiveUp(p, IF pc[p] \in {"patch", "save"} THEN dev[p] ELSE NoDevice)
  /\ UNCHANGED <<file, created, enrolled, deleted>>

Step(p) == Check(p) \/ Post(p) \/ Patch(p) \/ Save(p) \/ LoadReg(p) \/ Delete(p) \/ RemoveReg(p)

RNext == \E p \in Procs : Step(p) \/ LinkEnds(p) \/ DelRead(p) \/ Crash(p)

RSpec == RInit /\ [][RNext]_regVars

-----------------------------------------------------------------------------

\* Every device at the API is in reg.json, in a process's hands, or was given
\* up by a failed attempt: no legal sequence of runs forgets one silently.
NoLeak == (created \ deleted) \subseteq ({file} \cup lost \cup {dev[p] : p \in Procs})

\* "An existing registration is not overwritten" (run_register).
NoOverwrite == [][file # NoDevice => file' \in {file, NoDevice}]_regVars
=============================================================================
