--------------------------- MODULE EndpointStore ---------------------------
(***************************************************************************)
(* endpoint/state.rs with fsutil.rs: the store behind endpoint-state.json. *)
(* A store is loaded, changed in memory and written back as a whole        *)
(* through a temporary file and a rename; the process may die, or a write  *)
(* may fail, between the two.  The rename is not preceded by an fsync, so  *)
(* a power loss can leave a file that does not parse.                      *)
(***************************************************************************)
EXTENDS Candidates, FiniteSets

CONSTANTS
  Endpoints,   \* endpoints a process has ever used, in the pool or not
  Cooldown,    \* startup_endpoint_cooldown in seconds
  None,        \* no last_good_endpoint
  MaxTime      \* bound on the clock

ASSUME StoreAssumption == Cooldown \in Nat /\ MaxTime \in Nat /\ None \notin Endpoints

VARIABLES
  now,     \* now_unix()
  disk,    \* [state, last, cool]: state is "missing", "whole" or "torn"
  mem,     \* the loaded State: last_good_endpoint and cooldowns
  storePhase    \* "closed"; "open"; "saving": mem is being written

esvars == <<now, disk, mem, storePhase>>

\* cool[e] is the second until which e cools; 0 stands for no entry.
Empty == [last |-> None, cool |-> [e \in Endpoints |-> 0]]
OnDisk(s) == [state |-> "whole", last |-> s.last, cool |-> s.cool]
InMemory(d) == IF d.state = "whole" THEN [last |-> d.last, cool |-> d.cool] ELSE Empty

StoreInit ==
  /\ now = 1
  /\ disk = [OnDisk(Empty) EXCEPT !.state = "missing"]
  /\ mem = Empty
  /\ storePhase = "closed"

\* prune_cooldowns: retain the entries that still run.
Pruned(s) == [s EXCEPT !.cool = [e \in Endpoints |-> IF @[e] > now THEN @[e] ELSE 0]]

\* load: missing or unparsable files are an empty state; save when the file
\* is new or an entry was pruned.
Load ==
  /\ storePhase = "closed"
  /\ mem' = Pruned(InMemory(disk))
  /\ storePhase' = IF disk.state = "missing" \/ mem' # InMemory(disk) THEN "saving" ELSE "open"
  /\ UNCHANGED <<now, disk>>

RecordSuccess(e) ==
  /\ storePhase = "open"
  /\ mem' = [last |-> e, cool |-> [mem.cool EXCEPT ![e] = 0]]
  /\ storePhase' = "saving"
  /\ UNCHANGED <<now, disk>>

MarkCooldown(e) ==
  /\ storePhase = "open"
  /\ mem' = [mem EXCEPT !.cool[e] = now + Cooldown]
  /\ storePhase' = "saving"
  /\ UNCHANGED <<now, disk>>

\* write_private: the complete temporary file replaces the target.
Saved ==
  /\ storePhase = "saving"
  /\ disk' = OnDisk(mem)
  /\ storePhase' = "open"
  /\ UNCHANGED <<now, mem>>

\* A failed write leaves the target as it was; "?" drops the store.
BadSaveFails == storePhase = "saving" /\ storePhase' = "open" /\ UNCHANGED <<now, disk, mem>>
SaveFails == storePhase = "saving" /\ storePhase' = "closed" /\ UNCHANGED <<now, disk, mem>>

\* The store goes out of scope, or the process dies at any point.
Close == storePhase # "closed" /\ storePhase' = "closed" /\ UNCHANGED <<now, disk, mem>>

PowerLoss ==
  /\ disk.state = "whole"
  /\ disk' = [OnDisk(Empty) EXCEPT !.state = "torn"]
  /\ storePhase' = "closed"
  /\ UNCHANGED <<now, mem>>

Tick == now < MaxTime /\ now' = now + 1 /\ UNCHANGED <<disk, mem, storePhase>>

StoreNext ==
  \/ Load \/ Saved \/ SaveFails \/ Close \/ PowerLoss \/ Tick
  \/ \E e \in Endpoints : RecordSuccess(e) \/ MarkCooldown(e)

StoreSpec == StoreInit /\ [][StoreNext]_esvars

-----------------------------------------------------------------------------
(* Properties                                                              *)

\* A store that is open has been saved as it is: what the running process
\* believes is what the next process will load, whatever write failed or
\* crash happened before (state.rs:40-73, 106-118).  After a torn file this
\* holds again from the next save on.
OpenIsSaved == storePhase = "open" => InMemory(disk) = mem
=============================================================================
