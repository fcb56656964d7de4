--------------------------- MODULE TriageReport ---------------------------
(***************************************************************************)
(* temporal-triage score, pack and unpack (triage/score.py, report.py,     *)
(* shards.py).  A run of score predicts every stored sequence and writes   *)
(* the report; pack bundles the store and the report into tar shards,      *)
(* which unpack extracts in another working tree.  The commands are run    *)
(* one at a time, in any order, and each may be killed on its way.         *)
(***************************************************************************)
EXTENDS Integers

CONSTANTS
  Size,     \* the bytes of each sequence: the sequences are DOMAIN Size, in order of name
  Target,   \* target_bytes, the size at which a shard is sealed
  MaxRuns,  \* bound: runs of score
  MaxKills  \* bound: commands killed

ASSUME ReportAssumption ==
  /\ \A s \in DOMAIN Size : s \in Nat /\ Size[s] \in Nat \ {0}
  /\ Target \in Nat /\ MaxRuns \in Nat /\ MaxKills \in Nat

VARIABLES
  store,    \* the sequences pulled
  run,      \* how many times score wrote a report
  rows,     \* rows[s]: the run of the row of s in results.json, 0 when it has none
  details,  \* details[s]: the run of details/s.json, 0 when there is none
  shards,   \* the tars of frames/: their units, and whether they are sealed
  manifest, \* the manifest.json of frames/, Cut when its writing was interrupted
  packed,   \* details, as the shards of report/ hold them
  copied,   \* rows, as the copy of results.json has them
  cmd,      \* the command under way, or its part
  todo,     \* the sequences it has left to write
  mem,      \* the manifest in memory
  used,     \* the bytes in the open tar, 0 when there is none
  whole,    \* the last score went to its end
  synced,   \* the last pack went to its end and the working tree is as it was
  kills

report  == <<run, rows, details, whole>>
frames  == <<shards, manifest>>
archive == <<frames, packed, copied>>
local   == <<mem, used>>
vars    == <<store, report, archive, cmd, todo, local, synced, kills>>

Sequence == DOMAIN Size
None     == [s \in Sequence |-> 0]
Cut      == [next |-> 0, items |-> <<>>]
Some(f)  == {s \in DOMAIN f : f[s] # 0}
First    == CHOOSE s \in todo : \A t \in todo : s <= t   \* directories and keys are sorted

Init ==
  /\ store = {} /\ run = 0 /\ rows = None /\ details = None /\ whole = TRUE
  /\ shards = <<>> /\ manifest = [next |-> 1, items |-> None]
  /\ packed = None /\ copied = None
  /\ cmd = "idle" /\ todo = {} /\ mem = manifest /\ used = 0
  /\ synced = FALSE /\ kills = 0

Pull(s) ==
  /\ cmd = "idle" /\ s \notin store
  /\ store' = store \cup {s} /\ synced' = FALSE
  /\ UNCHANGED <<report, archive, cmd, todo, local, kills>>
-----------------------------------------------------------------------------
\* Every sequence is predicted, some fail and are dropped, then results.json is
\* rewritten, and the details of each scored sequence after it.
Score(ok) ==
  /\ cmd = "idle" /\ run < MaxRuns
  /\ run' = run + 1
  /\ rows' = [s \in Sequence |-> IF s \in ok THEN run' ELSE 0]
  /\ cmd' = "score" /\ todo' = ok
  /\ whole' = FALSE /\ synced' = FALSE
  /\ UNCHANGED <<store, details, archive, local, kills>>

Details_Missing ==  \* variant: details that are there are not written again
  /\ cmd = "score" /\ todo # {}
  /\ details' = [details EXCEPT ![First] = IF @ = 0 THEN run ELSE @]
  /\ todo' = todo \ {First}
  /\ UNCHANGED <<store, run, rows, whole, archive, cmd, local, synced, kills>>
Details ==
  /\ cmd = "score" /\ todo # {}
  /\ details' = [details EXCEPT ![First] = run]
  /\ todo' = todo \ {First}
  /\ UNCHANGED <<store, run, rows, whole, archive, cmd, local, synced, kills>>

Scored ==
  /\ cmd = "score" /\ todo = {}
  /\ cmd' = "idle" /\ whole' = TRUE
  /\ UNCHANGED <<store, run, rows, details, archive, todo, local, synced, kills>>
-----------------------------------------------------------------------------
\* pack_frames: the sequences the manifest lacks go to new tars.  A manifest that
\* was cut off cannot be read and pack raises.
Pack ==
  /\ cmd = "idle" /\ manifest # Cut
  /\ cmd' = "frames" /\ mem' = manifest /\ used' = 0
  /\ todo' = {s \in store : manifest.items[s] = 0}
  /\ synced' = FALSE
  /\ UNCHANGED <<store, report, archive, kills>>

\* _seal_units: the next unit goes to the open tar unless it would overflow; a tar is
\* opened for writing anew, whatever has its name.
Full(s) == used > 0 /\ used + Size[s] > Target
Put(s, k, before) ==
  [j \in DOMAIN shards \cup {k} |->
     IF j = k THEN [units |-> before \cup {s}, sealed |-> FALSE]
     ELSE IF j = mem.next THEN [shards[j] EXCEPT !.sealed = TRUE] ELSE shards[j]]
AddUnit_Checkpoint ==  \* variant: the manifest is saved with each unit
  /\ cmd = "frames" /\ todo # {}
  /\ LET s == First
         k == IF Full(s) THEN mem.next + 1 ELSE mem.next
         before == IF used = 0 \/ Full(s) THEN {} ELSE shards[k].units
     IN  /\ shards' = Put(s, k, before)
         /\ mem' = [next |-> k, items |-> [mem.items EXCEPT ![s] = k]]
         /\ used' = IF Full(s) THEN Size[s] ELSE used + Size[s]
  /\ manifest' = mem'
  /\ todo' = todo \ {First}
  /\ UNCHANGED <<store, report, packed, copied, cmd, synced, kills>>
AddUnit ==
  /\ cmd = "frames" /\ todo # {}
  /\ LET s == First
         k == IF Full(s) THEN mem.next + 1 ELSE mem.next
         before == IF used = 0 \/ Full(s) THEN {} ELSE shards[k].units
     IN  /\ shards' = Put(s, k, before)
         /\ mem' = [next |-> k, items |-> [mem.items EXCEPT ![s] = k]]
         /\ used' = IF Full(s) THEN Size[s] ELSE used + Size[s]
  /\ todo' = todo \ {First}
  /\ UNCHANGED <<store, report, manifest, packed, copied, cmd, synced, kills>>

\* The last tar is sealed and the manifest file opened for writing.
Seal_Same ==   \* variant: next_index is left at the last tar
  /\ cmd = "frames" /\ todo = {}
  /\ shards' = [k \in DOMAIN shards |-> [shards[k] EXCEPT !.sealed = @ \/ k = mem.next]]
  /\ manifest' = Cut /\ used' = 0
  /\ cmd' = "manifest"
  /\ UNCHANGED <<store, report, packed, copied, todo, mem, synced, kills>>
Seal ==
  /\ cmd = "frames" /\ todo = {}
  /\ shards' = [k \in DOMAIN shards |-> [shards[k] EXCEPT !.sealed = @ \/ k = mem.next]]
  /\ mem' = [mem EXCEPT !.next = IF used > 0 THEN @ + 1 ELSE @]
  /\ manifest' = Cut /\ used' = 0
  /\ cmd' = "manifest"
  /\ UNCHANGED <<store, report, packed, copied, todo, synced, kills>>

\* The manifest is written; pack_report removes the shards of the last report and
\* packs every details file there is.
Rebuild ==
  /\ cmd = "manifest"
  /\ manifest' = mem
  /\ packed' = None
  /\ cmd' = "report" /\ todo' = Some(details)
  /\ UNCHANGED <<store, report, shards, copied, local, synced, kills>>
AddReport ==
  /\ cmd = "report" /\ todo # {}
  /\ packed' = [packed EXCEPT ![First] = details[First]]
  /\ todo' = todo \ {First}
  /\ UNCHANGED <<store, report, frames, copied, cmd, local, synced, kills>>
Packed ==
  /\ cmd = "report" /\ todo = {}
  /\ copied' = rows
  /\ cmd' = "idle" /\ synced' = TRUE
  /\ UNCHANGED <<store, report, frames, packed, todo, local, kills>>

\* unpack extracts over what the tree holds; a tar that was not closed is an error.
Intact == \A k \in DOMAIN shards : shards[k].sealed
Unpacked ==
  [store |-> UNION {shards[k].units : k \in DOMAIN shards}, details |-> packed, rows |-> copied]
Unpack ==
  /\ cmd = "idle" /\ Intact
  /\ store' = store \cup Unpacked.store
  /\ details' = [s \in Sequence |-> IF packed[s] # 0 THEN packed[s] ELSE details[s]]
  /\ rows' = copied
  /\ whole' = FALSE /\ synced' = FALSE
  /\ UNCHANGED <<run, archive, cmd, todo, local, kills>>
-----------------------------------------------------------------------------
Kill ==
  /\ cmd # "idle" /\ kills < MaxKills
  /\ kills' = kills + 1
  /\ cmd' = "idle" /\ todo' = {}
  /\ UNCHANGED <<store, report, archive, local, synced>>

Next ==
  \/ \E s \in Sequence : Pull(s)
  \/ \E ok \in SUBSET store : Score(ok)
  \/ Details \/ Scored
  \/ Pack \/ AddUnit \/ Seal \/ Rebuild \/ AddReport \/ Packed
  \/ Unpack
  \/ Kill

Spec == Init /\ [][Next]_vars
-----------------------------------------------------------------------------
\* A sequence the saved manifest has is in the shard it names, and that shard is
\* sealed: no pack, killed wherever it may be, rewrites it.
InItsShard ==
  \A s \in Some(manifest.items) :
    LET k == manifest.items[s]
    IN  k \in DOMAIN shards /\ shards[k].sealed /\ s \in shards[k].units

\* After a pack that was not killed, whatever happened to earlier ones, unpack in an
\* empty tree gives back the store, the results and the details.
RoundTrip ==
  synced => Intact /\ Unpacked = [store |-> store, details |-> details, rows |-> rows]

\* After a score that was not killed, each row of results.json has the details of the
\* same run, although an earlier run left its own.
RowsHaveDetails ==
  whole => \A s \in Some(rows) : details[s] = rows[s]
=============================================================================
