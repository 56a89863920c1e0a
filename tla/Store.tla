------------------------------- MODULE Store -------------------------------
(***************************************************************************)
(* The files of a state checkout (adapters/state/git-state.mjs over        *)
(* infra/fs-atomic.mjs and infra/json-file.mjs): whole files, each written *)
(* to a temporary one that is renamed, and a health series that is only    *)
(* appended to.  The process may be killed between any two system calls,   *)
(* and the machine may lose power: then a name leads to what the directory *)
(* on the disk says, or to what it should have said, and data that was not *)
(* synced may be cut short.                                                *)
(*                                                                         *)
(* A shard writes a path from one place, so each file has one write under  *)
(* way at most.  A content is the number of the write it comes from.       *)
(***************************************************************************)
EXTENDS Integers, FiniteSets, Functions, SequencesExt

CONSTANTS
  Files,      \* the paths written as whole files
  Durable,    \* those of them written with durable: true, the rate budgets
  MaxWrites,  \* bound on the writes of each file
  MaxRecords, \* bound on the appends to the series
  MaxKills    \* bound on kills

ASSUME StoreAssumption ==
  /\ Durable \subseteq Files
  /\ MaxWrites \in Nat /\ MaxRecords \in Nat /\ MaxKills \in Nat

VARIABLES
  syncs,     \* does the platform sync directories?
  writer,    \* where the write of each file stands
  begun,     \* how many writes of it began
  acked,     \* the last one whose caller was told ok
  temp,      \* its temporary file
  file,      \* what its name leads to
  entry,     \* what its name leads to on the disk
  blackout,  \* history: power was lost
  lines,     \* the series: the record of each line, Garbage if it has none
  open,      \* does its last line lack its end?
  tried,     \* how many appends began
  appended,  \* those whose caller was told ok
  kills      \* history: how often the process was killed

files  == <<writer, begun, acked, temp, file, entry>>
series == <<lines, open, tried, appended>>
storeVars   == <<syncs, files, blackout, series, kills>>

Forms == {"whole", "part", "empty"}
Content(n, form, safe) == [write |-> n, form |-> form, safe |-> safe]
NoFile == Content(0, "empty", TRUE)
Garbage == 0

StoreInit ==
  /\ syncs \in BOOLEAN
  /\ writer = [f \in Files |-> "idle"]
  /\ begun = [f \in Files |-> 0]
  /\ acked = [f \in Files |-> 0]
  /\ temp = [f \in Files |-> NoFile]
  /\ file = [f \in Files |-> NoFile]
  /\ entry = [f \in Files |-> NoFile]
  /\ blackout = FALSE
  /\ lines = <<>>
  /\ open = FALSE
  /\ tried = 0
  /\ appended = {}
  /\ kills = 0
-----------------------------------------------------------------------------
\* Whole files.

Begin(f) ==
  /\ writer[f] = "idle"
  /\ begun[f] < MaxWrites
  /\ begun' = [begun EXCEPT ![f] = @ + 1]
  /\ temp' = [temp EXCEPT ![f] = Content(begun'[f], "part", FALSE)]
  /\ writer' = [writer EXCEPT ![f] = "writing"]
  /\ UNCHANGED <<syncs, acked, file, entry, blackout, series, kills>>

\* Mutant: durable files are written like the others.
MutWriteTemp(f) ==
  /\ writer[f] = "writing"
  /\ temp' = [temp EXCEPT ![f] = Content(begun[f], "whole", FALSE)]
  /\ writer' = [writer EXCEPT ![f] = "written"]
  /\ UNCHANGED <<syncs, begun, acked, file, entry, blackout, series, kills>>
\* writeDurable syncs the data, writeFile does not.
WriteTemp(f) ==
  /\ writer[f] = "writing"
  /\ temp' = [temp EXCEPT ![f] = Content(begun[f], "whole", f \in Durable)]
  /\ writer' = [writer EXCEPT ![f] = "written"]
  /\ UNCHANGED <<syncs, begun, acked, file, entry, blackout, series, kills>>

\* Mutant: the caller is told before the directory is synced.
MutRename(f) ==
  /\ writer[f] = "written"
  /\ file' = [file EXCEPT ![f] = temp[f]]
  /\ temp' = [temp EXCEPT ![f] = NoFile]
  /\ writer' = [writer EXCEPT ![f] = "idle"]
  /\ acked' = [acked EXCEPT ![f] = begun[f]]
  /\ UNCHANGED <<syncs, begun, entry, blackout, series, kills>>
Rename(f) ==
  /\ writer[f] = "written"
  /\ file' = [file EXCEPT ![f] = temp[f]]
  /\ temp' = [temp EXCEPT ![f] = NoFile]
  /\ IF f \in Durable
     THEN writer' = [writer EXCEPT ![f] = "renamed"] /\ UNCHANGED acked
     ELSE /\ writer' = [writer EXCEPT ![f] = "idle"]
          /\ acked' = [acked EXCEPT ![f] = begun[f]]
  /\ UNCHANGED <<syncs, begun, entry, blackout, series, kills>>

\* A directory that cannot be synced is passed over.
SyncDirectory(f) ==
  /\ writer[f] = "renamed"
  /\ entry' = [entry EXCEPT ![f] = IF syncs THEN file[f] ELSE @]
  /\ acked' = [acked EXCEPT ![f] = begun[f]]
  /\ writer' = [writer EXCEPT ![f] = "idle"]
  /\ UNCHANGED <<syncs, begun, temp, file, blackout, series, kills>>

\* A call fails: the temporary file is removed, and the caller gets the error.
Fail(f) ==
  /\ writer[f] \in {"writing", "written"}
  /\ temp' = [temp EXCEPT ![f] = NoFile]
  /\ writer' = [writer EXCEPT ![f] = "idle"]
  /\ UNCHANGED <<syncs, begun, acked, file, entry, blackout, series, kills>>

\* Sooner or later the system writes back what it holds.
WriteBack(f) ==
  /\ entry[f] # file[f]
  /\ file' = [file EXCEPT ![f].safe = TRUE]
  /\ entry' = [entry EXCEPT ![f] = file'[f]]
  /\ UNCHANGED <<syncs, writer, begun, acked, temp, blackout, series, kills>>

\* readJsonFile and checkLedgerShape: three outcomes.
Outcome(f) ==
  IF file[f] = NoFile THEN "absent"
  ELSE IF file[f].form = "whole" THEN "found" ELSE "unreadable"
-----------------------------------------------------------------------------
\* The health series.

\* One write of a line that is whole: it ends the last line if that is open.
AppendHealth ==
  /\ tried < MaxRecords
  /\ tried' = tried + 1
  /\ lines' = IF open THEN [lines EXCEPT ![Len(lines)] = Garbage] ELSE Append(lines, tried')
  /\ open' = FALSE
  /\ appended' = appended \cup {tried'}
  /\ UNCHANGED <<syncs, files, blackout, kills>>

\* A killed append leaves a part of its line, or all of it but its end.
Torn ==
  /\ tried < MaxRecords
  /\ tried' = tried + 1
  /\ \E line \in {Garbage, tried'} :
       lines' = IF open THEN [lines EXCEPT ![Len(lines)] = Garbage] ELSE Append(lines, line)
  /\ open' = TRUE
  /\ UNCHANGED appended

\* Mutant: what follows a line that does not parse is not read.
MutReadHealth ==
  {lines[i] : i \in {j \in DOMAIN lines : \A k \in 1..j : lines[k] # Garbage}}
\* A line that does not parse is skipped.
ParseSeries(text) == Range(text) \ {Garbage}
ReadHealth == ParseSeries(lines)
-----------------------------------------------------------------------------
\* Nothing of the process survives; its temporary files are in nobody's way.
Stopped ==
  /\ writer' = [f \in Files |-> "idle"]
  /\ temp' = [f \in Files |-> NoFile]
  /\ UNCHANGED <<syncs, begun, acked>>

Kill ==
  /\ kills < MaxKills
  /\ kills' = kills + 1
  /\ Stopped
  /\ Torn \/ UNCHANGED series
  /\ UNCHANGED <<file, entry, blackout>>

\* What a name may lead to after the power was lost.
Survivors(f) ==
  {entry[f], [file[f] EXCEPT !.safe = TRUE]} \cup
  {Content(file[f].write, form, TRUE) : form \in IF file[f].safe THEN {} ELSE Forms}

PowerLoss ==
  /\ ~blackout
  /\ blackout' = TRUE
  /\ Stopped
  /\ file' \in [Files -> UNION {Survivors(f) : f \in Files}]
  /\ \A f \in Files : file'[f] \in Survivors(f)
  /\ entry' = file'
  /\ \E n \in 0..Len(lines) :
       /\ lines' = SubSeq(lines, 1, n)
       /\ open' = (open /\ n = Len(lines))
  /\ appended' = appended \cap Range(lines')
  /\ UNCHANGED <<tried, kills>>

Write(f) ==
  Begin(f) \/ WriteTemp(f) \/ Rename(f) \/ SyncDirectory(f) \/ Fail(f) \/ WriteBack(f)

StoreNext == (\E f \in Files : Write(f)) \/ AppendHealth \/ Kill \/ PowerLoss

StoreSpec == StoreInit /\ [][StoreNext]_storeVars
-----------------------------------------------------------------------------
\* fs-atomic.mjs: a reader sees the whole old file or the whole new one, a file
\* that was written is never absent again, and none goes back behind a write
\* that was acknowledged, wherever the process is killed.  Only a power loss may
\* tear a file, and never a durable one.
OldOrNew ==
  \A f \in Files :
    /\ Outcome(f) = "unreadable" => blackout /\ f \notin Durable
    /\ ~blackout => acked[f] <= file[f].write

\* git-state.mjs: the budget that was written before the request it allows is
\* there after a power loss too, where the platform syncs directories.
DurableHolds ==
  \A f \in Durable : syncs => acked[f] <= file[f].write

\* A kill costs one record of a run that ended well at most: the one that was
\* appended to the line the kill left open.
LossIsBounded == Cardinality(appended \ ReadHealth) <= kills

\* git-state.mjs: a truncated final line is dropped, so that only the last
\* record is lost to a crash, and none that was appended whole.
WholeRecordsAreRead == appended \subseteq ReadHealth
=============================================================================
