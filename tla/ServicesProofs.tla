--------------------------- MODULE ServicesProofs ---------------------------
(***************************************************************************)
(* What is proved of the four components that no other module composes:    *)
(* the files of a state checkout, the notifier, the resolver of a listing  *)
(* and a client's configuration.  They share nothing but this module: each *)
(* part speaks of the variables of its own component only.                 *)
(***************************************************************************)
EXTENDS Store, Alerts, Resolver, Settings, FoldLemmas, TLAPS
-----------------------------------------------------------------------------
(***************************************************************************)
(* What the files of Store keep, for any files, any number of writes and   *)
(* kills, and a power loss at any instant.                                 *)
(***************************************************************************)
Contents == [write : Nat, form : Forms, safe : BOOLEAN]

FileTypes ==
  /\ syncs \in BOOLEAN
  /\ writer \in [Files -> {"idle", "writing", "written", "renamed"}]
  /\ begun \in [Files -> Nat] /\ acked \in [Files -> Nat]
  /\ temp \in [Files -> Contents]
  /\ file \in [Files -> Contents]
  /\ entry \in [Files -> Contents]
  /\ blackout \in BOOLEAN

Whole(content) ==
  content.form = "whole" \/
  (content.write = 0 /\ content.form = "empty" /\ content.safe = TRUE)

\* What is so of one file between any two system calls.  The name is only ever
\* led to a temporary file that was written to its end, and the caller is only
\* told of what the directory on the disk has, if that can be had.
Kept(f) ==
  /\ acked[f] <= begun[f]
  /\ writer[f] = "written" =>
       /\ temp[f].write = begun[f] /\ temp[f].form = "whole"
       /\ f \in Durable => temp[f].safe = TRUE
  /\ writer[f] = "renamed" => file[f].write = begun[f]
  /\ blackout \/ (Whole(file[f]) /\ Whole(entry[f]) /\ acked[f] <= file[f].write)
  /\ f \in Durable =>
       /\ Whole(file[f]) /\ file[f].safe = TRUE
       /\ Whole(entry[f]) /\ entry[f].safe = TRUE
  /\ f \in Durable /\ syncs => acked[f] <= file[f].write /\ acked[f] <= entry[f].write

FileInv == FileTypes /\ \A f \in Files : Kept(f)

LEMMA NoFileContent ==
  NoFile \in Contents /\ NoFile.write = 0 /\ NoFile.safe = TRUE /\ Whole(NoFile)
  BY DEF NoFile, Content, Contents, Forms, Whole

LEMMA ContentFields ==
  ASSUME NEW n \in Nat, NEW form \in Forms, NEW safe \in BOOLEAN
  PROVE  /\ Content(n, form, safe) \in Contents
         /\ Content(n, form, safe).write = n
         /\ Content(n, form, safe).form = form
         /\ Content(n, form, safe).safe = safe
  BY DEF Content, Contents

LEMMA SavedFields ==
  ASSUME NEW c \in Contents, NEW d, d = [c EXCEPT !.safe = TRUE]
  PROVE  /\ d \in Contents
         /\ d.write = c.write /\ d.form = c.form /\ d.safe = TRUE
  BY DEF Contents

LEMMA WholeIsNoPart ==
  ASSUME NEW c \in Contents, Whole(c)
  PROVE  c = NoFile \/ c.form = "whole"
  BY DEF Whole, NoFile, Content, Contents

LEMMA FilesStart == ASSUME StoreInit PROVE FileInv
<1> USE StoreAssumption, NoFileContent
<1>1. FileTypes
  BY DEF StoreInit, FileTypes
<1>2. ASSUME NEW f \in Files PROVE Kept(f)
  <2>1. /\ file[f] = NoFile /\ entry[f] = NoFile /\ acked[f] = 0 /\ begun[f] = 0
        /\ writer[f] = "idle"
    BY DEF StoreInit
  <2> QED BY <2>1 DEF Kept
<1> QED BY <1>1, <1>2 DEF FileInv

\* A write that is under way disturbs its own file and no other.
LEMMA WriteKeeps == ASSUME FileInv, NEW f \in Files, Write(f) PROVE FileInv'
<1> USE StoreAssumption, NoFileContent
<1>1. CASE Begin(f)
  <2> DEFINE started == Content(begun[f] + 1, "part", FALSE)
  <2>1. started \in Contents
    BY DEF FileInv, FileTypes, Forms, Content, Contents
  <2>2. /\ writer[f] = "idle"
        /\ begun' = [begun EXCEPT ![f] = @ + 1]
        /\ temp' = [temp EXCEPT ![f] = started]
        /\ writer' = [writer EXCEPT ![f] = "writing"]
        /\ UNCHANGED <<syncs, acked, file, entry, blackout>>
    BY <1>1 DEF Begin, FileInv, FileTypes
  <2> HIDE DEF started
  <2> QED BY <2>1, <2>2 DEF FileInv, FileTypes, Kept
<1>2. CASE WriteTemp(f)
  <2> DEFINE written == Content(begun[f], "whole", f \in Durable)
  <2>1. /\ written \in Contents /\ written.write = begun[f] /\ written.form = "whole"
        /\ f \in Durable => written.safe = TRUE
    <3>1. CASE f \in Durable
      <4>1. written = [write |-> begun[f], form |-> "whole", safe |-> TRUE]
        BY <3>1 DEF Content
      <4> HIDE DEF written
      <4> QED BY <4>1 DEF FileInv, FileTypes, Forms, Contents
    <3>2. CASE f \notin Durable
      <4>1. written = [write |-> begun[f], form |-> "whole", safe |-> FALSE]
        <5>1. (f \in Durable) = FALSE
          BY <3>2
        <5> QED BY <5>1, Zenon DEF Content
      <4> HIDE DEF written
      <4> QED BY <3>2, <4>1 DEF FileInv, FileTypes, Forms, Contents
    <3> QED BY <3>1, <3>2
  <2>2. /\ writer[f] = "writing"
        /\ temp' = [temp EXCEPT ![f] = written]
        /\ writer' = [writer EXCEPT ![f] = "written"]
        /\ UNCHANGED <<syncs, begun, acked, file, entry, blackout>>
    BY <1>2 DEF WriteTemp
  <2> HIDE DEF written
  <2> QED BY <2>1, <2>2 DEF FileInv, FileTypes, Kept
<1>3. CASE Rename(f)
  <2>2. /\ temp[f] \in Contents /\ temp[f].write = begun[f] /\ temp[f].form = "whole"
        /\ f \in Durable => temp[f].safe = TRUE
    BY <1>3 DEF Rename, FileInv, FileTypes, Kept
  <2>3. FileTypes'
    BY <1>3, <2>2 DEF Rename, FileInv, FileTypes
  <2>4. \A g \in Files : Kept(g)'
    <3> SUFFICES ASSUME NEW g \in Files PROVE Kept(g)'
      OBVIOUS
    <3>1. CASE g = f
      BY <3>1, <1>3, <2>2 DEF Rename, FileInv, FileTypes, Kept, Whole
    <3>2. CASE g # f
      BY <3>2, <1>3 DEF Rename, FileInv, FileTypes, Kept, Whole
    <3> QED BY <3>1, <3>2
  <2> QED BY <2>3, <2>4 DEF FileInv
<1>4. CASE SyncDirectory(f)
  BY <1>4 DEF SyncDirectory, FileInv, FileTypes, Kept, Whole
<1>5. CASE Fail(f)
  BY <1>5 DEF Fail, FileInv, FileTypes, Kept, Whole
<1>6. CASE WriteBack(f)
  <2> DEFINE held == [file[f] EXCEPT !.safe = TRUE]
  <2>1. /\ held \in Contents /\ held.write = file[f].write /\ held.form = file[f].form
        /\ held.safe = TRUE
    BY SavedFields DEF FileInv, FileTypes
  <2>2. file' = [file EXCEPT ![f] = held] /\ entry' = [entry EXCEPT ![f] = held]
    BY <1>6 DEF WriteBack, FileInv, FileTypes
  <2> HIDE DEF held
  <2>3. FileTypes'
    BY <1>6, <2>1, <2>2 DEF WriteBack, FileInv, FileTypes
  <2>4. \A g \in Files : Kept(g)'
    <3> SUFFICES ASSUME NEW g \in Files PROVE Kept(g)'
      OBVIOUS
    <3>1. CASE g = f
      BY <3>1, <1>6, <2>1, <2>2 DEF WriteBack, FileInv, FileTypes, Kept, Whole
    <3>2. CASE g # f
      BY <3>2, <1>6, <2>2 DEF WriteBack, FileInv, FileTypes, Kept, Whole
    <3> QED BY <3>1, <3>2
  <2> QED BY <2>3, <2>4 DEF FileInv
<1> QED BY <1>1, <1>2, <1>3, <1>4, <1>5, <1>6 DEF Write

LEMMA PowerLossKeeps == ASSUME FileInv, PowerLoss PROVE FileInv'
<1> USE StoreAssumption, NoFileContent
<1>1. \A f \in Files : file'[f] \in Survivors(f) /\ entry'[f] = file'[f]
  BY DEF PowerLoss
<1>2. ASSUME NEW f \in Files PROVE Survivors(f) \subseteq Contents
  <2>1. entry[f] \in Contents /\ file[f] \in Contents
    BY DEF FileInv, FileTypes
  <2>2. [file[f] EXCEPT !.safe = TRUE] \in Contents
    BY <2>1, SavedFields
  <2>3. \A form \in Forms : Content(file[f].write, form, TRUE) \in Contents
    BY <2>1 DEF Content, Contents
  <2>4. (IF file[f].safe THEN {} ELSE Forms) \subseteq Forms
    OBVIOUS
  <2> QED BY <2>1, <2>2, <2>3, <2>4 DEF Survivors
<1>3. file' \in [Files -> Contents] /\ entry' \in [Files -> Contents]
  <2>1. file' \in [Files -> UNION {Survivors(f) : f \in Files}] /\ entry' = file'
    BY DEF PowerLoss
  <2>2. UNION {Survivors(f) : f \in Files} \subseteq Contents
    BY <1>2
  <2> QED BY <2>1, <2>2
<1>4. FileTypes'
  BY <1>3 DEF PowerLoss, Stopped, FileInv, FileTypes
<1>5. ASSUME NEW f \in Files PROVE Kept(f)'
  <2>1. CASE f \in Durable
    <3> DEFINE saved == [file[f] EXCEPT !.safe = TRUE]
    <3>1. /\ file[f].safe = TRUE /\ Whole(file[f])
          /\ entry[f].safe = TRUE /\ Whole(entry[f])
      BY <2>1 DEF FileInv, Kept
    <3>2. file'[f] \in {entry[f], saved}
      BY <1>1, <3>1 DEF Survivors
    <3>3. saved.write = file[f].write /\ saved.form = file[f].form /\ saved.safe = TRUE
      BY SavedFields DEF FileInv, FileTypes
    <3> HIDE DEF saved
    <3>4. /\ Whole(file'[f]) /\ file'[f].safe = TRUE
          /\ file'[f].write \in {entry[f].write, file[f].write}
      BY <3>1, <3>2, <3>3 DEF Whole
    <3> QED BY <1>1, <2>1, <3>4 DEF PowerLoss, Stopped, FileInv, FileTypes, Kept
  <2>2. CASE f \notin Durable
    BY <1>1, <2>2 DEF PowerLoss, Stopped, FileInv, FileTypes, Kept
  <2> QED BY <2>1, <2>2
<1> QED BY <1>4, <1>5 DEF FileInv

LEMMA FilesKept == FileInv /\ [StoreNext]_storeVars => FileInv'
<1> SUFFICES ASSUME FileInv, [StoreNext]_storeVars PROVE FileInv'
  OBVIOUS
<1>1. CASE \E f \in Files : Write(f)
  BY <1>1, WriteKeeps
<1>2. CASE AppendHealth
  BY <1>2 DEF AppendHealth, files, FileInv, FileTypes, Kept, Whole
<1>3. CASE Kill
  BY <1>3 DEF Kill, Stopped, FileInv, FileTypes, Kept, Whole, NoFile, Content, Contents, Forms
<1>4. CASE PowerLoss
  BY <1>4, PowerLossKeeps
<1>5. CASE UNCHANGED storeVars
  BY <1>5 DEF storeVars, files, FileInv, FileTypes, Kept, Whole
<1> QED BY <1>1, <1>2, <1>3, <1>4, <1>5 DEF StoreNext

THEOREM FilesHold == StoreSpec => []FileInv
  BY FilesStart, FilesKept, PTL DEF StoreSpec

\* Readers see the old file or the new one wherever the process is killed, and
\* no file goes back behind a write that was acknowledged; only a power loss
\* tears, and never a durable file (writeFileAtomic).
THEOREM NothingTorn == StoreSpec => []OldOrNew
<1>1. FileInv => OldOrNew
  BY WholeIsNoPart DEF FileInv, FileTypes, Kept, OldOrNew, Outcome
<1> QED BY <1>1, FilesHold, PTL

\* A budget that was written before the request it allows is there after any
\* power loss, where directories can be synced (writeBudget).
THEOREM DurableIsDurable == StoreSpec => []DurableHolds
<1>1. FileInv => DurableHolds
  BY StoreAssumption DEF FileInv, Kept, DurableHolds
<1> QED BY <1>1, FilesHold, PTL
-----------------------------------------------------------------------------
\* The series.

Lost == appended \ ReadHealth

OpenLine == IF open THEN 1 ELSE 0

\* A line that is open is the part of a record whose run was killed: nothing
\* is lost with it, and one record is lost at most by being appended to it.
SeriesInv ==
  /\ tried \in Nat /\ kills \in Nat /\ open \in BOOLEAN
  /\ lines \in Seq(0..tried)
  /\ appended \subseteq 1..tried
  /\ open => lines # <<>> /\ lines[Len(lines)] \notin appended
  /\ Cardinality(Lost) + OpenLine <= kills

LEMMA LostIsFinite ==
  ASSUME SeriesInv PROVE IsFiniteSet(Lost) /\ Cardinality(Lost) \in Nat
<1>1. IsFiniteSet(1..tried)
  BY FS_Interval DEF SeriesInv
<1>2. Lost \subseteq 1..tried
  BY DEF SeriesInv, Lost
<1> QED BY <1>1, <1>2, FS_Subset, FS_CardinalityType

LEMMA SeriesStart == StoreInit => SeriesInv
<1> SUFFICES ASSUME StoreInit PROVE SeriesInv
  OBVIOUS
<1>1. Lost = {}
  BY DEF StoreInit, Lost
<1>2. OpenLine = 0 /\ Cardinality(Lost) = 0
  BY <1>1, FS_EmptySet DEF StoreInit, OpenLine
<1>3. open \in BOOLEAN /\ ~open
  BY Zenon DEF StoreInit
<1>4. lines \in Seq(0..tried)
  BY DEF StoreInit
<1> QED BY <1>1, <1>2, <1>3, <1>4 DEF StoreInit, SeriesInv

\* What an open line takes with it was not appended whole.
LEMMA OpenLineCosts ==
  ASSUME SeriesInv, open, NEW new,
         lines' = [lines EXCEPT ![Len(lines)] = Garbage],
         appended' \subseteq appended \cup {new}
  PROVE  Lost' \subseteq Lost \cup {new}
<1> SUFFICES ASSUME NEW x \in Lost', x # new PROVE x \in Lost
  OBVIOUS
<1>1. x \in appended /\ x \notin Range(lines') \ {Garbage}
  BY DEF Lost, ReadHealth, ParseSeries
<1>2. ASSUME NEW i \in 1..Len(lines), lines[i] = x, x # Garbage PROVE FALSE
  <2>1. i # Len(lines)
    BY <1>1, <1>2 DEF SeriesInv
  <2>2. i \in DOMAIN lines' /\ lines'[i] = x
    BY <1>2, <2>1 DEF SeriesInv
  <2> QED BY <1>1, <1>2, <2>2 DEF Range
<1> QED BY <1>1, <1>2 DEF Lost, ReadHealth, ParseSeries, Range, SeriesInv

\* What was read stays read when a line of its own follows it.
LEMMA OwnLineCostsNothing ==
  ASSUME SeriesInv, NEW line \in Nat,
         lines' = Append(lines, line),
         appended' \subseteq appended \cup {line}, Garbage \notin appended'
  PROVE  Lost' \subseteq Lost
<1>1. Range(lines) \cup {line} \subseteq Range(lines')
  <2>1. /\ \A i \in 1..Len(lines) : i \in DOMAIN lines' /\ lines'[i] = lines[i]
        /\ Len(lines) + 1 \in DOMAIN lines' /\ lines'[Len(lines) + 1] = line
    BY DEF SeriesInv
  <2> QED BY <2>1 DEF Range, SeriesInv
<1> QED BY <1>1 DEF Lost, ReadHealth, ParseSeries

LEMMA FewerLost ==
  ASSUME SeriesInv, NEW n \in Nat, Lost' \subseteq Lost, Cardinality(Lost) <= n
  PROVE  Cardinality(Lost') <= n /\ Cardinality(Lost') \in Nat
  BY LostIsFinite, FS_Subset, FS_CardinalityType

LEMMA OneMoreLost ==
  ASSUME SeriesInv, NEW new, NEW n \in Nat,
         Lost' \subseteq Lost \cup {new}, Cardinality(Lost) + 1 <= n
  PROVE  Cardinality(Lost') <= n /\ Cardinality(Lost') \in Nat
<1>1. IsFiniteSet(Lost \cup {new}) /\ Cardinality(Lost \cup {new}) <= Cardinality(Lost) + 1
  BY LostIsFinite, FS_AddElement
<1>2. /\ Cardinality(Lost') <= Cardinality(Lost \cup {new})
      /\ Cardinality(Lost') \in Nat /\ Cardinality(Lost \cup {new}) \in Nat
  BY <1>1, FS_Subset, FS_CardinalityType
<1> QED BY <1>1, <1>2, LostIsFinite

LEMMA AppendKeeps == ASSUME SeriesInv, AppendHealth PROVE SeriesInv'
<1>1. /\ tried' = tried + 1 /\ kills' = kills /\ open' = FALSE
      /\ open' \in BOOLEAN /\ ~open'
      /\ appended' = appended \cup {tried'}
      /\ tried' \in Nat /\ kills' \in Nat /\ appended' \subseteq 1..tried'
  <2>1. open' = FALSE
    BY DEF AppendHealth
  <2>2. open' \in BOOLEAN /\ ~open'
    BY <2>1, Zenon
  <2> QED BY <2>1, <2>2 DEF AppendHealth, SeriesInv
<1>2. CASE open
  <2>1. lines' = [lines EXCEPT ![Len(lines)] = Garbage] /\ lines' \in Seq(0..tried')
    BY <1>1, <1>2 DEF AppendHealth, SeriesInv, Garbage
  <2>2. Cardinality(Lost) + 1 <= kills
    BY <1>2 DEF SeriesInv, OpenLine
  <2>3. Cardinality(Lost') <= kills /\ Cardinality(Lost') \in Nat
    BY <1>1, <1>2, <2>1, <2>2, OpenLineCosts, OneMoreLost DEF SeriesInv
  <2>4. OpenLine' = 0
    BY <1>1 DEF OpenLine
  <2> QED BY <1>1, <2>1, <2>3, <2>4 DEF SeriesInv
<1>3. CASE ~open
  <2>1. lines' = Append(lines, tried') /\ lines' \in Seq(0..tried')
    BY <1>1, <1>3 DEF AppendHealth, SeriesInv
  <2>2. Cardinality(Lost) <= kills
    BY <1>3, LostIsFinite DEF SeriesInv, OpenLine
  <2>3. Lost' \subseteq Lost
    BY <1>1, <2>1, OwnLineCostsNothing DEF SeriesInv, Garbage
  <2>4. Cardinality(Lost') <= kills /\ Cardinality(Lost') \in Nat
    BY <2>2, <2>3, FewerLost DEF SeriesInv
  <2>5. OpenLine' = 0
    BY <1>1 DEF OpenLine
  <2> QED BY <1>1, <2>1, <2>4, <2>5 DEF SeriesInv
<1> QED BY <1>2, <1>3 DEF SeriesInv

LEMMA TornKeeps == ASSUME SeriesInv, Torn, kills' = kills + 1 PROVE SeriesInv'
<1>1. /\ tried' = tried + 1 /\ open' = TRUE /\ appended' = appended
      /\ tried' \in Nat /\ kills' \in Nat /\ appended' \subseteq 1..tried'
  BY DEF Torn, SeriesInv
<1>2. CASE open
  <2>1. lines' = [lines EXCEPT ![Len(lines)] = Garbage] /\ lines' \in Seq(0..tried')
    BY <1>1, <1>2 DEF Torn, SeriesInv, Garbage
  <2>2. lines' # <<>> /\ lines'[Len(lines')] \notin appended'
    BY <1>1, <1>2, <2>1 DEF SeriesInv, Garbage
  <2>3. Lost' \subseteq Lost
    <3>1. Lost' \subseteq Lost \cup {Garbage}
      BY <1>1, <1>2, <2>1, OpenLineCosts
    <3>2. Garbage \notin Lost'
      BY <1>1 DEF Lost, SeriesInv, Garbage
    <3> QED BY <3>1, <3>2
  <2>4. Cardinality(Lost) + 1 <= kills
    BY <1>2 DEF SeriesInv, OpenLine
  <2>5. Cardinality(Lost') <= kills /\ Cardinality(Lost') \in Nat
    BY <2>3, <2>4, FewerLost, LostIsFinite DEF SeriesInv
  <2> QED BY <1>1, <2>1, <2>2, <2>5 DEF SeriesInv, OpenLine
<1>3. CASE ~open
  <2>1. PICK line \in {Garbage, tried'} : lines' = Append(lines, line)
    BY <1>3 DEF Torn
  <2>2. line \in Nat /\ line \in 0..tried' /\ line \notin appended
    BY <1>1, <2>1 DEF SeriesInv, Garbage
  <2>3. /\ lines' \in Seq(0..tried')
        /\ lines' # <<>> /\ lines'[Len(lines')] \notin appended'
    BY <1>1, <2>1, <2>2 DEF SeriesInv
  <2>4. Lost' \subseteq Lost
    BY <1>1, <2>1, <2>2, OwnLineCostsNothing DEF SeriesInv, Garbage
  <2>5. Cardinality(Lost') <= kills /\ Cardinality(Lost') \in Nat
    BY <1>3, <2>4, FewerLost, LostIsFinite DEF SeriesInv, OpenLine
  <2> QED BY <1>1, <2>3, <2>5 DEF SeriesInv, OpenLine
<1> QED BY <1>2, <1>3 DEF SeriesInv

\* What is left of the series is a beginning of it, and is read as it was.
LEMMA LossKeeps == ASSUME SeriesInv, PowerLoss PROVE SeriesInv'
<1>1. PICK n \in 0..Len(lines) :
        lines' = SubSeq(lines, 1, n) /\ open' = (open /\ n = Len(lines))
  BY DEF PowerLoss
<1>2. /\ tried' = tried /\ kills' = kills /\ open' \in BOOLEAN
      /\ appended' = appended \cap Range(lines') /\ appended' \subseteq 1..tried'
  BY <1>1 DEF PowerLoss, SeriesInv
<1>3. lines' \in Seq(0..tried')
  BY <1>1, <1>2 DEF SeriesInv
<1>4. open' => lines' # <<>> /\ lines'[Len(lines')] \notin appended'
  <2>1. n = Len(lines) => lines' = lines
    BY <1>1 DEF SeriesInv
  <2> QED BY <1>1, <1>2, <2>1 DEF SeriesInv
<1>5. Lost' = {}
  BY <1>2 DEF Lost, ReadHealth, ParseSeries, Garbage
<1>6. Cardinality(Lost') = 0
  BY <1>5, FS_EmptySet
<1>7. OpenLine' <= kills'
  BY <1>1, <1>2, LostIsFinite DEF SeriesInv, OpenLine
<1> QED BY <1>2, <1>3, <1>4, <1>6, <1>7 DEF SeriesInv, OpenLine

LEMMA SeriesKept == SeriesInv /\ [StoreNext]_storeVars => SeriesInv'
<1> SUFFICES ASSUME SeriesInv, [StoreNext]_storeVars PROVE SeriesInv'
  OBVIOUS
<1>1. ASSUME UNCHANGED series, kills' \in Nat, kills <= kills' PROVE SeriesInv'
  <2>1. /\ lines' = lines /\ open' = open /\ tried' = tried /\ appended' = appended
    BY <1>1 DEF series
  <2>2. Lost' = Lost /\ OpenLine' = OpenLine
    BY <2>1 DEF Lost, ReadHealth, ParseSeries, OpenLine
  <2>3. OpenLine \in Nat
    BY DEF OpenLine
  <2>4. Cardinality(Lost') + OpenLine' <= kills'
    BY <1>1, <2>2, <2>3, LostIsFinite DEF SeriesInv
  <2> QED BY <1>1, <2>1, <2>4 DEF SeriesInv
<1>2. ASSUME NEW f \in Files, Write(f) PROVE SeriesInv'
  <2>1. UNCHANGED series /\ kills' = kills
    BY <1>2 DEF Write, Begin, WriteTemp, Rename, SyncDirectory, Fail, WriteBack
  <2> QED BY <1>1, <2>1 DEF SeriesInv
<1>3. CASE AppendHealth
  BY <1>3, AppendKeeps
<1>4. CASE Kill
  BY <1>1, <1>4, TornKeeps DEF Kill, SeriesInv
<1>5. CASE PowerLoss
  BY <1>5, LossKeeps
<1>6. CASE UNCHANGED storeVars
  BY <1>1, <1>6 DEF storeVars, SeriesInv
<1> QED BY <1>2, <1>3, <1>4, <1>5, <1>6 DEF StoreNext

\* A kill costs the health series one record of a run that ended well, at most
\* (appendHealth, readHealth).
THEOREM SeriesLosesLittle == StoreSpec => []LossIsBounded
<1>1. SeriesInv => LossIsBounded
  BY LostIsFinite DEF SeriesInv, Lost, LossIsBounded, OpenLine
<1> QED BY <1>1, SeriesStart, SeriesKept, PTL DEF StoreSpec
-----------------------------------------------------------------------------
(***************************************************************************)
(* What the notifier keeps for any plan, any classes of errors and any     *)
(* number of faults.                                                       *)
(***************************************************************************)
\* While alerts are delivered, an issue that the list does not know was opened
\* by this run, for a target that has had its turn.
AlertsInv ==
  /\ OneIssuePerTarget
  /\ queue \subseteq Targets
  /\ stage = "delivering" =>
       \A i \in issues \ listed :
         i.fingerprint.scope \in Targets => i.fingerprint.scope \notin queue

\* The scope key of a target is no other scope's.
LEMMA ScopeIsTheTarget ==
  ASSUME NEW code, NEW target, ScopeKey(code, target) \in Targets
  PROVE  ScopeKey(code, target) = target
  BY PlanAssumption DEF ScopeKey, Targets

LEMMA AlertsStart == ASSUME AlertsInit PROVE AlertsInv
  BY DEF AlertsInit, AlertsInv, OneIssuePerTarget

LEMMA DeliverKeeps == ASSUME AlertsInv, Deliver PROVE AlertsInv'
<1>1. PICK target \in Targets :
        /\ target \in queue /\ stage = "delivering"
        /\ issues' = IF Known(AlertFor(target)) THEN issues
                     ELSE issues \cup {[fingerprint |-> AlertFor(target), number |-> Fresh]}
        /\ queue' = queue \ {target} /\ listed' = listed
  BY DEF Deliver, Turn
<1> DEFINE new == [fingerprint |-> AlertFor(target), number |-> Fresh]
<1>2. CASE Known(AlertFor(target))
  BY <1>1, <1>2 DEF AlertsInv, OneIssuePerTarget
<1>3. CASE ~Known(AlertFor(target))
  <2>1. issues' = issues \cup {new} /\ new.fingerprint = AlertFor(target)
    BY <1>1, <1>3
  <2> HIDE DEF new
  <2>2. new.fingerprint.scope \in Targets => new.fingerprint.scope = target
    BY <2>1, ScopeIsTheTarget DEF AlertFor, Fingerprint
  <2>3. ASSUME NEW i \in issues, i.fingerprint = new.fingerprint,
               i.fingerprint.scope \in Targets
        PROVE  FALSE
    <3>1. i \notin listed
      BY <1>3, <2>1, <2>3 DEF Known, IssuesOf
    <3> QED BY <1>1, <2>2, <2>3, <3>1 DEF AlertsInv
  <2>4. OneIssuePerTarget'
    BY <2>1, <2>3 DEF AlertsInv, OneIssuePerTarget
  <2>5. ASSUME NEW i \in issues' \ listed', i.fingerprint.scope \in Targets
        PROVE  i.fingerprint.scope \notin queue'
    BY <1>1, <2>1, <2>2, <2>5 DEF AlertsInv
  <2>6. queue' \subseteq Targets
    BY <1>1 DEF AlertsInv
  <2> QED BY <2>4, <2>5, <2>6 DEF AlertsInv
<1> QED BY <1>2, <1>3

LEMMA AlertsKept == AlertsInv /\ [AlertsNext]_alertsVars => AlertsInv'
<1> SUFFICES ASSUME AlertsInv, [AlertsNext]_alertsVars PROVE AlertsInv'
  OBVIOUS
<1> USE DEF AlertsInv, OneIssuePerTarget
<1>1. CASE RunEnds
  BY <1>1 DEF RunEnds
<1>2. CASE ListOpen
  <2>1. queue' = Deliverable /\ listed' = issues /\ issues' = issues
    BY <1>2 DEF ListOpen
  <2>2. Deliverable \subseteq Targets
    BY DEF Deliverable, Failing
  <2> QED BY <2>1, <2>2
<1>3. CASE ListRefused \/ Die
  BY <1>3 DEF ListRefused, Die, Idle
<1>4. CASE Deliver
  BY <1>4, DeliverKeeps
<1>5. CASE DeliverRefused
  BY <1>5 DEF DeliverRefused
<1>6. CASE Delivered \/ Notified
  BY <1>6 DEF Delivered, Notified, Idle
<1>7. CASE Close \/ CloseRefused
  BY <1>7 DEF Close, CloseRefused
<1>8. CASE OperatorCloses
  BY <1>8 DEF OperatorCloses
<1>9. CASE UNCHANGED alertsVars
  BY <1>9 DEF alertsVars
<1> QED BY <1>1, <1>2, <1>3, <1>4, <1>5, <1>6, <1>7, <1>8, <1>9 DEF AlertsNext

\* A condition of one target has one open issue at most, whatever calls fail
\* and wherever the process dies (decideDelivery, before an issue is opened).
THEOREM IssuesAreNotDoubled == AlertsSpec => []OneIssuePerTarget
<1>1. AlertsInv => OneIssuePerTarget
  BY DEF AlertsInv
<1> QED BY <1>1, AlertsStart, AlertsKept, PTL DEF AlertsSpec
-----------------------------------------------------------------------------
(***************************************************************************)
(* When Resolver searches and what it then adopts, for any listings, names *)
(* and configurations, and any time-to-live.                               *)
(***************************************************************************)
Routes == {"none", "explicit_place_id", "explicit_cid", "cache", "url", "search"}
Kinds == {"none", "place_id", "cid", "search"}

ResolverTypes ==
  /\ config \in Configs
  /\ leads \in [Ids -> Ids]
  /\ cache \in Ids \cup {NoId}
  /\ age \in 0..TTL /\ sinceSuccess \in 0..TTL
  /\ pc \in {"idle", "opening", "searching", "verifying"}
  /\ plan \in [via : Routes, kind : Kinds, id : Ids \cup {NoId}]

\* The cache is as old as the last success at most, and a search was chosen
\* under this configuration and this cache: neither changes before it ends.
ResolverInv ==
  /\ ResolverTypes
  /\ sinceSuccess < TTL => cache # NoId /\ age <= sinceSuccess
  /\ pc = "searching" => ~Identified /\ ~CacheIsFresh
  /\ pc = "opening" => plan.id \in Ids
  /\ pc = "verifying" => page.id \in Ids
  /\ pc \in {"opening", "verifying"} /\ plan.via = "search" => matching = 1

LEMMA ResolverStarts == ASSUME ResolverInit PROVE ResolverInv
<1>1. ResolverTypes
  BY ResolverAssumption
     DEF ResolverInit, ResolverTypes, NoPlan, Route, Routes, Kinds
<1> QED BY <1>1, ResolverAssumption DEF ResolverInit, ResolverInv

\* Every route but the search leads to a listing.
LEMMA RouteLeads ==
  ASSUME ResolverTypes
  PROVE  /\ PlanResolution \in [via : Routes, kind : Kinds, id : Ids \cup {NoId}]
         /\ PlanResolution.kind = "search" => ~Identified /\ ~CacheIsFresh
         /\ PlanResolution.via # "none" /\ PlanResolution.kind # "search" =>
              PlanResolution.id \in Ids /\ PlanResolution.via # "search"
<1>1. config \in Config
  BY ResolverAssumption DEF ResolverTypes
<1> DEFINE Sound(r) ==
      /\ r \in [via : Routes, kind : Kinds, id : Ids \cup {NoId}]
      /\ r.kind = "search" => ~Identified /\ ~CacheIsFresh
      /\ r.via # "none" /\ r.kind # "search" => r.id \in Ids /\ r.via # "search"
<1>2. ASSUME NEW via \in {"explicit_place_id", "explicit_cid", "cache", "url"},
             NEW kind \in {"place_id", "cid"}, NEW id \in Ids
      PROVE  Sound(Route(via, kind, id))
  BY DEF Route, Routes, Kinds
<1>3. config.place_id # NoId => Sound(Route("explicit_place_id", "place_id", config.place_id))
  <2>1. config.place_id # NoId => config.place_id \in Ids
    BY <1>1 DEF Config
  <2> QED BY <2>1, <1>2
<1>4. config.cid # NoId => Sound(Route("explicit_cid", "cid", config.cid))
  <2>1. config.cid # NoId => config.cid \in Ids
    BY <1>1 DEF Config
  <2> QED BY <2>1, <1>2
<1>5. CacheIsFresh => Sound(Route("cache", "place_id", cache))
  BY <1>2 DEF ResolverTypes, CacheIsFresh
<1>6. config.url # NoId => Sound(Route("url", config.url[1], config.url[2]))
  <2>1. config.url # NoId => config.url[1] \in {"place_id", "cid"} /\ config.url[2] \in Ids
    BY <1>1 DEF Config
  <2> QED BY <2>1, <1>2
<1>7. config.place_id = NoId /\ config.cid = NoId /\ config.url = NoId /\ ~CacheIsFresh
        => Sound(Route("search", "search", NoId))
  BY DEF Route, Routes, Kinds, Identified
<1>8. Sound(Unresolvable)
  BY DEF Unresolvable, Route, Routes, Kinds
<1>9. Sound(PlanResolution)
  <2> HIDE DEF Sound
  <2> QED BY <1>3, <1>4, <1>5, <1>6, <1>7, <1>8 DEF PlanResolution
<1> QED BY <1>9

LEMMA ResolverKept == ResolverInv /\ [ResolverNext]_resolverVars => ResolverInv'
<1> SUFFICES ASSUME ResolverInv, [ResolverNext]_resolverVars PROVE ResolverInv'
  OBVIOUS
<1> USE ResolverAssumption
<1>1. CASE Choose
  <2>1. CASE PlanResolution.via = "none"
    BY <1>1, <2>1
       DEF Choose, Finish, world, ResolverInv, ResolverTypes, NoPlan, Route, Routes, Kinds
  <2>2. CASE PlanResolution.via # "none"
    BY <1>1, <2>2, RouteLeads
       DEF Choose, world, ResolverInv, ResolverTypes, Identified, CacheIsFresh
  <2> QED BY <2>1, <2>2
<1>2. CASE OpenListing
  <2>1. leads[plan.id] \in Ids
    BY <1>2 DEF OpenListing, ResolverInv, ResolverTypes
  <2>2. CASE shown[leads[plan.id]] = <<>>
    BY <1>2, <2>2
       DEF OpenListing, Finish, world, ResolverInv, ResolverTypes, NoPlan, Route, Routes, Kinds
  <2>3. CASE shown[leads[plan.id]] # <<>>
    BY <1>2, <2>1, <2>3 DEF OpenListing, world, ResolverInv, ResolverTypes
  <2> QED BY <2>2, <2>3
<1>3. CASE Search
  <2>1. PICK found \in SUBSET {id \in Ids : shown[id] # <<>>} :
          LET scored == {id \in found : Similar(shown[id], config.expected_name)} IN
            /\ matching' = Cardinality(scored)
            /\ \/ /\ ChooseCandidate(scored) = {}
                  /\ Finish(IF scored = {} THEN "RESOLVE-NOTFOUND" ELSE "RESOLVE-AMBIGUOUS")
               \/ \E id \in ChooseCandidate(scored) :
                    /\ plan' = [plan EXCEPT !.id = id]
                    /\ pc' = "opening"
                    /\ UNCHANGED <<page, result>>
    BY <1>3 DEF Search
  <2> DEFINE scored == {id \in found : Similar(shown[id], config.expected_name)}
  <2>2. CASE ChooseCandidate(scored) = {} /\ pc' = "idle" /\ plan' = NoPlan
    BY <1>3, <2>2
       DEF Search, world, ResolverInv, ResolverTypes, NoPlan, Route, Routes, Kinds
  <2>3. ASSUME NEW id \in ChooseCandidate(scored),
               plan' = [plan EXCEPT !.id = id], pc' = "opening"
        PROVE  ResolverInv'
    <3>1. Cardinality(scored) = 1 /\ id \in Ids
      BY <2>3 DEF ChooseCandidate
    <3> QED BY <1>3, <2>1, <2>3, <3>1 DEF Search, world, ResolverInv, ResolverTypes
  <2> QED BY <2>1, <2>2, <2>3 DEF Finish
<1>4. CASE Verify
  BY <1>4 DEF Verify, Remember, Finish, world, ResolverInv, ResolverTypes,
              NoPlan, Route, Routes, Kinds
<1>5. CASE Throw
  BY <1>5 DEF Throw, Finish, world, ResolverInv, ResolverTypes,
              NoPlan, Route, Routes, Kinds
<1>6. CASE NextDay
  BY <1>6 DEF NextDay, world, ResolverInv, ResolverTypes
<1>7. CASE Retitle
  BY <1>7 DEF Retitle, ResolverInv, ResolverTypes, Identified, CacheIsFresh
<1>8. CASE Redirect
  BY <1>8 DEF Redirect, ResolverInv, ResolverTypes, Identified, CacheIsFresh
<1>9. CASE Configure
  BY <1>9 DEF Configure, ResolverInv, ResolverTypes
<1>10. CASE UNCHANGED resolverVars
  BY <1>10 DEF resolverVars, ResolverInv, ResolverTypes, Identified, CacheIsFresh
<1> QED BY <1>1, <1>2, <1>3, <1>4, <1>5, <1>6, <1>7, <1>8, <1>9, <1>10 DEF ResolverNext

THEOREM ResolverHolds == ResolverSpec => []ResolverInv
  BY ResolverStarts, ResolverKept, PTL DEF ResolverSpec

\* The platform is asked to search only when the listing has no identifier of
\* its own and none was verified within the time-to-live (planResolution).
THEOREM SearchComesLast == ResolverSpec => []SearchIsLast
<1>1. ResolverInv => SearchIsLast
  BY ResolverAssumption DEF ResolverInv, ResolverTypes, SearchIsLast, CacheIsFresh
<1> QED BY <1>1, ResolverHolds, PTL

\* Whatever the platform answers, and however it renames and merges listings
\* in between, a listing that a search led to and that was adopted was the only
\* answer that matched (chooseCandidate, verifyAndCache).
THEOREM NothingIsGuessed == ResolverSpec => NeverGuesses
<1> DEFINE Adopted ==
      pc = "verifying" /\ pc' = "idle" /\ result' = "ok" /\ plan.via = "search"
        => matching = 1
<1>1. ResolverInv => Adopted
  BY DEF ResolverInv
<1>2. [][Adopted]_resolverVars => NeverGuesses
  BY PTL DEF NeverGuesses
<1> QED BY <1>1, <1>2, ResolverHolds, PTL
-----------------------------------------------------------------------------
(***************************************************************************)
(* What a client's configuration has passed when it is harvested, for any  *)
(* files, environments, profiles, overrides and flags.                     *)
(***************************************************************************)

\* A page is to be read only under a complete record, for what validate-config
\* let through and what the workflows merged.  A verdict was given by the
\* harvest of the document that is merged.
SettingsInv ==
  /\ report # None /\ ~report.blocked => ~DomUnauthorised(draft)
  /\ merged # None => ~DomUnauthorised(merged)
  /\ DOMAIN verdict # {} =>
       /\ merged # None
       /\ verdict = [i \in DOMAIN merged.listings |-> Harvested(merged, merged.listings[i])]

LEMMA SettingsStart == ASSUME SettingsInit PROVE SettingsInv
  BY DEF SettingsInit, SettingsInv

\* V-3 is among the rules that block.
LEMMA UnblockedIsAuthorised ==
  ASSUME NEW document, NEW env,
         ValidateSemantics(document, env) \cap BlockingRules = {}
  PROVE  ~DomUnauthorised(document)
<1>1. "V-3" \in BlockingRules
  BY DEF BlockingRules
<1>2. ~Broken("V-3", document, env)
  BY <1>1 DEF ValidateSemantics
<1> QED BY <1>2 DEF Broken

LEMMA SettingsKept == SettingsInv /\ [SettingsNext]_settingsVars => SettingsInv'
<1> SUFFICES ASSUME SettingsInv, [SettingsNext]_settingsVars PROVE SettingsInv'
  OBVIOUS
<1>1. CASE Edit
  BY <1>1 DEF Edit, SettingsInv
<1>2. CASE SetEnvironment
  BY <1>2 DEF SetEnvironment, SettingsInv
<1>3. CASE Validate
  <2>1. ~report'.blocked => ValidateSemantics(draft, environment) \cap BlockingRules = {}
    BY <1>3 DEF Validate
  <2>2. ~report'.blocked => ~DomUnauthorised(draft)
    BY <2>1, UnblockedIsAuthorised
  <2> QED BY <1>3, <2>2 DEF Validate, SettingsInv
<1>4. CASE Load
  BY <1>4 DEF Load, SettingsInv
<1>5. CASE Merge
  BY <1>5 DEF Merge, SettingsInv
<1>6. CASE Harvest
  BY <1>6 DEF Harvest, SettingsInv
<1>7. CASE UNCHANGED settingsVars
  BY <1>7 DEF settingsVars, SettingsInv
<1> QED BY <1>1, <1>2, <1>3, <1>4, <1>5, <1>6, <1>7 DEF SettingsNext

\* The pages of a source are read only under a record that is complete,
\* acknowledges the scope and names a permitted relationship: V-3 blocks the
\* merge of any other (missingAuthorisationFields).
THEOREM PagesNeedARecord == SettingsSpec => []DomIsAuthorised
<1>1. SettingsInv => DomIsAuthorised
  <2> SUFFICES ASSUME SettingsInv, NEW i \in DOMAIN verdict, verdict[i] = "google:dom"
               PROVE  LET record == RecordFor(merged, merged.listings[i]) IN
                      /\ record # None
                      /\ record["scope_ack"] = "true"
                      /\ record["relationship"] \in Relationships
                      /\ \A f \in Fields : record[f] \notin {None, "blank"}
    BY DEF DomIsAuthorised
  <2> DEFINE l == merged.listings[i]
             record == RecordFor(merged, l)
  <2>1. /\ i \in DOMAIN merged.listings /\ verdict[i] = Harvested(merged, l)
        /\ ~DomUnauthorised(merged)
    BY DEF SettingsInv
  <2>2. l.adapter = "google:dom"
    BY <2>1 DEF Harvested
  <2>3. l \in Listings(merged)
    BY <2>1 DEF Listings, Range
  <2>4. MissingFields(record) = {} /\ record["relationship"] \in Relationships
    BY <2>1, <2>2, <2>3 DEF DomUnauthorised
  <2> HIDE DEF record, l
  <2>5. record # None
    BY <2>4 DEF MissingFields, Fields
  <2>6. \A f \in Fields : ~(IF f = "scope_ack" THEN record[f] # "true"
                                               ELSE record[f] \in {None, "blank"})
    BY <2>4, <2>5 DEF MissingFields
  <2>7. record["scope_ack"] = "true"
    BY <2>6 DEF Fields
  <2>8. \A f \in Fields \ {"scope_ack"} : record[f] \notin {None, "blank"}
    BY <2>6
  <2>9. "true" \notin {None, "blank"}
    BY SettingsAssumption
  <2> QED BY <2>4, <2>5, <2>7, <2>8, <2>9 DEF record, l
<1> QED BY <1>1, SettingsStart, SettingsKept, PTL DEF SettingsSpec

\* The fold takes the layers in order: what the first n of them make is what
\* the first n - 1 make with the nth laid over it.
InOrder(layers, upTo) ==
  /\ upTo[0] = {}
  /\ \A n \in 1..6 : upTo[n] = MergeLayer(upTo[n - 1], layers[n])
  /\ upTo[6] = ResolveLayers(layers)

LEMMA LayersInOrder ==
  ASSUME NEW layers, DOMAIN layers = 1..6
  PROVE  \E upTo : InOrder(layers, upTo)
<1> DEFINE S == 1..6
           D == SUBSET UNION {layers[n] : n \in S}
           g == [n \in S |-> [base \in D |-> MergeLayer(base, layers[n])]]
           IsMerged(f) == f = [s \in SUBSET S |->
                 IF s = {} THEN {} ELSE MergeLayer(f[s \ {Max(s)}], layers[Max(s)])]
<1>1. ResolveLayers(layers) = (CHOOSE f : IsMerged(f))[S]
  BY Zenon DEF ResolveLayers, FoldLeft, MapThenFoldSet
<1>2. g \in [S -> [D -> D]]
  <2>1. \A n \in S : \A base \in D : MergeLayer(base, layers[n]) \in D
    BY DEF MergeLayer
  <2> QED BY <2>1
<1>3. \E f \in [SUBSET S -> D] : IsFold(f, S, Lasts(6), g, {})
  <2>1. IsFiniteSet(1..6) /\ Picks(Lasts(6), 1..6)
    BY LastsPick, 6 \in Nat
  <2>2. {} \in D
    OBVIOUS
  <2> HIDE DEF D, g
  <2> QED BY <1>2, <2>1, <2>2, FoldIsDefined
<1>4. PICK f0 \in [SUBSET S -> D] : IsFold(f0, S, Lasts(6), g, {})
  BY <1>3
<1>5. IsMerged(f0)
  <2>1. \A s \in SUBSET S : s # {} =>
          g[Lasts(6)[s]][f0[s \ {Lasts(6)[s]}]] = MergeLayer(f0[s \ {Max(s)}], layers[Max(s)])
    <3> SUFFICES ASSUME NEW s \in SUBSET S, s # {}
                 PROVE  g[Lasts(6)[s]][f0[s \ {Lasts(6)[s]}]]
                          = MergeLayer(f0[s \ {Max(s)}], layers[Max(s)])
      OBVIOUS
    <3>1. Lasts(6)[s] = Max(s) /\ Max(s) \in S
      BY MaxIsGreatest DEF Lasts
    <3>2. f0[s \ {Max(s)}] \in D
      OBVIOUS
    <3> HIDE DEF S, D
    <3> QED BY <3>1, <3>2
  <2> HIDE DEF S, D, g
  <2> QED BY <1>4, <2>1 DEF IsFold
<1>6. IsMerged(CHOOSE f : IsMerged(f))
  <2> HIDE DEF IsMerged
  <2> QED BY <1>5
<1> DEFINE f == CHOOSE f : IsMerged(f)
<1> HIDE DEF f
<1>7. \A s \in SUBSET S : f[s] =
        IF s = {} THEN {} ELSE MergeLayer(f[s \ {Max(s)}], layers[Max(s)])
  BY <1>6 DEF f
<1>8. \A n \in 1..6 : /\ 1..n \in SUBSET S /\ 1..n # {}
                      /\ Max(1..n) = n /\ (1..n) \ {n} = 1..(n - 1)
  BY LastOfPrefix, 6 \in Nat DEF Lasts
<1>9. f[{}] = {}
  <2> HIDE DEF S
  <2> QED BY <1>7
<1>10. \A n \in 1..6 : f[1..n] = MergeLayer(f[1..(n - 1)], layers[n])
  <2> TAKE n \in 1..6
  <2> DEFINE s == 1..n
             rest == 1..(n - 1)
  <2>1. s \in SUBSET S /\ s # {} /\ Max(s) = n /\ s \ {n} = rest
    BY <1>8
  <2> HIDE DEF S, s, rest
  <2>2. f[s] = MergeLayer(f[s \ {Max(s)}], layers[Max(s)])
    BY <1>7, <2>1, Zenon
  <2>3. f[s] = MergeLayer(f[rest], layers[n])
    BY <2>1, <2>2, Zenon
  <2> QED BY <2>3 DEF s, rest
<1> DEFINE upTo == [n \in 0..6 |-> f[1..n]]
<1>11. upTo[0] = {}
  <2>1. 1..0 = {} /\ 0 \in 0..6
    OBVIOUS
  <2> QED BY <1>9, <2>1, Zenon
<1>12. \A n \in 1..6 : upTo[n] = MergeLayer(upTo[n - 1], layers[n])
  <2> TAKE n \in 1..6
  <2>1. n \in 0..6 /\ n - 1 \in 0..6
    OBVIOUS
  <2> QED BY <1>10, <2>1, Zenon
<1>13. upTo[6] = ResolveLayers(layers)
  BY <1>1 DEF f
<1> HIDE DEF upTo
<1> QED BY <1>11, <1>12, <1>13 DEF InOrder

\* A loaded configuration is what the loader makes of the environment it is
\* run with, and of some client's file.
LoadedHere ==
  /\ draft \in Documents \cup {None}
  /\ environment \in Environments
  /\ loaded # None =>
       \E profile \in Profiles \cup {{}}, client \in Documents \cup {None},
          listing \in Overrides \cup {{}}, flags \in Flags \cup {{}} :
         loaded = LoadConfig(profile, client, listing, environment, flags)

LEMMA LoadedStays == LoadedHere /\ [SettingsNext]_settingsVars => LoadedHere'
<1> SUFFICES ASSUME LoadedHere, [SettingsNext]_settingsVars PROVE LoadedHere'
  OBVIOUS
<1>1. CASE Edit \/ SetEnvironment
  BY <1>1 DEF Edit, SetEnvironment, LoadedHere
<1>2. CASE Validate
  <2>1. /\ loaded' = LoadConfig({}, draft, {}, environment, {})
        /\ environment' = environment /\ draft' = draft
    BY <1>2 DEF Validate
  <2> QED BY <2>1 DEF LoadedHere
<1>3. CASE Load
  <2>1. PICK profile \in Profiles, listing \in ListingLayers(draft), flags \in Flags :
          loaded' = LoadConfig(profile, draft, listing, environment, flags)
    BY <1>3 DEF Load
  <2>2. environment' = environment /\ draft' = draft
    BY <1>3 DEF Load
  <2>3. listing \in Overrides \cup {{}}
    BY DEF LoadedHere, ListingLayers, Overrides
  <2> QED BY <2>1, <2>2, <2>3 DEF LoadedHere
<1>4. CASE Merge \/ Harvest \/ UNCHANGED settingsVars
  BY <1>4 DEF Merge, Harvest, settingsVars, LoadedHere
<1> QED BY <1>1, <1>2, <1>3, <1>4 DEF SettingsNext

\* A variable that is neither foreign nor the run's is in the fifth layer,
\* and only the sixth comes after it.
LEMMA LoadHears ==
  ASSUME NEW profile, NEW client, NEW listing, NEW env, NEW flags,
         LoadConfig(profile, client, listing, env, flags).ok,
         NEW v \in env, v.name \notin Foreign
  PROVE  LET answer == LoadConfig(profile, client, listing, env, flags) IN
         \/ v.name \in answer.run
         \/ \E l \in answer.config : l.path = v.path /\ l.value \in Coerce(v)
         \/ \E path \in DOMAIN answer.trace :
              /\ IsPrefix(path, v.path) \/ IsPrefix(v.path, path)
              /\ answer.trace[path].layer = "flags"
<1> DEFINE answer == LoadConfig(profile, client, listing, env, flags)
           layers == <<Defaults, profile, MigrateLayer(client), listing,
                       EnvironmentLayer(env), flags>>
<1>1. /\ EnvironmentErrors(env) = {}
      /\ answer = [ok |-> TRUE, config |-> ResolveLayers(layers), trace |-> TraceOf(layers),
                   run |-> {u.name : u \in env} \cap RunVariables]
  BY DEF LoadConfig, Refused
<1>2. CASE v.name \in RunVariables
  BY <1>1, <1>2
<1>3. CASE v.name \notin RunVariables
  <2>1. v \in Ours(env) /\ IsSetting(v) /\ Coerce(v) # {}
    BY <1>1, <1>3 DEF EnvironmentErrors, Ours
  <2>2. PICK value \in Coerce(v) : TRUE
    BY <2>1
  <2> DEFINE leaf == Leaf(v.path, value)
  <2>3. leaf \in EnvironmentLayer(env) /\ leaf.path = v.path /\ leaf.value = value
    BY <2>1, <2>2 DEF EnvironmentLayer, Leaf
  <2> HIDE DEF leaf
  <2>4. PICK below : ResolveLayers(layers)
                       = MergeLayer(MergeLayer(below, EnvironmentLayer(env)), flags)
    <3>1. DOMAIN layers = 1..6 /\ layers[5] = EnvironmentLayer(env) /\ layers[6] = flags
      OBVIOUS
    <3> HIDE DEF layers
    <3>2. PICK upTo : InOrder(layers, upTo)
      BY <3>1, LayersInOrder
    <3>3. upTo[6] = MergeLayer(upTo[5], layers[6]) /\ upTo[5] = MergeLayer(upTo[4], layers[5])
      <4>1. 5 \in 1..6 /\ 6 \in 1..6 /\ 5 - 1 = 4 /\ 6 - 1 = 5
        OBVIOUS
      <4> QED BY <3>2, <4>1 DEF InOrder
    <3> QED BY <3>1, <3>2, <3>3 DEF InOrder
  <2>5. leaf \in MergeLayer(below, EnvironmentLayer(env))
    BY <2>3 DEF MergeLayer
  <2>6. CASE \A o \in flags : ~IsPrefix(v.path, o.path) /\ ~IsPrefix(o.path, v.path)
    <3>1. leaf \in ResolveLayers(layers)
      BY <2>3, <2>4, <2>5, <2>6 DEF MergeLayer
    <3> HIDE DEF layers
    <3> QED BY <1>1, <2>2, <2>3, <3>1
  <2>7. CASE \E o \in flags : IsPrefix(v.path, o.path) \/ IsPrefix(o.path, v.path)
    <3>1. PICK o \in flags : IsPrefix(v.path, o.path) \/ IsPrefix(o.path, v.path)
      BY <2>7
    <3>2. layers[6] = flags
      OBVIOUS
    <3> HIDE DEF layers
    <3>3. o.path \in DOMAIN TraceOf(layers) /\ TraceOf(layers)[o.path].layer = "flags"
      <4>1. o \in {l \in layers[6] : l.path = o.path}
        BY <3>2
      <4>2. o.path \in UNION {{l.path : l \in layers[n]} : n \in 1..6}
        BY <3>2
      <4> DEFINE naming(n) == {l \in layers[n] : l.path = o.path}
                 Latest(n) == naming(n) # {} /\ \A k \in n + 1..6 : naming(k) = {}
                 last == CHOOSE n \in 1..6 : Latest(n)
      <4>3. Latest(6)
        BY <4>1
      <4>4. \A n \in 1..6 : Latest(n) => n = 6
        <5> SUFFICES ASSUME NEW n \in 1..6, Latest(n), n # 6 PROVE FALSE
          OBVIOUS
        <5>1. 6 \in n + 1..6
          OBVIOUS
        <5> QED BY <4>1, <5>1
      <4>5. last = 6
        <5> HIDE DEF Latest
        <5> QED BY <4>3, <4>4
      <4>6. TraceOf(layers)[o.path] = [layer |-> LayerNames[last],
              value |-> TraceValue(o.path, (CHOOSE l \in naming(last) : TRUE).value)]
        BY <4>2 DEF TraceOf
      <4>7. DOMAIN TraceOf(layers) = UNION {{l.path : l \in layers[n]} : n \in 1..6}
        BY DEF TraceOf
      <4>8. LayerNames[6] = "flags"
        BY DEF LayerNames
      <4> HIDE DEF last
      <4> QED BY <4>2, <4>5, <4>6, <4>7, <4>8
    <3> QED BY <1>1, <3>1, <3>3
  <2> QED BY <2>6, <2>7
<1> QED BY <1>2, <1>3

\* No variable of the engine's is set in vain, whatever the other layers say
\* (readEnvironment, resolveLayers).
THEOREM NoVariableIsVain == SettingsSpec => []VariableIsHeard
<1>1. SettingsInit => LoadedHere
  BY DEF SettingsInit, LoadedHere
<1>2. LoadedHere => VariableIsHeard
  BY LoadHears DEF LoadedHere, VariableIsHeard
<1> QED BY <1>1, <1>2, LoadedStays, PTL DEF SettingsSpec

LEMMA PathBeginsItself == ASSUME NEW path \in Seq(STRING) PROVE IsPrefix(path, path)
  BY DEF IsPrefix

\* Layers as the loader gets them: a leaf of a layer is the only one at its path.
WellFormed(layers) ==
  /\ DOMAIN layers = 1..6
  /\ \A n \in 1..6 : \A l \in layers[n] : IsPrefix(l.path, l.path)
  /\ \A n \in 1..6 : \A l, k \in layers[n] : l.path = k.path => l = k

\* A leaf of what the first n layers make is the last of them to name its path.
Winner(layers, n, l) ==
  \E m \in 1..n : l \in layers[m] /\ \A k \in m + 1..n : \A o \in layers[k] : o.path # l.path

LEMMA WinnersOnly ==
  ASSUME NEW layers, WellFormed(layers), NEW upTo, InOrder(layers, upTo)
  PROVE  \A l \in ResolveLayers(layers) : Winner(layers, 6, l)
<1> DEFINE Good == {n \in Nat : n <= 6 => \A l \in upTo[n] : Winner(layers, n, l)}
<1>1. 0 \in Good
  BY DEF InOrder
<1>2. ASSUME NEW n \in Nat, n \in Good PROVE n + 1 \in Good
  <2> SUFFICES ASSUME n + 1 <= 6, NEW l \in upTo[n + 1] PROVE Winner(layers, n + 1, l)
    OBVIOUS
  <2>1. n + 1 \in 1..6 /\ (n + 1) - 1 = n /\ n <= 6
    OBVIOUS
  <2>2. l \in MergeLayer(upTo[n], layers[n + 1])
    BY <2>1 DEF InOrder
  <2>3. CASE l \in layers[n + 1]
    <3>1. n + 1 \in 1..(n + 1) /\ (n + 1) + 1..n + 1 = {}
      OBVIOUS
    <3> QED BY <2>3, <3>1 DEF Winner
  <2>4. CASE l \in upTo[n] /\ \A o \in layers[n + 1] : ~IsPrefix(l.path, o.path)
    <3>1. PICK m \in 1..n :
            l \in layers[m] /\ \A k \in m + 1..n : \A o \in layers[k] : o.path # l.path
      BY <1>2, <2>1, <2>4 DEF Winner
    <3>2. m \in 1..6 /\ m \in 1..n + 1 /\ (m + 1..n + 1) \subseteq (m + 1..n) \cup {n + 1}
      BY <2>1
    <3>3. IsPrefix(l.path, l.path)
      BY <3>1, <3>2 DEF WellFormed
    <3>4. \A o \in layers[n + 1] : o.path # l.path
      BY <2>4, <3>3
    <3> QED BY <3>1, <3>2, <3>4 DEF Winner
  <2> QED BY <2>2, <2>3, <2>4 DEF MergeLayer
<1>3. 6 \in Good
  <2> HIDE DEF Good
  <2> QED BY <1>1, <1>2, Ascending
<1> QED BY <1>3 DEF InOrder

LEMMA TraceFollowsTheMerge ==
  ASSUME NEW layers, WellFormed(layers), NEW l \in ResolveLayers(layers)
  PROVE  TraceOf(layers)[l.path].value = TraceValue(l.path, l.value)
<1>1. PICK upTo : InOrder(layers, upTo)
  BY LayersInOrder DEF WellFormed
<1>2. PICK m \in 1..6 :
        l \in layers[m] /\ \A k \in m + 1..6 : \A o \in layers[k] : o.path # l.path
  BY <1>1, WinnersOnly DEF Winner
<1> DEFINE naming(n) == {o \in layers[n] : o.path = l.path}
           Latest(n) == naming(n) # {} /\ \A k \in n + 1..6 : naming(k) = {}
           last == CHOOSE n \in 1..6 : Latest(n)
<1>3. naming(m) = {l}
  BY <1>2 DEF WellFormed
<1>4. Latest(m)
  BY <1>2, <1>3
<1>5. \A n \in 1..6 : Latest(n) => n = m
  <2> SUFFICES ASSUME NEW n \in 1..6, Latest(n), n # m PROVE FALSE
    OBVIOUS
  <2>1. n \in m + 1..6 \/ m \in n + 1..6
    OBVIOUS
  <2>2. naming(n) # {} /\ naming(m) # {}
    BY <1>3
  <2> QED BY <1>4, <2>1, <2>2
<1>6. last = m
  <2> HIDE DEF Latest
  <2> QED BY <1>4, <1>5
<1>7. l.path \in UNION {{o.path : o \in layers[n]} : n \in 1..6}
  BY <1>2
<1>8. TraceOf(layers)[l.path] = [layer |-> LayerNames[last],
        value |-> TraceValue(l.path, (CHOOSE o \in naming(last) : TRUE).value)]
  BY <1>7 DEF TraceOf
<1>9. (CHOOSE o \in naming(m) : TRUE) = l
  BY <1>3
<1> DEFINE said(n) == CHOOSE o \in naming(n) : TRUE
           shows == TraceOf(layers)[l.path]
<1>10. shows.value = TraceValue(l.path, said(last).value)
  BY <1>8
<1>11. said(last) = l
  BY <1>6, <1>9, Zenon
<1> HIDE DEF said, shows, last
<1>12. shows.value = TraceValue(l.path, l.value)
  BY <1>10, <1>11, Zenon
<1> QED BY <1>12 DEF shows

\* The environment's layer says one thing of a path: one variable stands for
\* it, and its text reads as one value.
LEMMA EnvironmentIsALayer ==
  ASSUME NEW env \in Environments
  PROVE  /\ \A l \in EnvironmentLayer(env) : IsPrefix(l.path, l.path)
         /\ \A l, k \in EnvironmentLayer(env) : l.path = k.path => l = k
<1>1. \A l \in EnvironmentLayer(env) :
        \E v \in env : IsSetting(v) /\ l.path = v.path /\ l.value \in Coerce(v)
                       /\ l = Leaf(v.path, l.value)
  BY DEF EnvironmentLayer, Leaf, Ours
<1>2. \A d \in Defaults : d.path \in Seq(STRING) \ {<<>>}
  BY SettingsAssumption
<1>3. ASSUME NEW v, NEW x \in Coerce(v), NEW y \in Coerce(v) PROVE x = y
  BY <1>3 DEF Coerce
<1>4. \A v : IsSetting(v) => v.path \in Seq(STRING) \ {<<>>}
  BY <1>2 DEF IsSetting
<1>5. ASSUME NEW l \in EnvironmentLayer(env), NEW k \in EnvironmentLayer(env),
             l.path = k.path
      PROVE  l = k
  <2>1. PICK v \in env : IsSetting(v) /\ l.path = v.path /\ l.value \in Coerce(v)
                         /\ l = Leaf(v.path, l.value)
    BY <1>1
  <2>2. PICK w \in env : IsSetting(w) /\ k.path = w.path /\ k.value \in Coerce(w)
                         /\ k = Leaf(w.path, k.value)
    BY <1>1
  <2>3. v = w
    BY <1>4, <1>5, <2>1, <2>2, SettingsAssumption
  <2> QED BY <1>3, <2>1, <2>2, <2>3
<1> QED BY <1>1, <1>4, <1>5, PathBeginsItself

\* A migrated file has its version at its own path and nothing else there.
LEMMA FileIsALayer ==
  ASSUME NEW client \in Documents \cup {None}
  PROVE  /\ \A l \in MigrateLayer(client) : IsPrefix(l.path, l.path)
         /\ \A l, k \in MigrateLayer(client) : l.path = k.path => l = k
<1>1. CASE client = None
  BY <1>1 DEF MigrateLayer
<1>2. CASE client # None
  <2> DEFINE version == Leaf(<<"config_version">>, Number(ConfigVersion))
  <2>1. /\ \A l \in client.leaves : IsPrefix(l.path, l.path)
        /\ \A l, k \in client.leaves : IsPrefix(l.path, k.path) => l = k
    BY <1>2, SettingsAssumption, PathBeginsItself
  <2>2. IsPrefix(version.path, version.path)
    BY DEF Leaf, IsPrefix
  <2>3. MigrateLayer(client) = {l \in client.leaves : ~IsPrefix(l.path, version.path)
                                                     /\ ~IsPrefix(version.path, l.path)}
                                 \cup {version}
    BY <1>2 DEF MigrateLayer, MergeLayer
  <2> HIDE DEF version
  <2>4. \A l \in MigrateLayer(client) : IsPrefix(l.path, l.path)
    BY <2>1, <2>2, <2>3
  <2> QED BY <2>1, <2>3, <2>4
<1> QED BY <1>1, <1>2

\* The trace explains the result: what the loader answers for each setting is
\* what the trace gives for its path, whatever the layers say and however
\* their objects overlap (mergeLayer, leafPaths, resolveLayers).
THEOREM TraceExplains == SettingsSpec => []TraceNamesTheWinner
<1>1. SettingsInit => LoadedHere
  BY DEF SettingsInit, LoadedHere
<1>2. LoadedHere => TraceNamesTheWinner
  <2> SUFFICES ASSUME LoadedHere, loaded # None, NEW l \in loaded.config
               PROVE  loaded.trace[l.path].value = TraceValue(l.path, l.value)
    BY DEF TraceNamesTheWinner
  <2>1. PICK profile \in Profiles \cup {{}}, client \in Documents \cup {None},
             listing \in Overrides \cup {{}}, flags \in Flags \cup {{}} :
          loaded = LoadConfig(profile, client, listing, environment, flags)
    BY DEF LoadedHere
  <2> DEFINE layers == <<Defaults, profile, MigrateLayer(client), listing,
                         EnvironmentLayer(environment), flags>>
  <2>2. loaded = [ok |-> TRUE, config |-> ResolveLayers(layers), trace |-> TraceOf(layers),
                  run |-> {v.name : v \in environment} \cap RunVariables]
    BY <2>1 DEF LoadConfig, Refused
  <2>3. WellFormed(layers)
    <3>1. \A layer \in {Defaults, profile, listing, flags} :
            /\ \A o \in layer : IsPrefix(o.path, o.path)
            /\ \A o, k \in layer : o.path = k.path => o = k
      <4>1. \A layer \in {Defaults, profile, listing, flags} :
              /\ \A o \in layer : o.path \in Seq(STRING)
              /\ \A o, k \in layer : IsPrefix(o.path, k.path) => o = k
        BY SettingsAssumption
      <4> QED BY <4>1, PathBeginsItself
    <3>2. environment \in Environments
      BY DEF LoadedHere
    <3>3. /\ layers[1] = Defaults /\ layers[2] = profile /\ layers[3] = MigrateLayer(client)
          /\ layers[4] = listing /\ layers[5] = EnvironmentLayer(environment)
          /\ layers[6] = flags /\ DOMAIN layers = 1..6
      OBVIOUS
    <3> HIDE DEF layers
    <3>4. \A n \in 1..6 : /\ \A o \in layers[n] : IsPrefix(o.path, o.path)
                          /\ \A o, k \in layers[n] : o.path = k.path => o = k
      <4> TAKE n \in 1..6
      <4>1. n \in {1, 2, 4, 6} \/ n = 3 \/ n = 5
        OBVIOUS
      <4>2. CASE n \in {1, 2, 4, 6}
        BY <3>1, <3>3, <4>2
      <4>3. CASE n = 3
        BY <3>3, <4>3, FileIsALayer
      <4>4. CASE n = 5
        BY <3>2, <3>3, <4>4, EnvironmentIsALayer
      <4> QED BY <4>1, <4>2, <4>3, <4>4
    <3> QED BY <3>3, <3>4 DEF WellFormed
  <2> HIDE DEF layers
  <2> QED BY <2>2, <2>3, TraceFollowsTheMerge
<1> QED BY <1>1, <1>2, LoadedStays, PTL DEF SettingsSpec
=============================================================================
