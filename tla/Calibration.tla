---------------------------- MODULE Calibration ----------------------------
(***************************************************************************)
(* The calibration of the scoring modules: the rows of cgc_jla, the        *)
(* changelog of their changes and the cache every instance keeps of them   *)
(* (api/v1/endpoints/calibration.py, CGCDBLoader in                        *)
(* app/Core/db/cgc_db_loader.py, and their part of database.py).           *)
(*                                                                         *)
(* update_calibration reads the row, updates it, writes the changelog and  *)
(* empties the cache, in three transactions and with no await between      *)
(* them: other instances interleave, its own does nothing else meanwhile.  *)
(* A commit whose acknowledgement is lost has its effect and raises.       *)
(*                                                                         *)
(* A row is the sequence of its versions, the last of which is stored; the *)
(* earlier ones, and who wrote which, are history.  A request may carry    *)
(* any value: the one it read, one that was there before, another's.       *)
(*                                                                         *)
(* Definitions placed just before the one they vary (RecordForgiven before *)
(* RecordFails) are plausible bugs; no specification uses them.            *)
(***************************************************************************)
EXTENDS Integers, Sequences, FiniteSets

CONSTANTS Instances,
          Rows,          \* rows of the tables in _CALIBRATION_MODULES
          Columns,
          Editable,      \* their "editable_columns"
          Keys,          \* cache keys: "ecm_BANKING", "pfm_BANKING_transfer" ...
          KeyRow,         \* the row each key is loaded from
          Values,
          Seed,          \* the value every column is provisioned with
          Payloads,      \* the "fields" a request may carry: columns and their values
          Updates,       \* PUT requests of administrators
          Null,
          MaxRestarts    \* bound: instances that die or are replaced

ASSUME ColumnsAssumption == Editable \subseteq Columns /\ Editable # {}
ASSUME ValuesAssumption == Seed \in Values
ASSUME PayloadsAssumption ==
  \A p \in Payloads : \E cs \in SUBSET Columns : cs # {} /\ p \in [cs -> Values]
ASSUME KeyRowAssumption == KeyRow \in [Keys -> Rows]
ASSUME NullAssumption == Null \notin Instances \cup Rows \cup Updates
ASSUME BoundAssumption == MaxRestarts \in Nat

VARIABLES versions,   \* of each row, the stored one last
          changelog,  \* cgc_calibration_changelog
          cache,      \* _cache of each instance's loader
          put,        \* the updates
          restarts

calibrationVars == <<versions, changelog, cache, put, restarts>>

Contents == [Columns -> Values]
Versions == [content : Contents, by : Updates \cup {Null}]
Part(contents, cs) == [c \in cs |-> contents[c]]

\* What is cached under a key: nothing, the bundled fallback, or a version.
NotCached == 0
Fallback == -1
EmptyCache == [k \in Keys |-> NotCached]
Cached == {NotCached, Fallback} \cup (Nat \ {0})

NoFields == [c \in {} |-> Seed]
Fields == Payloads \cup {NoFields}

\* Columns named by the request, with their values before and after.
Entries == UNION {[update : Updates, row : Rows, columns : {cs},
                   before : [cs -> Values], after : [cs -> Values]] : cs \in SUBSET Columns}

UpdateStates ==
  [pc : {"new", "update", "record", "reload", "done"},
   reply : {"none", "refused", "failed", "ok", "lost"},
   at : Instances \cup {Null},
   row : Rows \cup {Null},
   fields : Fields,
   previous : Nat,    \* version found by get_calibration_row
   written : Nat]     \* version update_calibration_row returned, 0 for none

CalibrationTypeOK ==
  /\ versions \in [Rows -> Seq(Versions)]
  /\ \A r \in Rows : versions[r] # <<>>
  /\ changelog \subseteq Entries
  /\ cache \in [Instances -> [Keys -> Cached]]
  /\ put \in [Updates -> UpdateStates]
  /\ restarts \in 0..MaxRestarts

New == [pc |-> "new", reply |-> "none", at |-> Null, row |-> Null, fields |-> NoFields,
        previous |-> 0, written |-> 0]

CalibrationInit ==
  /\ versions = [r \in Rows |-> <<[content |-> [c \in Columns |-> Seed], by |-> Null]>>]
  /\ changelog = {}
  /\ cache = [i \in Instances |-> EmptyCache]
  /\ put = [u \in Updates |-> New]
  /\ restarts = 0

-----------------------------------------------------------------------------
(* CGCDBLoader *)

Latest(r) == Len(versions[r])
Held(r, n) == versions[r][n].content

Busy(i) == \E u \in Updates : put[u].at = i /\ put[u].pc # "done"

\* _query finds the row, or fails and the bundled default stands in for it.
Found(k) == {Latest(KeyRow[k]), Fallback}

\* A scoring module asks for a key that is not cached.
Load(i, k) ==
  /\ ~ Busy(i)
  /\ cache[i][k] = NotCached
  /\ \E v \in Found(k) : cache' = [cache EXCEPT ![i][k] = v]
  /\ UNCHANGED <<versions, changelog, put, restarts>>

-----------------------------------------------------------------------------
(* update_calibration *)

At(u, p) == put[u].pc = p
Goto(u, p) == put' = [put EXCEPT ![u].pc = p]
Reply(u, how) == put' = [put EXCEPT ![u].pc = "done", ![u].reply = how]

\* An administrator's PUT reaches an idle instance, and the row is read.
ReadPrevious(u, i, r, fields) ==
  /\ At(u, "new")
  /\ ~ Busy(i)
  /\ put' = [put EXCEPT ![u] =
       [pc |-> "update", reply |-> "none", at |-> i, row |-> r, fields |-> fields,
        previous |-> Latest(r), written |-> 0]]
  /\ UNCHANGED <<versions, changelog, cache, restarts>>

Named(u) == DOMAIN put[u].fields
Asked(u) == Named(u) \cap Editable

\* None of the columns is editable: 400.
Refuse(u) ==
  /\ At(u, "update")
  /\ Asked(u) = {}
  /\ Reply(u, "refused")
  /\ UNCHANGED <<versions, changelog, cache, restarts>>

WrittenBack(u) ==
  [c \in Columns |-> IF c \in Asked(u) THEN put[u].fields[c] ELSE Held(put[u].row, put[u].previous)[c]]

\* The columns not asked for keep what they hold now, whatever they held when
\* the row was read.
Written(u) ==
  [c \in Columns |-> IF c \in Asked(u) THEN put[u].fields[c] ELSE Held(put[u].row, Latest(put[u].row))[c]]

\* The UPDATE ... RETURNING * of the editable columns asked for: a version of its
\* own even if it changes no value.
Store(u) ==
  /\ At(u, "update")
  /\ Asked(u) # {}
  /\ versions' = [versions EXCEPT ![put[u].row] = Append(@, [content |-> Written(u), by |-> u])]
  /\ UNCHANGED <<changelog, cache, restarts>>

UpdateRow(u) ==
  /\ Store(u)
  /\ put' = [put EXCEPT ![u].pc = "record", ![u].written = Latest(put[u].row) + 1]

UpdateUnacked(u) ==
  /\ Store(u)
  /\ Reply(u, "failed")

\* The entry takes its values from the row as it was read and as it was
\* returned, for the columns the request names.
EntryOf(u) ==
  LET r == put[u].row
      cs == Named(u)
  IN  [update |-> u, row |-> r, columns |-> cs,
       before |-> Part(Held(r, put[u].previous), cs),
       after |-> Part(Held(r, put[u].written), cs)]

\* record_calibration_change
Log(u) ==
  /\ At(u, "record")
  /\ changelog' = changelog \cup {EntryOf(u)}
  /\ UNCHANGED <<versions, cache, restarts>>

Record(u) ==
  /\ Log(u)
  /\ Goto(u, "reload")

RecordUnacked(u) ==
  /\ Log(u)
  /\ Reply(u, "failed")

RecordForgiven(u) ==
  /\ At(u, "record")
  /\ Goto(u, "reload")
  /\ UNCHANGED <<versions, changelog, cache, restarts>>

\* The INSERT fails after the UPDATE is committed: 500.
RecordFails(u) ==
  /\ At(u, "record")
  /\ Reply(u, "failed")
  /\ UNCHANGED <<versions, changelog, cache, restarts>>

\* Nothing was done yet: a statement raised and was rolled back.
UpdateFails(u) ==
  /\ At(u, "update")
  /\ Reply(u, "failed")
  /\ UNCHANGED <<versions, changelog, cache, restarts>>

ReloadRow(u) ==
  /\ At(u, "reload")
  /\ LET key == CHOOSE k \in Keys : KeyRow[k] = put[u].row
     IN  cache' = [cache EXCEPT ![put[u].at][key] = NotCached]
  /\ Reply(u, "ok")
  /\ UNCHANGED <<versions, changelog, restarts>>

\* reload_all
Reload(u) ==
  /\ At(u, "reload")
  /\ cache' = [cache EXCEPT ![put[u].at] = EmptyCache]
  /\ Reply(u, "ok")
  /\ UNCHANGED <<versions, changelog, restarts>>

\* An instance dies; the one in its place starts with an empty cache.
Restart(i) ==
  /\ restarts < MaxRestarts
  /\ restarts' = restarts + 1
  /\ put' = [u \in Updates |-> IF put[u].at = i /\ put[u].pc # "done"
                               THEN [put[u] EXCEPT !.pc = "done", !.reply = "lost"] ELSE put[u]]
  /\ cache' = [cache EXCEPT ![i] = EmptyCache]
  /\ UNCHANGED <<versions, changelog>>

Done ==
  /\ \A u \in Updates : At(u, "done")
  /\ \A i \in Instances, k \in Keys : cache[i][k] # NotCached
  /\ UNCHANGED calibrationVars

Update(u) ==
  \/ \E i \in Instances, r \in Rows, fields \in Payloads : ReadPrevious(u, i, r, fields)
  \/ Refuse(u) \/ UpdateFails(u) \/ UpdateRow(u) \/ UpdateUnacked(u)
  \/ Record(u) \/ RecordUnacked(u) \/ RecordFails(u) \/ Reload(u)

CalibrationNext ==
  \/ \E u \in Updates : Update(u)
  \/ \E i \in Instances : Restart(i) \/ \E k \in Keys : Load(i, k)
  \/ Done

CalibrationSpec == CalibrationInit /\ [][CalibrationNext]_calibrationVars

-----------------------------------------------------------------------------
(* Properties *)

Differ(r, n, m) == {c \in Columns : Held(r, n)[c] # Held(r, m)[c]}

\* Columns the others changed after u had read the row and before version n of it.
Meanwhile(u, r, n) == {c \in Columns : \E k \in (put[u].previous + 1)..(n - 1) : c \in Differ(r, k - 1, k)}

\* An entry of the changelog is about a version its update made.  It names every
\* column that version changed, what it shows after is what the version holds, and
\* what it shows before is what was overwritten, but for columns that others had
\* changed between the SELECT and the UPDATE (update_calibration, 103-135).  So the
\* entry of an update that nobody overlapped with shows exactly what it changed, and
\* one that undid another's change may show a column as unchanged.
ChangelogIsTrue ==
  \A e \in changelog : \E n \in 2..Latest(e.row) :
    /\ versions[e.row][n].by = e.update
    /\ Part(Held(e.row, n), e.columns) = e.after
    /\ Differ(e.row, n - 1, n) \subseteq e.columns
    /\ {c \in e.columns : e.before[c] # Held(e.row, n - 1)[c]} \subseteq Meanwhile(e.update, e.row, n)

\* The UPDATE of u was committed, whether or not a value is another than before.
Changed(u) == \E r \in Rows : \E n \in DOMAIN versions[r] : versions[r][n].by = u

\* An UPDATE is without an entry in the changelog only if its request is under
\* way, failed or died, and an entry without an UPDATE there is none: a request
\* that is answered 200 left both ("always changelogged"), one that is refused
\* none.  (An UPDATE to the values that were there is logged as well.)
ChangesAreLogged ==
  \A u \in Updates :
    LET logged == \E e \in changelog : e.update = u
    IN  /\ logged => Changed(u)
        /\ put[u].reply = "ok" => logged
        /\ put[u].reply = "refused" => ~ Changed(u)

\* "No code path that updates a calibration row without also writing its changelog
\* entry" (calibration.py, 21-24).  The code does not keep this: the UPDATE is committed
\* first, and when the INSERT of the entry fails or the instance dies, it stays.
NoSilentChange ==
  \A u \in Updates : At(u, "done") /\ put[u].written > 0 => \E e \in changelog : e.update = u

\* Once an update is answered 200, the instance that answered it scores no
\* decision by an older version of that row, under any key, except by the
\* fallback of a failed query (the comment at 137-139).
OwnUpdateIsServed ==
  \A u \in Updates : put[u].reply = "ok" =>
    \A k \in Keys : KeyRow[k] = put[u].row =>
      cache[put[u].at][k] \notin 1..(put[u].written - 1)
=============================================================================
