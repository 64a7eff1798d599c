------------------------------ MODULE LogIndex ------------------------------
(***************************************************************************)
(* The log viewer of server/src/log_view.rs: an index of the recording     *)
(* kept in memory, a copy of it in a cache file, up to MaxViews finished   *)
(* views, and the sampling that bounds an answer.  load() runs under the   *)
(* log_index mutex, so requests are served one at a time; the recording    *)
(* grows, is deleted and is made anew meanwhile.                           *)
(***************************************************************************)
EXTENDS LogFile, SequencesExt

CONSTANTS NoQuery, NoAnswer, Failed,
          MaxViews,    \* 4 in the code
          Imports,     \* recordings that are imported whole
          MaxLines, MaxChanges, MaxAsks, MaxRestarts  \* bounds

\* What a successful answer is.
Views == [total : Nat, visible : Nat, sampled : BOOLEAN,
          samples : SUBSET [row : Nat, v : Lines]]

ASSUME LogIndexAssumption ==
  /\ MaxViews \in Nat \ {0} /\ Imports \subseteq Seq(Lines)
  /\ NoQuery \notin Queries /\ {NoAnswer, Failed} \cap Views = {}

VARIABLES
  msl,     \* the recording
  mtime,   \* its modification time, coarser than the writes
  memory,  \* state.log_index
  disk,    \* the cache file
  pc, query, meta,   \* the request: where it is, what it asks, what it statted
  seen, answer,      \* what the recording was meanwhile; the last answer
  changes, asks, restarts

logVars == <<msl, mtime, memory, disk, pc, query, meta, seen, answer, changes, asks, restarts>>
recording == <<msl, mtime, changes>>
caches    == <<memory, disk>>

IsMark(f, i) == f.lines[i] = Mark
LineSize(f, i) == IF IsMark(f, i) \/ (f.torn /\ i = Len(f.lines)) THEN 1 ELSE 2
Offset(f, i) == LET marks == {j \in 1 .. i - 1 : IsMark(f, j)}
                IN 2 * (i - 1) - Cardinality(marks)
BodySize(f) == IF f.lines = <<>> THEN 0
           ELSE Offset(f, Len(f.lines)) + LineSize(f, Len(f.lines))
HeaderSize == 3
Stamp == [exists |-> msl.exists, mtime |-> mtime,
          size |-> IF msl.header THEN HeaderSize + BodySize(msl) ELSE 0]

NoIndex == [stamp |-> [exists |-> FALSE, size |-> 0, mtime |-> 0], total |-> 0,
            entries |-> {}, views |-> <<>>]
\* Mutant: the size is not compared.
matches_Time(index, stamp) == stamp.exists /\ index.stamp.mtime = stamp.mtime
matches(index, stamp) == stamp.exists /\ index.stamp = stamp

-----------------------------------------------------------------------------
(* Bucket: the rows of a group that survive.                               *)
Where(g, q, S, v) == {i \in S : Sample(g, q, i).v = v}
Keep(g, q, S) ==
  LET numbers == {Sample(g, q, i).v : i \in S} \cap Values
      firsts == IF ~q.chan THEN {}
                ELSE {Min(Where(g, q, S, v)) :
                        v \in (IF numbers = {} THEN {} ELSE {Min(numbers), Max(numbers)})
                              \cup (IF Where(g, q, S, Gap) = {} THEN {} ELSE {Gap})}
  IN {Min(S), Max(S)} \cup firsts
PerBucket(q) == IF q.chan THEN 5 ELSE 2
\* Mutant: as many buckets as points.
BucketCount_Points(q) == Max({1, q.points})
BucketCount(q) == Max({1, q.points \div PerBucket(q)})
CeilDiv(a, b) == (a + b - 1) \div b

\* The rows in DOMAIN group, sampled group by group.
Sampled(g, q, group) ==
  {Sample(g, q, i) : i \in UNION {Keep(g, q, {i \in DOMAIN group : group[i] = k}) : k \in Range(group)}}

\* build: one pass over the file, the buckets cut by byte offset.
Overview(f, q) ==
  LET bytes == Max({1, CeilDiv(BodySize(f), BucketCount(q))})
  IN Sampled(f, q, [i \in Timed(f) |-> Offset(f, i) \div bytes])
\* load: rows found through the index, the buckets cut by number of rows.
\* Rows are read one by one only when there are few enough.
Zoom(index, g, q) ==
  LET rows == {i \in index.entries : Covers(q, i)}
      size == IF Cardinality(rows) > FullDetail
              THEN CeilDiv(Cardinality(rows), BucketCount(q)) ELSE 1
  IN Sampled(g, q, [i \in rows |-> Cardinality({j \in rows : j < i}) \div size])

View(index, q, samples) ==
  LET n == Cardinality({i \in index.entries : Covers(q, i)})
  IN [total |-> index.total, visible |-> n, sampled |-> n > FullDetail,
      samples |-> samples]

AsOverview(q) == [q EXCEPT !.whole = TRUE, !.from = 0, !.to = 0]
Built ==
  LET q == AsOverview(query)
      index == [NoIndex EXCEPT !.stamp = Stamp, !.total = Cardinality(Counted(msl)),
                               !.entries = Timed(msl)]
      samples == IF Cardinality(Timed(msl)) <= FullDetail
                 THEN {Sample(msl, q, i) : i \in Timed(msl)} ELSE Overview(msl, q)
  IN [index EXCEPT !.views = << <<q, View(index, q, samples)>> >>]

\* Only whole-range views are written to the cache file.
serialize_overviews(index) ==
  LET keep == {i \in DOMAIN index.views : index.views[i][1].whole}
      nth(k) == CHOOSE i \in keep : Cardinality({j \in keep : j <= i}) = k
  IN [index EXCEPT !.views = [k \in 1 .. Cardinality(keep) |-> index.views[nth(k)]]]

\* Mutant: the limit is tested after it was passed.
Evicted_Late(views) ==
  LET zooms == {i \in DOMAIN views : ~views[i][1].whole}
      i == IF zooms = {} THEN 1 ELSE Min(zooms)
  IN IF Len(views) > MaxViews THEN RemoveAt(views, i) ELSE views
\* At the limit the oldest zoom makes room, else the oldest view.
Evicted(views) ==
  LET zooms == {i \in DOMAIN views : ~views[i][1].whole}
      i == IF zooms = {} THEN 1 ELSE Min(zooms)
  IN IF Len(views) = MaxViews THEN RemoveAt(views, i) ELSE views

-----------------------------------------------------------------------------
(* load(), in the steps between which the recording may change.            *)
Ask ==
  /\ pc = "idle" /\ asks < MaxAsks /\ asks' = asks + 1
  /\ query' \in Queries
  /\ pc' = "stat" /\ seen' = {msl}
  /\ UNCHANGED <<recording, caches, meta, answer, restarts>>

Reply(a) ==
  /\ answer' = a
  /\ pc' = "idle" /\ query' = NoQuery /\ seen' = {} /\ meta' = NoIndex.stamp

Stat ==
  /\ pc = "stat"
  /\ IF msl.exists
     THEN pc' = "match" /\ meta' = Stamp /\ UNCHANGED <<query, seen, answer>>
     ELSE Reply(Failed)
  /\ UNCHANGED <<recording, caches, asks, restarts>>

InMemory == matches(memory, meta)
OnDisk   == disk.good /\ matches(disk.index, meta)

UseMemory ==
  /\ pc = "match" /\ InMemory
  /\ pc' = "find"
  /\ UNCHANGED <<recording, caches, query, meta, seen, answer, asks, restarts>>

Restore ==
  /\ pc = "match" /\ ~InMemory /\ OnDisk
  /\ memory' = disk.index /\ pc' = "find"
  /\ UNCHANGED <<recording, disk, query, meta, seen, answer, asks, restarts>>

Build ==
  /\ pc = "match" /\ ~InMemory /\ ~OnDisk
  /\ IF msl.header
     THEN memory' = Built /\ pc' = "save" /\ UNCHANGED <<query, meta, seen, answer>>
     ELSE Reply(Failed) /\ UNCHANGED memory
  /\ UNCHANGED <<recording, disk, asks, restarts>>

\* persist: nothing is saved once the recording differs from the index, and
\* a failure to save is ignored.  The file is renamed into place.
Persist ==
  /\ pc \in {"save", "save_view"}
  /\ \/ matches(memory, Stamp) /\ disk' = [good |-> TRUE, index |-> serialize_overviews(memory)]
     \/ UNCHANGED disk
  /\ IF pc = "save" THEN pc' = "find" /\ UNCHANGED <<query, meta, seen, answer>>
     ELSE Reply(Last(memory.views)[2])
  /\ UNCHANGED <<recording, memory, asks, restarts>>

Cached == {e \in Range(memory.views) : e[1] = query}
Find ==
  /\ pc = "find" /\ Cached # {}
  /\ \E e \in Cached : Reply(e[2])
  /\ UNCHANGED <<recording, caches, asks, restarts>>

Reread ==
  /\ pc = "find" /\ Cached = {}
  /\ IF msl.exists
     THEN LET view == View(memory, query, Zoom(memory, msl, query))
          IN /\ memory' = [memory EXCEPT !.views = Append(Evicted(@), <<query, view>>)]
             /\ IF query.whole
                THEN pc' = "save_view" /\ UNCHANGED <<query, meta, seen, answer>>
                ELSE Reply(view)
     ELSE Reply(Failed) /\ UNCHANGED memory
  /\ UNCHANGED <<recording, disk, asks, restarts>>

-----------------------------------------------------------------------------
(* The recording: written by the datalog writer or by an import, removed   *)
(* by retention.  A name is used again only between two requests.          *)
Rewritten(f, t) ==
  /\ changes < MaxChanges /\ changes' = changes + 1
  /\ msl' = f /\ mtime' \in t
  /\ seen' = IF pc = "idle" THEN {} ELSE seen \cup {f}
  /\ UNCHANGED <<caches, pc, query, meta, answer, asks, restarts>>
Soon == {mtime, mtime + 1}

Create ==
  /\ ~msl.exists /\ pc = "idle"
  /\ \E f \in {Empty} \cup {[Empty EXCEPT !.header = TRUE, !.lines = l] : l \in Imports} :
       Rewritten(f, {mtime + 1})
WriteHeader == msl.exists /\ ~msl.header /\ Rewritten([msl EXCEPT !.header = TRUE], Soon)
AppendLine ==
  /\ msl.header /\ ~msl.torn /\ Len(msl.lines) < MaxLines
  /\ \E line \in Values, torn \in BOOLEAN :
       Rewritten([msl EXCEPT !.lines = Append(@, line), !.torn = torn], Soon)
CompleteLine == msl.torn /\ Rewritten([msl EXCEPT !.torn = FALSE], Soon)
Delete == msl.exists /\ Rewritten(Absent, {mtime})

\* Another recording's persist collects the index of one that is gone.
Collect ==
  /\ ~msl.exists /\ disk.good /\ disk' = [disk EXCEPT !.good = FALSE]
  /\ UNCHANGED <<recording, memory, pc, query, meta, seen, answer, asks, restarts>>

\* The process ends; a power cut may leave the cache file without contents.
Restart ==
  /\ restarts < MaxRestarts /\ restarts' = restarts + 1
  /\ memory' = NoIndex /\ pc' = "idle" /\ query' = NoQuery /\ seen' = {}
  /\ meta' = NoIndex.stamp
  /\ disk' \in {disk, [disk EXCEPT !.good = FALSE]}
  /\ UNCHANGED <<recording, answer, asks>>

LogInit ==
  /\ msl = Absent /\ mtime = 0 /\ changes = 0
  /\ memory = NoIndex /\ disk = [good |-> FALSE, index |-> NoIndex]
  /\ pc = "idle" /\ query = NoQuery /\ meta = NoIndex.stamp
  /\ seen = {} /\ answer = NoAnswer /\ asks = 0 /\ restarts = 0

LogNext ==
  \/ Ask \/ Stat \/ UseMemory \/ Restore \/ Build \/ Persist \/ Find \/ Reread
  \/ Create \/ WriteHeader \/ AppendLine \/ CompleteLine \/ Delete
  \/ Collect \/ Restart

LogSpec == LogInit /\ [][LogNext]_logVars

-----------------------------------------------------------------------------
(* What the viewer owes its user.                                          *)

Abs == INSTANCE LogView WITH asked <- query

\* Every answer shows the recording as it was at a moment between the request
\* and the answer, although it may come from an index or a view made earlier,
\* from the cache file of an earlier process, or from a second read of a
\* recording that has grown since (load, build, restore).
AnswersFaithfully == Abs!AbsSpec

\* No answer is longer than the points asked for, or than a short recording,
\* or than one bucket (the budget arithmetic of build and load).
BoundedAnswer ==
  pc \in {"find", "save_view"} => \A e \in Range(memory.views) :
    Cardinality(e[2].samples) <= Max({FullDetail, e[1].points, PerBucket(e[1])})

\* An index whose size and time agree with the recording is an index of that
\* recording, in memory and in the cache file; and views never pile up.
CacheSound ==
  /\ \A index \in {memory} \cup (IF disk.good THEN {disk.index} ELSE {}) :
       (msl.exists /\ index.stamp = Stamp) =>
         index.entries = Timed(msl) /\ index.total = Cardinality(Counted(msl))
  /\ Len(memory.views) <= MaxViews
=============================================================================
