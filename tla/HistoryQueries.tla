--------------------------- MODULE HistoryQueries ---------------------------
(***************************************************************************)
(* The queries of history/store.rs, history/analytics.rs, api/history.rs   *)
(* and api/metrics.rs, over the rows that History inserts and deletes.     *)
(* Rows are in the order of the query, the newest first.  A filter that    *)
(* is not given is the empty set, one that is given a set of one value.    *)
(***************************************************************************)
EXTENDS Integers, SequencesExt

CONSTANTS Like(_, _)      \* does a text match a search

Sources == {"http_api", "ws_api"}
Record(Models, Texts, Devices) ==
  [second : Nat, source : Sources, model : Models, text : Texts, failed : BOOLEAN,
   device : SUBSET Devices, audioMs : Nat, inferenceMs : Nat]

(* A caller's instant in UTC is compared with the column as text, which has no
   fraction: one written with a fraction, be it .000, sorts after its own second. *)
ToColumnFormat(x) == [since |-> x.second + IF x.fraction THEN 1 ELSE 0, until |-> x.second]

Wanted(f, r) ==
  /\ \A x \in f.source : r.source = x
  /\ \A x \in f.model : Like(x, r.model)
  /\ \A x \in f.text : Like(x, r.text)
  /\ \A x \in f.from : r.second >= ToColumnFormat(x).since
  /\ \A x \in f.to : r.second <= ToColumnFormat(x).until
  /\ \A x \in f.failed : r.failed = x
  /\ \A x \in f.device : r.device = {x}

(* LIMIT and OFFSET: a negative limit is none, a negative offset is 0 *)
Page(rows, limit, offset) ==
  LET first == IF offset < 0 THEN 1 ELSE offset + 1
      last  == IF limit < 0 \/ first + limit - 1 > Len(rows) THEN Len(rows) ELSE first + limit - 1
  IN SubSeq(rows, first, last)
List(rows, f) == Page(SelectSeq(rows, LAMBDA r : Wanted(f, r)), f.limit, f.offset)

(* list_history: a source nobody has is refused; fifty rows are the default *)
ListHistory(rows, q) ==
  IF q.source \subseteq Sources
  THEN {List(rows, [q EXCEPT !.limit = IF q.limit = {} THEN 50 ELSE CHOOSE n \in q.limit : TRUE,
                             !.offset = IF q.offset = {} THEN 0 ELSE CHOOSE n \in q.offset : TRUE])}
  ELSE {}

(* What the filters of the page offer *)
Facets(rows) == [models |-> {rows[i].model : i \in DOMAIN rows},
                 devices |-> UNION {rows[i].device : i \in DOMAIN rows}]

-----------------------------------------------------------------------------
(* metrics_snapshot: one pass; failures are counted apart *)
Total(rows, field) == SumFunction([i \in DOMAIN rows |-> rows[i][field]])
MetricsSnapshot(rows, todayStart) ==
  LET good   == SelectSeq(rows, LAMBDA r : ~r.failed)
      bad    == SelectSeq(rows, LAMBDA r : r.failed)
      today(s) == SelectSeq(s, LAMBDA r : r.second >= todayStart)
  IN [total |-> Len(good), today |-> Len(today(good)),
      http |-> Len(SelectSeq(good, LAMBDA r : r.source = "http_api")),
      audio |-> Total(good, "audioMs"), todayAudio |-> Total(today(good), "audioMs"),
      inference |-> [sum |-> Total(good, "inferenceMs"), of |-> Len(good)],
      errors |-> Len(bad), todayErrors |-> Len(today(bad))]

(* display_timezone: the setting, or else the browser's, or else UTC *)
DisplayTimezone(configured, browser, zones, utc) ==
  CASE configured \in zones -> configured
    [] configured \notin zones /\ browser \cap zones # {} -> CHOOSE z \in browser : TRUE
    [] OTHER -> utc

(* start_of_day: a zone gives the local hour of every UTC hour.  Midnight may be
   skipped, or come twice: the first hour of the next two that there is, and its
   first time. *)
StartOfDay(now, zone, day) ==
  LET midnight == day * (zone[now] \div day)
      times(h) == {u \in DOMAIN zone : zone[u] = midnight + h}
      hours    == {h \in 0 .. 2 : times(h) # {}}
      first(S) == CHOOSE x \in S : \A y \in S : x <= y
  IN IF hours = {} THEN now ELSE first(times(first(hours)))

-----------------------------------------------------------------------------
(* api/history.rs: pages of any size, put together, are the rows that were asked
   for, each once. *)
PagesTile(rows, size) ==
  FlattenSeq([p \in 1 .. Len(rows) + 1 |-> Page(rows, size, size * (p - 1))]) = rows

(* store.rs:644-690: what the dashboard counts is what the list would show. *)
MetricsAgreeWithList(rows, todayStart) ==
  LET all == [source |-> {}, model |-> {}, text |-> {}, from |-> {}, to |-> {}, failed |-> {},
              device |-> {}, limit |-> -1, offset |-> 0]
      start == {[second |-> todayStart, fraction |-> FALSE]}
      count(f) == Len(List(rows, f))
      m == MetricsSnapshot(rows, todayStart)
  IN /\ m.total + m.errors = count(all)
     /\ m.today = count([all EXCEPT !.failed = {FALSE}, !.from = start])
     /\ m.todayErrors = count([all EXCEPT !.failed = {TRUE}, !.from = start])
     /\ m.http = count([all EXCEPT !.failed = {FALSE}, !.source = {"http_api"}])

(* analytics.rs:54-68: the day has begun by now, at an hour of the same day, also
   where the clock is put forward or back at midnight. *)
DayBegins(now, zone, day) ==
  LET start == StartOfDay(now, zone, day)
  IN start <= now /\ zone[start] \div day = zone[now] \div day
=============================================================================
