------------------------------ MODULE MCHistory ------------------------------
(* Two records, of which a policy keeps one or none, and two workers: a
   request that deletes beside a sweep, or two sweeps; one step fails or is
   dropped, and a statement takes one parameter. *)
EXTENDS History, SequencesExt, TLC

CONSTANTS r1, r2, w1, w2
MCPolicies == {[record |-> Count(1), audio |-> DiskLimit(1)],
               [record |-> Count(0), audio |-> Days(1)],
               [record |-> Days(0),  audio |-> DiskLimit(0)]}

Queries == INSTANCE HistoryQueries WITH Like <- =

SomeRows == SeqOf({[second |-> s, source |-> x, model |-> r1, text |-> r1, failed |-> e,
                    device |-> {}, audioMs |-> s + 1, inferenceMs |-> 1] :
                     s \in 0 .. 2, x \in Queries!Sources, e \in BOOLEAN}, 2)

(* HistoryQueries: pages tile the list, and the dashboard counts what the list shows. *)
ASSUME PagesAreWhole == \A n \in 0 .. 5, size \in 1 .. 6 : Queries!PagesTile([i \in 1 .. n |-> i], size)
ASSUME CountsAreTheLists == \A rows \in SomeRows, now \in 0 .. 2 : Queries!MetricsAgreeWithList(rows, now)

(* A day of three hours, in zones that put the clock an hour forward and back. *)
Zones == {[u \in 0 .. 9 |-> u + offset[u \div 2]] : offset \in [0 .. 4 -> 0 .. 1]}
ASSUME DaysHaveBegun ==
  \A zone \in Zones, now \in 4 .. 9 : zone[now] \div 3 > zone[0] \div 3 => Queries!DayBegins(now, zone, 3)
=============================================================================
