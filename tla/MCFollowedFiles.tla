--------------------------- MODULE MCFollowedFiles ---------------------------
(***************************************************************************)
(* Small instances of FollowedFiles, and of PackSync within it, for TLC.   *)
(***************************************************************************)
EXTENDS FollowedFiles, TLC

NoKind == [k \in Kind |-> 0]
NoTask == [t \in Task |-> 0]
BundledFiles == {<<a, v>> : a \in {CHOOSE n \in Name : TRUE}, v \in {CHOOSE w \in Version : TRUE}}

\* Syncs of a changing pack, with edits, failed downloads, crashes and checks.
PackOnly ==
    {[NoKind EXCEPT !.sync = 3, !.publish = 2, !.user = 1, !.check = 1],
     [NoKind EXCEPT !.sync = 3, !.publish = 2, !.fail = 1, !.check = 1],
     [NoKind EXCEPT !.sync = 2, !.publish = 1, !.user = 2, !.fail = 1]}
PackCrash == [NoKind EXCEPT !.sync = 3, !.publish = 2, !.crash = 1, !.check = 1]

\* One sync while the watcher reads; and none.
PackAside == [NoKind EXCEPT !.sync = 1, !.publish = 1]

AllPlans ==
    {[pack |-> b, files |-> NoTask] : b \in PackOnly}
    \cup {[pack |-> PackCrash, files |-> [NoTask EXCEPT !.start = 1]],
          [pack |-> PackAside, files |-> [NoTask EXCEPT !.look = 2]],
          [pack |-> NoKind, files |-> [NoTask EXCEPT !.save = 2, !.edit = 1, !.look = 1]],
          [pack |-> NoKind, files |-> [NoTask EXCEPT !.save = 1, !.trouble = 1, !.look = 1, !.kill = 1, !.start = 1]],
          [pack |-> NoKind, files |-> [NoTask EXCEPT !.list = 2, !.look = 2, !.kill = 1, !.start = 1]],
          [pack |-> NoKind, files |-> [NoTask EXCEPT !.list = 1, !.edit = 1, !.look = 3]]}
AllBudgets == {p.pack : p \in AllPlans}
=============================================================================
