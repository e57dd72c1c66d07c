------------------------ MODULE FollowedFiles_proofs ------------------------
(***************************************************************************)
(* Proofs about PackSync and FollowedFiles, for any pack, directory,       *)
(* manifests, devices and bounds.                                          *)
(***************************************************************************)
EXTENDS FollowedFiles, TLAPS

(***************************************************************************)
(* PackSync: what `sync` has done so far                                   *)
(***************************************************************************)
\* A file that is there has an author, and one that is not has none.
Authored == \A n \in Name : (author[n] = NONE) = (files[n] = NONE)

\* The ledger on disk is the one `sync` read, which goes through the names of its
\* manifest, and then through those of the ledger that are in it no more.
Phases ==
    /\ at # "idle" => ledger = before
    /\ at \in {"look", "write"} => todo \subseteq Named(wanted)
    /\ at \in {"drop", "unlink"} => todo \subseteq Named(before) \ Named(wanted)
    /\ at = "write" => name \in Named(wanted) \ todo
    /\ at = "unlink" => name \in Named(before) \ (Named(wanted) \cup todo)

\* The file at hand is as it was looked at, but for the user.
AtHand ==
    at \in {"write", "unlink"} =>
        \/ name \in raced /\ author[name] # "pack"
        \/ at = "write" /\ seen = files[name] /\ files[name] \in {NONE, before[name]}
             /\ files[name] # wanted[name]
        \/ at = "unlink" /\ files[name] = before[name]

\* The names that `sync` is done with.
Done(n) ==
    \/ at \in {"look", "write"} /\ n \in Named(wanted) \ todo /\ (at = "look" \/ n # name)
    \/ at \in {"drop", "unlink"} /\ n \in (Named(wanted) \cup Named(before)) \ todo
         /\ (at = "drop" \/ n # name)

\* A file of the pack's is in the next ledger once it was gone through, and in
\* the last one before, but for those a crash left out.
Accounted ==
    \A n \in Name : author[n] = "pack" =>
        \/ n \in orphans
        \/ at = "idle" /\ ledger[n] = files[n]
        \/ at # "idle" /\ Done(n) /\ owned[n] = files[n]
        \/ at # "idle" /\ ~Done(n) /\ before[n] = files[n]

\* In a sync in which nothing failed, what was gone through is as it should be.
Good(n) == files[n] = wanted[n] \/ author[n] = "user" \/ (author[n] = "pack" /\ n \in orphans)
Progress ==
    at # "idle" /\ calm =>
        /\ wanted = manifest
        /\ \A n \in Name : owned[n] \in {NONE, wanted[n]}
        /\ \A n \in Name : Done(n) => Good(n)

\* What `check` said of the directory, while that holds: what the sync that began
\* then has changed, or has yet to change.
Due(n) ==
    \/ at \in {"look", "write"} /\ n \in todo
         /\ \/ files[n] = NONE /\ <<n, wanted[n]>> \notin Bundled
            \/ files[n] # NONE /\ files[n] # wanted[n] /\ before[n] = files[n]
    \/ at \in {"look", "write"} /\ n \in Named(before) \ Named(wanted) /\ files[n] = before[n]
    \/ at = "write" /\ n = name /\ Counts(n)
    \/ at \in {"drop", "unlink"} /\ n \in todo /\ files[n] = before[n]
    \/ at = "unlink" /\ n = name
Foretold ==
    said # NONE =>
        /\ at = "idle" => (said = "yes" <=> Available)
        /\ at # "idle" => calm /\ (said = "yes" <=> changed \/ \E n \in Name : Due(n))

PackInv == TypeOK /\ Authored /\ Phases /\ AtHand /\ Accounted /\ Progress /\ Applied /\ Foretold

\* Whatever is spent is counted.
LEMMA SpendType ==
    ASSUME TypeOK, NEW kind \in Kind, Spend(kind)
    PROVE  spent' \in [Kind -> Nat]
BY DEF TypeOK, Spend

\* A sync that begins has everything to go through, ...
LEMMA BeginInv ==
    ASSUME PackInv, Begin
    PROVE  PackInv'
<1>1. TypeOK'
  BY PackAssumption, SpendType DEF PackInv, Begin, TypeOK, Kind, disk, run, Named, Empty
<1>2. Authored'
  BY PackAssumption DEF PackInv, Begin, Authored, TypeOK, Phases, Spend, disk, run, Named, Empty
<1>3. Phases'
  BY PackAssumption DEF PackInv, Begin, Phases, TypeOK, Spend, disk, run, Named, Empty
<1>4. AtHand'
  BY PackAssumption DEF PackInv, Begin, AtHand, TypeOK, Authored, Phases, Spend, disk, run, Named, Empty
<1>5. Accounted'
  BY PackAssumption DEF PackInv, Begin, Accounted, TypeOK, Done, Authored, Phases, AtHand, Progress, Applied,
       Spend, disk, run, Named, Empty
<1>6. Progress'
  BY PackAssumption DEF PackInv, Begin, Progress, TypeOK, Done, Good, Authored, Phases, AtHand, Accounted,
       Applied, Spend, disk, run, Named, Empty
<1>7. Applied'
  BY PackAssumption DEF PackInv, Begin, Applied, TypeOK, Done, Good, Authored, Phases, AtHand, Accounted,
       Progress, Spend, disk, run, Named, Empty
<1>8. Foretold'
  BY PackAssumption DEF PackInv, Begin, Foretold, TypeOK, Due, Available, Missing, Outdated, Counts, Phases,
       Progress, AtHand, Spend, disk, run, Named, Empty
<1> QED BY <1>1, <1>2, <1>3, <1>4, <1>5, <1>6, <1>7, <1>8 DEF PackInv

\* ... looks at the files of its manifest one by one, ...
LEMMA LookInv ==
    ASSUME PackInv, NEW n \in Name, Look(n)
    PROVE  PackInv'
<1>1. TypeOK'
  BY PackAssumption DEF PackInv, Look, TypeOK, Owns, Users, disk, run
<1>2. Authored'
  BY PackAssumption DEF PackInv, Look, Authored, TypeOK, Phases, Owns, Users, disk, run, Named
<1>3. Phases'
  BY PackAssumption DEF PackInv, Look, Phases, TypeOK, Owns, Users, disk, run, Named
<1>4. AtHand'
  BY PackAssumption DEF PackInv, Look, AtHand, TypeOK, Authored, Phases, Owns, Users, disk, run, Named
<1>5. Accounted'
  BY PackAssumption DEF PackInv, Look, Accounted, TypeOK, Done, Authored, Phases, AtHand, Progress, Applied,
       Owns, Users, disk, run, Named
<1>6. Progress'
  BY PackAssumption DEF PackInv, Look, Progress, TypeOK, Done, Good, Authored, Phases, AtHand, Accounted,
       Applied, Owns, Users, disk, run, Named
<1>7. Applied'
  BY PackAssumption DEF PackInv, Look, Applied, TypeOK, Done, Good, Authored, Phases, AtHand, Accounted,
       Progress, Owns, Users, disk, run, Named
<1>8. Foretold'
  BY ZenonT(60), PackAssumption DEF PackInv, Look, Foretold, TypeOK, Due, Available, Missing, Outdated, Counts, Phases,
       Progress, AtHand, Owns, Users, disk, run, Named
<1> QED BY <1>1, <1>2, <1>3, <1>4, <1>5, <1>6, <1>7, <1>8 DEF PackInv

\* ... writes one, which is then its own, ...
LEMMA WrittenInv ==
    ASSUME PackInv, Write, Written
    PROVE  PackInv'
<1> name \in Name /\ wanted[name] \in Version
  BY DEF PackInv, Phases, TypeOK, Named, Write
<1>1. TypeOK'
  BY PackAssumption, SpendType DEF PackInv, Write, TypeOK, Written, Content, Owns, Kind, Counts, run, Named
<1>2. Authored'
  BY PackAssumption DEF PackInv, Write, Authored, TypeOK, Phases, Written, Owns, Counts, run, Named
<1>3. Phases'
  BY PackAssumption DEF PackInv, Write, Phases, TypeOK, Written, Owns, Counts, run, Named
<1>4. AtHand'
  BY PackAssumption DEF PackInv, Write, AtHand, TypeOK, Authored, Phases, Written, Owns, Counts, run, Named
<1>5. Accounted'
  BY PackAssumption DEF PackInv, Write, Accounted, TypeOK, Done, Authored, Phases, AtHand, Progress, Applied,
       Written, Owns, Counts, run, Named
<1>6. Progress'
  BY PackAssumption DEF PackInv, Write, Progress, TypeOK, Done, Good, Authored, Phases, AtHand, Accounted,
       Applied, Written, Owns, Counts, run, Named
<1>7. Applied'
  BY PackAssumption DEF PackInv, Write, Applied, TypeOK, Done, Good, Authored, Phases, AtHand, Accounted,
       Progress, Written, Owns, Counts, run, Named
<1>8. Foretold'
  BY ZenonT(60), PackAssumption DEF PackInv, Write, Foretold, TypeOK, Due, Available, Missing, Outdated, Counts, Phases,
       Progress, AtHand, Written, Owns, run, Named
<1> QED BY <1>1, <1>2, <1>3, <1>4, <1>5, <1>6, <1>7, <1>8 DEF PackInv

\* ... or fails to, and keeps the copy that was there, ...
LEMMA NotWrittenInv ==
    ASSUME PackInv, Write, NotWritten
    PROVE  PackInv'
<1>1. TypeOK'
  BY ZenonT(60), PackAssumption, SpendType DEF PackInv, Write, TypeOK, NotWritten, Owns, Kind, run
<1>2. Authored'
  BY PackAssumption DEF PackInv, Write, Authored, TypeOK, Phases, NotWritten, Owns, Spend, run, Named
<1>3. Phases'
  BY PackAssumption DEF PackInv, Write, Phases, TypeOK, NotWritten, Owns, Spend, run, Named
<1>4. AtHand'
  BY PackAssumption DEF PackInv, Write, AtHand, TypeOK, Authored, Phases, NotWritten, Owns, Spend, run, Named
<1>5. Accounted'
  BY PackAssumption DEF PackInv, Write, Accounted, TypeOK, Done, Authored, Phases, AtHand, Progress, Applied,
       NotWritten, Owns, Spend, run, Named
<1>6. Progress'
  BY PackAssumption DEF PackInv, Write, Progress, TypeOK, Done, Good, Authored, Phases, AtHand, Accounted,
       Applied, NotWritten, Owns, Spend, run, Named
<1>7. Applied'
  BY PackAssumption DEF PackInv, Write, Applied, TypeOK, Done, Good, Authored, Phases, AtHand, Accounted,
       Progress, NotWritten, Owns, Spend, run, Named
<1>8. Foretold'
  BY PackAssumption DEF PackInv, Write, Foretold, TypeOK, Due, Available, Missing, Outdated, Counts, Phases,
       Progress, AtHand, NotWritten, Owns, Spend, run, Named
<1> QED BY <1>1, <1>2, <1>3, <1>4, <1>5, <1>6, <1>7, <1>8 DEF PackInv

\* ... one or the other, ...
LEMMA WriteInv ==
    ASSUME PackInv, Write
    PROVE  PackInv'
BY WrittenInv, NotWrittenInv DEF Write

\* ... goes on to the files that are wanted no more, ...
LEMMA DroppingInv ==
    ASSUME PackInv, Dropping
    PROVE  PackInv'
<1>1. TypeOK'
  BY PackAssumption DEF PackInv, Dropping, TypeOK, disk, run, history, Named
<1>2. Authored'
  BY PackAssumption DEF PackInv, Dropping, Authored, TypeOK, Phases, disk, run, history, Named
<1>3. Phases'
  BY PackAssumption DEF PackInv, Dropping, Phases, TypeOK, disk, run, history, Named
<1>4. AtHand'
  BY PackAssumption DEF PackInv, Dropping, AtHand, TypeOK, Authored, Phases, disk, run, history, Named
<1>5. Accounted'
  BY PackAssumption DEF PackInv, Dropping, Accounted, TypeOK, Done, Authored, Phases, AtHand, Progress, Applied,
       disk, run, history, Named
<1>6. Progress'
  BY PackAssumption DEF PackInv, Dropping, Progress, TypeOK, Done, Good, Authored, Phases, AtHand, Accounted,
       Applied, disk, run, history, Named
<1>7. Applied'
  BY PackAssumption DEF PackInv, Dropping, Applied, TypeOK, Done, Good, Authored, Phases, AtHand, Accounted,
       Progress, disk, run, history, Named
<1>8. Foretold'
  BY PackAssumption DEF PackInv, Dropping, Foretold, TypeOK, Due, Available, Missing, Outdated, Counts, Phases,
       Progress, AtHand, disk, run, history, Named
<1> QED BY <1>1, <1>2, <1>3, <1>4, <1>5, <1>6, <1>7, <1>8 DEF PackInv

\* ... looks at each, ...
LEMMA DropInv ==
    ASSUME PackInv, NEW n \in Name, Drop(n)
    PROVE  PackInv'
<1>1. TypeOK'
  BY PackAssumption DEF PackInv, Drop, TypeOK, disk, run
<1>2. Authored'
  BY PackAssumption DEF PackInv, Drop, Authored, TypeOK, Phases, disk, run, Named
<1>3. Phases'
  BY PackAssumption DEF PackInv, Drop, Phases, TypeOK, disk, run, Named
<1>4. AtHand'
  BY PackAssumption DEF PackInv, Drop, AtHand, TypeOK, Authored, Phases, disk, run, Named
<1>5. Accounted'
  BY PackAssumption DEF PackInv, Drop, Accounted, TypeOK, Done, Authored, Phases, AtHand, Progress, Applied,
       disk, run, Named
<1>6. Progress'
  BY PackAssumption DEF PackInv, Drop, Progress, TypeOK, Done, Good, Authored, Phases, AtHand, Accounted,
       Applied, disk, run, Named
<1>7. Applied'
  BY PackAssumption DEF PackInv, Drop, Applied, TypeOK, Done, Good, Authored, Phases, AtHand, Accounted,
       Progress, disk, run, Named
<1>8. Foretold'
  BY PackAssumption DEF PackInv, Drop, Foretold, TypeOK, Due, Available, Missing, Outdated, Counts, Phases,
       Progress, AtHand, disk, run, Named
<1> QED BY <1>1, <1>2, <1>3, <1>4, <1>5, <1>6, <1>7, <1>8 DEF PackInv

\* ... removes it or fails to, ...
LEMMA UnlinkInv ==
    ASSUME PackInv, Unlink
    PROVE  PackInv'
<1> name \in Name /\ wanted[name] = NONE
  BY DEF PackInv, Phases, TypeOK, Named, Unlink
<1>1. TypeOK'
  BY PackAssumption, SpendType DEF PackInv, Unlink, TypeOK, Owns, Kind, run, Named
<1>2. Authored'
  BY PackAssumption DEF PackInv, Unlink, Authored, TypeOK, Phases, Owns, Spend, run, Named
<1>3. Phases'
  BY PackAssumption DEF PackInv, Unlink, Phases, TypeOK, Owns, Spend, run, Named
<1>4. AtHand'
  BY PackAssumption DEF PackInv, Unlink, AtHand, TypeOK, Authored, Phases, Owns, Spend, run, Named
<1>5. Accounted'
  BY PackAssumption DEF PackInv, Unlink, Accounted, TypeOK, Done, Authored, Phases, AtHand, Progress, Applied,
       Owns, Spend, run, Named
<1>6. Progress'
  <2>1. CASE calm' = FALSE
    BY <2>1 DEF Progress
  <2>2. CASE calm' # FALSE
    <3>1. /\ files' = [files EXCEPT ![name] = NONE] /\ author' = [author EXCEPT ![name] = NONE]
          /\ calm' = calm /\ calm /\ owned' = owned
      BY <2>2 DEF PackInv, TypeOK, Unlink
    <3>2. ASSUME NEW n \in Name, Done(n)' PROVE n = name \/ Done(n)
      BY <3>2 DEF Done, Unlink
    <3>3. ASSUME NEW n \in Name, Done(n)' PROVE Good(n)'
      BY <3>1, <3>2, <3>3 DEF PackInv, TypeOK, Progress, Good, Unlink
    <3> QED BY <3>1, <3>3 DEF PackInv, Progress, Unlink
  <2> QED BY <2>1, <2>2
<1>7. Applied'
  BY PackAssumption DEF PackInv, Unlink, Applied, TypeOK, Done, Good, Authored, Phases, AtHand, Accounted,
       Progress, Owns, Spend, run, Named
<1>8. Foretold'
  BY PackAssumption DEF PackInv, Unlink, Foretold, TypeOK, Due, Available, Missing, Outdated, Counts, Phases,
       Progress, AtHand, Owns, Spend, run, Named
<1> QED BY <1>1, <1>2, <1>3, <1>4, <1>5, <1>6, <1>7, <1>8 DEF PackInv

\* ... and writes its ledger.
LEMMA RecordInv ==
    ASSUME PackInv, Record
    PROVE  PackInv'
<1>1. TypeOK'
  BY PackAssumption DEF PackInv, Record, TypeOK, run
<1>2. Authored'
  BY PackAssumption DEF PackInv, Record, Authored, TypeOK, Phases, run, Named
<1>3. Phases'
  BY PackAssumption DEF PackInv, Record, Phases, TypeOK, run, Named
<1>4. AtHand'
  BY PackAssumption DEF PackInv, Record, AtHand, TypeOK, Authored, Phases, run, Named
<1>5. Accounted'
  BY PackAssumption DEF PackInv, Record, Accounted, TypeOK, Done, Authored, Phases, AtHand, Progress, Applied,
       run, Named
<1>6. Progress'
  BY PackAssumption DEF PackInv, Record, Progress, TypeOK, Done, Good, Authored, Phases, AtHand, Accounted,
       Applied, run, Named
<1>7. Applied'
  BY PackAssumption DEF PackInv, Record, Applied, TypeOK, Done, Good, Authored, Phases, AtHand, Accounted,
       Progress, run, Named
<1>8. Foretold'
  BY PackAssumption DEF PackInv, Record, Foretold, TypeOK, Due, Available, Missing, Outdated, Counts, Phases,
       Progress, AtHand, run, Named
<1> QED BY <1>1, <1>2, <1>3, <1>4, <1>5, <1>6, <1>7, <1>8 DEF PackInv

\* A crash leaves out of the ledger what had been written since.
LEMMA CrashInv ==
    ASSUME PackInv, Crash
    PROVE  PackInv'
<1>1. TypeOK'
  BY PackAssumption, SpendType DEF PackInv, Crash, TypeOK, Kind, disk, run
<1>2. Authored'
  BY PackAssumption DEF PackInv, Crash, Authored, TypeOK, Phases, Spend, disk, run, Named
<1>3. Phases'
  BY PackAssumption DEF PackInv, Crash, Phases, TypeOK, Spend, disk, run, Named
<1>4. AtHand'
  BY PackAssumption DEF PackInv, Crash, AtHand, TypeOK, Authored, Phases, Spend, disk, run, Named
<1>5. Accounted'
  BY PackAssumption DEF PackInv, Crash, Accounted, TypeOK, Done, Authored, Phases, AtHand, Progress, Applied,
       Spend, disk, run, Named
<1>6. Progress'
  BY PackAssumption DEF PackInv, Crash, Progress, TypeOK, Done, Good, Authored, Phases, AtHand, Accounted,
       Applied, Spend, disk, run, Named
<1>7. Applied'
  BY PackAssumption DEF PackInv, Crash, Applied, TypeOK, Done, Good, Authored, Phases, AtHand, Accounted,
       Progress, Spend, disk, run, Named
<1>8. Foretold'
  BY PackAssumption DEF PackInv, Crash, Foretold, TypeOK, Due, Available, Missing, Outdated, Counts, Phases,
       Progress, AtHand, Spend, disk, run, Named
<1> QED BY <1>1, <1>2, <1>3, <1>4, <1>5, <1>6, <1>7, <1>8 DEF PackInv

\* What `check` says is what the next sync has to do.
LEMMA CheckInv ==
    ASSUME PackInv, Check
    PROVE  PackInv'
<1>1. TypeOK'
  BY PackAssumption, SpendType DEF PackInv, Check, TypeOK, Kind, Available, Missing, Outdated, disk, run,
       history, Named
<1>2. Authored'
  BY PackAssumption DEF PackInv, Check, Authored, TypeOK, Phases, Spend, Available, Missing, Outdated, disk, run,
       history, Named
<1>3. Phases'
  BY PackAssumption DEF PackInv, Check, Phases, TypeOK, Spend, Available, Missing, Outdated, disk, run, history,
       Named
<1>4. AtHand'
  BY PackAssumption DEF PackInv, Check, AtHand, TypeOK, Authored, Phases, Spend, Available, Missing, Outdated,
       disk, run, history, Named
<1>5. Accounted'
  BY PackAssumption DEF PackInv, Check, Accounted, TypeOK, Done, Authored, Phases, AtHand, Progress, Applied,
       Spend, Available, Missing, Outdated, disk, run, history, Named
<1>6. Progress'
  BY PackAssumption DEF PackInv, Check, Progress, TypeOK, Done, Good, Authored, Phases, AtHand, Accounted,
       Applied, Spend, Available, Missing, Outdated, disk, run, history, Named
<1>7. Applied'
  BY PackAssumption DEF PackInv, Check, Applied, TypeOK, Done, Good, Authored, Phases, AtHand, Accounted,
       Progress, Spend, Available, Missing, Outdated, disk, run, history, Named
<1>8. Foretold'
  BY PackAssumption DEF PackInv, Check, Foretold, TypeOK, Due, Available, Missing, Outdated, Counts, Phases,
       Progress, AtHand, Spend, disk, run, history, Named
<1> QED BY <1>1, <1>2, <1>3, <1>4, <1>5, <1>6, <1>7, <1>8 DEF PackInv

\* A file the user writes is the user's, whatever a sync is about to do to it.
LEMMA UserInv ==
    ASSUME PackInv, NEW n \in Name, User(n)
    PROVE  PackInv'
<1>1. TypeOK'
  <2>1. PICK c \in Content \cup {NONE} :
             /\ files' = [files EXCEPT ![n] = c]
             /\ author' = [author EXCEPT ![n] = IF c = NONE THEN NONE ELSE "user"]
    BY DEF User
  <2>2. files' \in [Name -> Content \cup {NONE}] /\ author' \in [Name -> {"user", "pack", NONE}]
    BY <2>1 DEF PackInv, TypeOK
  <2> QED BY <2>2, SpendType DEF PackInv, User, TypeOK, Kind, run
<1>2. Authored'
  BY PackAssumption DEF PackInv, User, Authored, TypeOK, Phases, Spend, run, Named
<1>3. Phases'
  BY PackAssumption DEF PackInv, User, Phases, TypeOK, Spend, run, Named
<1>4. AtHand'
  BY PackAssumption DEF PackInv, User, AtHand, TypeOK, Authored, Phases, Spend, run, Named
<1>5. Accounted'
  BY PackAssumption DEF PackInv, User, Accounted, TypeOK, Done, Authored, Phases, AtHand, Progress, Applied,
       Spend, run, Named
<1>6. Progress'
  BY PackAssumption DEF PackInv, User, Progress, TypeOK, Done, Good, Authored, Phases, AtHand, Accounted,
       Applied, Spend, run, Named
<1>7. Applied'
  BY PackAssumption DEF PackInv, User, Applied, TypeOK, Done, Good, Authored, Phases, AtHand, Accounted,
       Progress, Spend, run, Named
<1>8. Foretold'
  BY PackAssumption DEF PackInv, User, Foretold, TypeOK, Due, Available, Missing, Outdated, Counts, Phases,
       Progress, AtHand, Spend, run, Named
<1> QED BY <1>1, <1>2, <1>3, <1>4, <1>5, <1>6, <1>7, <1>8 DEF PackInv

\* Another manifest makes what was said of the last one void.
LEMMA OfferInv ==
    ASSUME PackInv, Offer
    PROVE  PackInv'
<1>1. TypeOK'
  BY PackAssumption, SpendType DEF PackInv, Offer, TypeOK, Kind, disk, run
<1>2. Authored'
  BY PackAssumption DEF PackInv, Offer, Authored, TypeOK, Phases, Spend, disk, run, Named
<1>3. Phases'
  BY PackAssumption DEF PackInv, Offer, Phases, TypeOK, Spend, disk, run, Named
<1>4. AtHand'
  BY PackAssumption DEF PackInv, Offer, AtHand, TypeOK, Authored, Phases, Spend, disk, run, Named
<1>5. Accounted'
  BY PackAssumption DEF PackInv, Offer, Accounted, TypeOK, Done, Authored, Phases, AtHand, Progress, Applied,
       Spend, disk, run, Named
<1>6. Progress'
  BY PackAssumption DEF PackInv, Offer, Progress, TypeOK, Done, Good, Authored, Phases, AtHand, Accounted,
       Applied, Spend, disk, run, Named
<1>7. Applied'
  BY PackAssumption DEF PackInv, Offer, Applied, TypeOK, Done, Good, Authored, Phases, AtHand, Accounted,
       Progress, Spend, disk, run, Named
<1>8. Foretold'
  BY PackAssumption DEF PackInv, Offer, Foretold, TypeOK, Due, Available, Missing, Outdated, Counts, Phases,
       Progress, AtHand, Spend, disk, run, Named
<1> QED BY <1>1, <1>2, <1>3, <1>4, <1>5, <1>6, <1>7, <1>8 DEF PackInv

(***************************************************************************)
(* PackSync: its theorems                                                  *)
(***************************************************************************)
\* Of a directory that nobody but its user has touched, everything holds.
LEMMA PackInit ==
    Init => PackInv
<1> SUFFICES ASSUME Init PROVE PackInv
  OBVIOUS
<1>1. TypeOK
  BY DEF Init, TypeOK, Empty, Content, Kind
<1>2. Authored /\ Accounted
  BY PackAssumption DEF Init, Authored, Accounted, Empty
<1> QED BY <1>1, <1>2 DEF Init, PackInv, Phases, AtHand, Progress, Applied, Foretold, Empty

\* A step that changes nothing of it keeps it.
LEMMA PackUnchanged ==
    ASSUME PackInv, UNCHANGED vars
    PROVE  PackInv'
<1> USE DEF PackInv, vars, disk, run, history
<1>1. TypeOK' /\ Authored' /\ Phases' /\ AtHand' /\ Applied'
  BY DEF TypeOK, Authored, Phases, AtHand, Applied, Named
<1>2. Accounted' /\ Progress'
  BY DEF Accounted, Done, Progress, Good, Named
<1>3. Foretold'
  BY DEF Foretold, Due, Available, Missing, Outdated, Counts, Named
<1> QED BY <1>1, <1>2, <1>3

\* Every step keeps it.
LEMMA PackStepInv ==
    ASSUME PackInv, [Next]_vars
    PROVE  PackInv'
<1>1. CASE Sync
  BY <1>1, BeginInv, WriteInv, DroppingInv, UnlinkInv, RecordInv, LookInv, DropInv DEF Sync
<1>2. CASE ~Sync /\ Next
  BY <1>2, CrashInv, CheckInv, OfferInv, UserInv DEF Next
<1> QED BY <1>1, <1>2, PackUnchanged

\* The inductive invariant of the pack: whose each file is, and what a sync has
\* made of the names it has gone through.
THEOREM PackInvariant == Spec => []PackInv
<1>1. PackInv /\ [Next]_vars => PackInv'
  BY PackStepInv
<1> QED BY PackInit, <1>1, PTL DEF Spec

\* Between two syncs a file the pack wrote is in the ledger, whatever failed; after
\* a good one every file is the manifest's (pack.py:178-242).
THEOREM PackKept == Spec => []Kept
<1>1. PackInv => Kept
  BY DEF PackInv, Kept, NeverOrphaned, Accounted
<1> QED BY PackInvariant, <1>1, PTL

\* `sync` replaces or removes a file of the user's only in the moment after it
\* looked at it (pack.py:198).
THEOREM PackSparesUsers == Spec => UsersOwn
<1>1. ASSUME PackInv, [Next]_vars, NEW n \in Name, Touches(n)
      PROVE  author[n] # "user" \/ files[n] = ledger[n] \/ n \in raced
  <2>1. n = name /\ (Write \/ Unlink)
    BY <1>1 DEF Touches, Next, Sync, Begin, Look, Write, Written, NotWritten, Dropping, Drop, Unlink, Record,
         Crash, Check, User, Offer, vars, disk, run, PackInv, TypeOK
  <2> QED BY <1>1, <2>1, PackAssumption DEF PackInv, AtHand, Write, Unlink, Authored, Phases, Touches
<1>2. PackInv /\ [Next]_vars =>
        [\A n \in Name : Touches(n) => author[n] # "user" \/ files[n] = ledger[n] \/ n \in raced]_vars
  BY <1>1
<1> QED BY PackInvariant, <1>2, PTL DEF Spec, UsersOwn

\* What `check` answered is what the sync after it did (pack.py:155-175).
THEOREM PackTells == Spec => CheckTells
<1>1. ASSUME PackInv, Record, calm PROVE (said = "no" => ~changed) /\ (said = "yes" => changed)
  BY <1>1, PackAssumption DEF PackInv, Foretold, Due, Record
<1>2. PackInv /\ [Next]_vars =>
        [Record /\ calm => (said = "no" => ~changed) /\ (said = "yes" => changed)]_vars
  BY <1>1
<1> QED BY PackInvariant, <1>2, PTL DEF Spec, CheckTells

(***************************************************************************)
(* FollowedFiles: the pack within it                                       *)
(***************************************************************************)
\* Whatever the watchers, the saves and a stop of the service do, what the pack's
\* files see is PackSync, so that what was proved of it holds here.
THEOREM PackWithin == FollowedSpec => Spec
<1>1. FollowedInit => Init
  BY DEF FollowedInit
<1>2. [FollowedNext]_<<vars, followed, done>> => [Next]_vars
  <2>1. PackStep => Next
    BY DEF PackStep, Next
  <2>2. Killed => Next \/ UNCHANGED vars
    BY DEF Killed, Next
  <2> QED BY <2>1, <2>2 DEF FollowedNext
<1> QED BY <1>1, <1>2, PTL DEF FollowedSpec, Spec

(***************************************************************************)
(* FollowedFiles: what the watchers know                                   *)
(***************************************************************************)
\* No stamp is newer than the files', a save holds the lock while it writes, a
\* start does all the time it takes, the device watcher works in a service that
\* is up.
Stamps ==
    /\ stamp <= clock /\ taken <= clock /\ devTaken <= listClock
    /\ devStamp # NONE => devStamp <= listClock
    /\ step = "replace" => holder \in Device
    /\ step = "apply" => unread = {}
    /\ holder = "start" <=> phase = "starting"
    /\ devAt # "idle" => phase = "up"

\* If no file was written since the snapshot, what was read of it is still so.
Snapshot ==
    /\ step \in {"read", "apply"} /\ taken = clock =>
        /\ \A n \in Name \ unread : loaded.pack[n] = files[n]
        /\ "settings" \notin unread => loaded.of = Said
    /\ devAt = "apply" /\ devTaken = listClock => devRead = listing.ids
    /\ step = "replace" /\ ~edited => settings.parses /\ copy = settings.of

\* What the Hub and the client have, whoever holds the lock.
UpToDate ==
    /\ phase = "up" /\ stamp = clock /\ ~refused => inforce = [pack |-> files, of |-> Said]
    /\ phase = "up" /\ devStamp = listClock /\ ~missed => records = listing.ids
    /\ phase = "starting" /\ ~missed => records = listing.ids

FollowedInv == FollowedTypeOK /\ Stamps /\ Snapshot /\ UpToDate

\* What is used of a plan is counted.
LEMMA UseType ==
    ASSUME FollowedTypeOK, NEW task \in Task, Use(task)
    PROVE  done' \in [Task -> Nat]
BY DEF FollowedTypeOK, Use

\* The override watcher takes the lock, ...
LEMMA OverridesLookFollows ==
    ASSUME FollowedInv, OverridesLook, UNCHANGED vars, TypeOK'
    PROVE  FollowedInv'
<1>1. FollowedTypeOK'
  BY FollowedAssumption, UseType DEF FollowedInv, OverridesLook, dirVars, listVars, saveVars, deviceVars, vars,
       disk, FollowedTypeOK, Task
<1>2. Stamps'
  BY FollowedAssumption DEF FollowedInv, OverridesLook, dirVars, listVars, saveVars, deviceVars, vars, disk,
       Stamps, FollowedTypeOK, Use
<1>3. Snapshot'
  BY FollowedAssumption DEF FollowedInv, OverridesLook, dirVars, listVars, saveVars, deviceVars, vars, disk,
       Snapshot, FollowedTypeOK, Stamps, Use, Said
<1>4. UpToDate'
  BY FollowedAssumption DEF FollowedInv, OverridesLook, dirVars, listVars, saveVars, deviceVars, vars, disk,
       UpToDate, FollowedTypeOK, Stamps, Snapshot, Use, Said
<1> QED BY <1>1, <1>2, <1>3, <1>4 DEF FollowedInv

\* ... the stamp, ...
LEMMA TakeSnapshotFollows ==
    ASSUME FollowedInv, TakeSnapshot, UNCHANGED vars, TypeOK'
    PROVE  FollowedInv'
<1>1. FollowedTypeOK'
  BY FollowedAssumption DEF FollowedInv, TakeSnapshot, dirVars, listVars, saveVars, deviceVars, vars, disk,
       FollowedTypeOK, Task, Nothing, NoBlocks, Empty, Reading, Overrides, Blocks
<1>2. Stamps'
  BY FollowedAssumption DEF FollowedInv, TakeSnapshot, dirVars, listVars, saveVars, deviceVars, vars, disk,
       Stamps, FollowedTypeOK, Nothing, NoBlocks, Empty, Reading, Overrides, Blocks
<1>3. Snapshot'
  BY FollowedAssumption DEF FollowedInv, TakeSnapshot, dirVars, listVars, saveVars, deviceVars, vars, disk,
       Snapshot, FollowedTypeOK, Stamps, Said, Nothing, NoBlocks, Empty, Reading, Overrides, Blocks
<1>4. UpToDate'
  BY FollowedAssumption DEF FollowedInv, TakeSnapshot, dirVars, listVars, saveVars, deviceVars, vars, disk,
       UpToDate, FollowedTypeOK, Stamps, Snapshot, Said, Nothing, NoBlocks, Empty, Reading, Overrides, Blocks
<1> QED BY <1>1, <1>2, <1>3, <1>4 DEF FollowedInv

\* ... and the files, which are what the stamp is of if none is written; ...
LEMMA ReadFollows ==
    ASSUME FollowedInv, NEW x \in Reading, Read(x), UNCHANGED vars, TypeOK'
    PROVE  FollowedInv'
<1>1. FollowedTypeOK'
  <2>1. CASE x = "settings"
    <3>1. Said \in Blocks
      BY DEF FollowedInv, FollowedTypeOK, Said, Settings, Blocks, NoBlocks
    <3>2. loaded' \in Overrides
      BY <2>1, <3>1 DEF FollowedInv, FollowedTypeOK, Read, Overrides
    <3> QED BY <2>1, <3>2, FollowedAssumption DEF FollowedInv, FollowedTypeOK, Read, dirVars, listVars, saveVars, deviceVars
  <2>2. CASE x # "settings"
    <3>1. files[x] \in Content \cup {NONE}
      BY <2>2 DEF vars, disk, FollowedInv, FollowedTypeOK, TypeOK, Reading
    <3>2. loaded' \in Overrides
      BY <2>2, <3>1 DEF FollowedInv, FollowedTypeOK, Read, Overrides
    <3> QED BY <2>2, <3>2, FollowedAssumption DEF FollowedInv, FollowedTypeOK, Read, dirVars, listVars, saveVars, deviceVars
  <2> QED BY <2>1, <2>2
<1>2. Stamps'
  BY FollowedAssumption DEF FollowedInv, Read, dirVars, listVars, saveVars, deviceVars, vars, disk, Stamps,
       FollowedTypeOK, Said, Overrides, Reading, NoBlocks, Blocks, Settings
<1>3. Snapshot'
  BY FollowedAssumption DEF FollowedInv, Read, dirVars, listVars, saveVars, deviceVars, vars, disk, Snapshot,
       FollowedTypeOK, Stamps, Said, Overrides, Reading, NoBlocks, Blocks, Settings
<1>4. UpToDate'
  BY FollowedAssumption DEF FollowedInv, Read, dirVars, listVars, saveVars, deviceVars, vars, disk, UpToDate,
       FollowedTypeOK, Stamps, Snapshot, Said, Overrides, Reading, NoBlocks, Blocks, Settings
<1> QED BY <1>1, <1>2, <1>3, <1>4 DEF FollowedInv

\* ... it applies them, or has them refused, ...
LEMMA ApplyFollows ==
    ASSUME FollowedInv, Apply, UNCHANGED vars, TypeOK'
    PROVE  FollowedInv'
<1>1. FollowedTypeOK'
  BY FollowedAssumption DEF FollowedInv, Apply, dirVars, listVars, deviceVars, vars, disk, FollowedTypeOK, Task,
       Release, Stamp, Refuses, Driven, Reading
<1>2. Stamps'
  BY FollowedAssumption DEF FollowedInv, Apply, dirVars, listVars, deviceVars, vars, disk, Stamps,
       FollowedTypeOK, Release, Stamp, Refuses, Driven, Reading
<1>3. Snapshot'
  BY FollowedAssumption DEF FollowedInv, Apply, dirVars, listVars, deviceVars, vars, disk, Snapshot,
       FollowedTypeOK, Stamps, Said, Release, Stamp, Refuses, Driven, Reading
<1>4. UpToDate'
  <2>1. CASE stamp' = clock' /\ ~refused'
    <3>1. loaded \in Overrides /\ loaded.of = Said /\ \A n \in Name : loaded.pack[n] = files[n]
      BY <2>1 DEF FollowedInv, Stamps, Snapshot, FollowedTypeOK, Apply, Stamp, dirVars
    <3>2. loaded = [pack |-> files, of |-> Said]
      BY <3>1 DEF Overrides, FollowedInv, FollowedTypeOK, TypeOK
    <3>3. inforce' = [pack |-> files, of |-> Said]'
      BY <2>1, <3>2 DEF Apply, Said, dirVars, vars, disk
    <3> QED BY <3>3 DEF FollowedInv, UpToDate, Apply, listVars, deviceVars
  <2> QED BY <2>1 DEF FollowedInv, UpToDate, Apply, listVars, deviceVars
<1> QED BY <1>1, <1>2, <1>3, <1>4 DEF FollowedInv

\* ... or gives up.
LEMMA TroubleFollows ==
    ASSUME FollowedInv, Trouble, UNCHANGED vars, TypeOK'
    PROVE  FollowedInv'
<1>1. FollowedTypeOK'
  BY FollowedAssumption, UseType DEF FollowedInv, Trouble, dirVars, listVars, deviceVars, vars, disk,
       FollowedTypeOK, Task, Release
<1>2. Stamps'
  BY FollowedAssumption DEF FollowedInv, Trouble, dirVars, listVars, deviceVars, vars, disk, Stamps,
       FollowedTypeOK, Use, Release
<1>3. Snapshot'
  BY FollowedAssumption DEF FollowedInv, Trouble, dirVars, listVars, deviceVars, vars, disk, Snapshot,
       FollowedTypeOK, Stamps, Use, Said, Release
<1>4. UpToDate'
  BY FollowedAssumption DEF FollowedInv, Trouble, dirVars, listVars, deviceVars, vars, disk, UpToDate,
       FollowedTypeOK, Stamps, Snapshot, Use, Said, Release
<1> QED BY <1>1, <1>2, <1>3, <1>4 DEF FollowedInv

\* A save that is asked for waits, ...
LEMMA AskSaveFollows ==
    ASSUME FollowedInv, NEW d \in Device, AskSave(d), UNCHANGED vars, TypeOK'
    PROVE  FollowedInv'
<1>1. FollowedTypeOK'
  BY FollowedAssumption, UseType DEF FollowedInv, AskSave, dirVars, listVars, watchVars, deviceVars, vars, disk,
       FollowedTypeOK, Task, Driven, Block
<1>2. Stamps'
  BY FollowedAssumption DEF FollowedInv, AskSave, dirVars, listVars, watchVars, deviceVars, vars, disk, Stamps,
       FollowedTypeOK, Use, Driven, Block
<1>3. Snapshot'
  BY FollowedAssumption DEF FollowedInv, AskSave, dirVars, listVars, watchVars, deviceVars, vars, disk, Snapshot,
       FollowedTypeOK, Stamps, Use, Said, Driven, Block
<1>4. UpToDate'
  BY FollowedAssumption DEF FollowedInv, AskSave, dirVars, listVars, watchVars, deviceVars, vars, disk, UpToDate,
       FollowedTypeOK, Stamps, Snapshot, Use, Said, Driven, Block
<1> QED BY <1>1, <1>2, <1>3, <1>4 DEF FollowedInv

\* ... reads the file under the lock, ...
LEMMA SaveFollows ==
    ASSUME FollowedInv, NEW d \in Device, Save(d), UNCHANGED vars, TypeOK'
    PROVE  FollowedInv'
<1>1. FollowedTypeOK'
  <2>1. Said \in Blocks
    BY DEF FollowedInv, FollowedTypeOK, Said, Settings, Blocks, NoBlocks
  <2>2. CASE Locked(d)
    BY <2>1, <2>2, FollowedAssumption, UseType DEF FollowedInv, FollowedTypeOK, Save, Locked, Task, dirVars,
         listVars, deviceVars
  <2>3. CASE ~Locked(d)
    BY <2>3, FollowedAssumption, UseType DEF FollowedInv, FollowedTypeOK, Save, Task, dirVars, listVars,
         deviceVars
  <2> QED BY <2>2, <2>3
<1>2. Stamps'
  BY FollowedAssumption DEF FollowedInv, Save, dirVars, listVars, deviceVars, vars, disk, Stamps, FollowedTypeOK,
       Use, Locked, Said, NoBlocks, Blocks, Settings
<1>3. Snapshot'
  BY FollowedAssumption DEF FollowedInv, Save, dirVars, listVars, deviceVars, vars, disk, Snapshot,
       FollowedTypeOK, Stamps, Use, Said, Locked, NoBlocks, Blocks, Settings
<1>4. UpToDate'
  BY FollowedAssumption DEF FollowedInv, Save, dirVars, listVars, deviceVars, vars, disk, UpToDate,
       FollowedTypeOK, Stamps, Snapshot, Use, Said, Locked, NoBlocks, Blocks, Settings
<1> QED BY <1>1, <1>2, <1>3, <1>4 DEF FollowedInv

\* ... and replaces it.
LEMMA ReplaceFollows ==
    ASSUME FollowedInv, Replace, UNCHANGED vars, TypeOK'
    PROVE  FollowedInv'
<1>1. FollowedTypeOK'
  <2>1. saving[holder] \in Block \cup {"remove", NONE}
    BY DEF FollowedInv, FollowedTypeOK, Stamps, Replace
  <2>2. settings' \in Settings
    BY <2>1 DEF FollowedInv, FollowedTypeOK, Replace, Settings, Blocks
  <2> QED BY <2>2, FollowedAssumption DEF FollowedInv, FollowedTypeOK, Replace, listVars, saveVars, deviceVars
<1>2. Stamps'
  BY FollowedAssumption DEF FollowedInv, Replace, listVars, saveVars, deviceVars, vars, disk, Stamps,
       FollowedTypeOK, Settings, Blocks, Block
<1>3. Snapshot'
  BY FollowedAssumption DEF FollowedInv, Replace, listVars, saveVars, deviceVars, vars, disk, Snapshot,
       FollowedTypeOK, Stamps, Said, Settings, Blocks, Block
<1>4. UpToDate'
  BY FollowedAssumption DEF FollowedInv, Replace, listVars, saveVars, deviceVars, vars, disk, UpToDate,
       FollowedTypeOK, Stamps, Snapshot, Said, Settings, Blocks, Block
<1> QED BY <1>1, <1>2, <1>3, <1>4 DEF FollowedInv

\* The device watcher takes its stamp, ...
LEMMA DeviceLookFollows ==
    ASSUME FollowedInv, DeviceLook, UNCHANGED vars, TypeOK'
    PROVE  FollowedInv'
<1>1. FollowedTypeOK'
  BY FollowedAssumption, UseType DEF FollowedInv, DeviceLook, dirVars, listVars, watchVars, saveVars, vars, disk,
       FollowedTypeOK, Task
<1>2. Stamps'
  BY FollowedAssumption DEF FollowedInv, DeviceLook, dirVars, listVars, watchVars, saveVars, vars, disk, Stamps,
       FollowedTypeOK, Use
<1>3. Snapshot'
  BY FollowedAssumption DEF FollowedInv, DeviceLook, dirVars, listVars, watchVars, saveVars, vars, disk,
       Snapshot, FollowedTypeOK, Stamps, Use, Said
<1>4. UpToDate'
  BY FollowedAssumption DEF FollowedInv, DeviceLook, dirVars, listVars, watchVars, saveVars, vars, disk,
       UpToDate, FollowedTypeOK, Stamps, Snapshot, Use, Said
<1> QED BY <1>1, <1>2, <1>3, <1>4 DEF FollowedInv

\* ... reads the file, ...
LEMMA DeviceReadFollows ==
    ASSUME FollowedInv, DeviceRead, UNCHANGED vars, TypeOK'
    PROVE  FollowedInv'
<1>1. FollowedTypeOK'
  BY FollowedAssumption DEF FollowedInv, DeviceRead, dirVars, listVars, watchVars, saveVars, vars, disk,
       FollowedTypeOK, Task, Listings
<1>2. Stamps'
  BY FollowedAssumption DEF FollowedInv, DeviceRead, dirVars, listVars, watchVars, saveVars, vars, disk, Stamps,
       FollowedTypeOK, Listings
<1>3. Snapshot'
  BY FollowedAssumption DEF FollowedInv, DeviceRead, dirVars, listVars, watchVars, saveVars, vars, disk,
       Snapshot, FollowedTypeOK, Stamps, Said, Listings
<1>4. UpToDate'
  BY FollowedAssumption DEF FollowedInv, DeviceRead, dirVars, listVars, watchVars, saveVars, vars, disk,
       UpToDate, FollowedTypeOK, Stamps, Snapshot, Said, Listings
<1> QED BY <1>1, <1>2, <1>3, <1>4 DEF FollowedInv

\* ... and applies it.
LEMMA DeviceApplyFollows ==
    ASSUME FollowedInv, DeviceApply, UNCHANGED vars, TypeOK'
    PROVE  FollowedInv'
<1>1. FollowedTypeOK'
  BY FollowedAssumption DEF FollowedInv, DeviceApply, dirVars, listVars, watchVars, saveVars, vars, disk,
       FollowedTypeOK, Task, DeviceStamp
<1>2. Stamps'
  BY FollowedAssumption DEF FollowedInv, DeviceApply, dirVars, listVars, watchVars, saveVars, vars, disk, Stamps,
       FollowedTypeOK, DeviceStamp
<1>3. Snapshot'
  BY FollowedAssumption DEF FollowedInv, DeviceApply, dirVars, listVars, watchVars, saveVars, vars, disk,
       Snapshot, FollowedTypeOK, Stamps, Said, DeviceStamp
<1>4. UpToDate'
  BY FollowedAssumption DEF FollowedInv, DeviceApply, dirVars, listVars, watchVars, saveVars, vars, disk,
       UpToDate, FollowedTypeOK, Stamps, Snapshot, Said, DeviceStamp
<1> QED BY <1>1, <1>2, <1>3, <1>4 DEF FollowedInv

\* A start reads the device file and then the directory, ...
LEMMA StartFollows ==
    ASSUME FollowedInv, Start, UNCHANGED vars, TypeOK'
    PROVE  FollowedInv'
<1>1. FollowedTypeOK'
  BY FollowedAssumption, UseType DEF FollowedInv, Start, dirVars, listVars, saveVars, vars, disk, FollowedTypeOK,
       Task, Listings
<1>2. Stamps'
  BY FollowedAssumption DEF FollowedInv, Start, dirVars, listVars, saveVars, vars, disk, Stamps, FollowedTypeOK,
       Use, Listings
<1>3. Snapshot'
  BY FollowedAssumption DEF FollowedInv, Start, dirVars, listVars, saveVars, vars, disk, Snapshot,
       FollowedTypeOK, Stamps, Use, Said, Listings
<1>4. UpToDate'
  BY FollowedAssumption DEF FollowedInv, Start, dirVars, listVars, saveVars, vars, disk, UpToDate,
       FollowedTypeOK, Stamps, Snapshot, Use, Said, Listings
<1> QED BY <1>1, <1>2, <1>3, <1>4 DEF FollowedInv

\* ... and is up with what it read.
LEMMA ReadyFollows ==
    ASSUME FollowedInv, Ready, UNCHANGED vars, TypeOK'
    PROVE  FollowedInv'
<1>1. FollowedTypeOK'
  BY FollowedAssumption DEF FollowedInv, Ready, dirVars, listVars, vars, disk, FollowedTypeOK, Task, Release,
       Stamp, Reading, Overrides
<1>2. Stamps'
  BY FollowedAssumption DEF FollowedInv, Ready, dirVars, listVars, vars, disk, Stamps, FollowedTypeOK, Release,
       Stamp, Reading, Overrides
<1>3. Snapshot'
  BY FollowedAssumption DEF FollowedInv, Ready, dirVars, listVars, vars, disk, Snapshot, FollowedTypeOK, Stamps,
       Said, Release, Stamp, Reading, Overrides
<1>4. UpToDate'
  <2>1. CASE stamp' = clock'
    <3>1. loaded \in Overrides /\ loaded.of = Said /\ \A n \in Name : loaded.pack[n] = files[n]
      BY <2>1 DEF FollowedInv, Stamps, Snapshot, FollowedTypeOK, Ready, Stamp, dirVars
    <3>2. loaded = [pack |-> files, of |-> Said]
      BY <3>1 DEF Overrides, FollowedInv, FollowedTypeOK, TypeOK
    <3>3. inforce' = [pack |-> files, of |-> Said]'
      BY <3>2 DEF Ready, Said, dirVars, vars, disk
    <3> QED BY <3>3 DEF FollowedInv, UpToDate, Stamps, Ready, listVars
  <2> QED BY <2>1 DEF FollowedInv, UpToDate, Stamps, Ready, listVars
<1> QED BY <1>1, <1>2, <1>3, <1>4 DEF FollowedInv

\* A stop ends the watchers, but not the saves, ...
LEMMA StopFollows ==
    ASSUME FollowedInv, Stop, UNCHANGED vars, TypeOK'
    PROVE  FollowedInv'
<1>1. FollowedTypeOK'
  BY FollowedAssumption, UseType DEF FollowedInv, Stop, dirVars, listVars, vars, disk, FollowedTypeOK, Task,
       Halt, Release
<1>2. Stamps'
  BY FollowedAssumption DEF FollowedInv, Stop, dirVars, listVars, vars, disk, Stamps, FollowedTypeOK, Use, Halt,
       Release
<1>3. Snapshot'
  BY FollowedAssumption DEF FollowedInv, Stop, dirVars, listVars, vars, disk, Snapshot, FollowedTypeOK, Stamps,
       Use, Said, Halt, Release
<1>4. UpToDate'
  BY FollowedAssumption DEF FollowedInv, Stop, dirVars, listVars, vars, disk, UpToDate, FollowedTypeOK, Stamps,
       Snapshot, Use, Said, Halt, Release
<1> QED BY <1>1, <1>2, <1>3, <1>4 DEF FollowedInv

\* ... for which it waits.
LEMMA StoppedFollows ==
    ASSUME FollowedInv, Stopped, UNCHANGED vars, TypeOK'
    PROVE  FollowedInv'
<1>1. FollowedTypeOK'
  BY FollowedAssumption DEF FollowedInv, Stopped, dirVars, listVars, watchVars, saveVars, deviceVars, vars, disk,
       FollowedTypeOK, Task
<1>2. Stamps'
  BY FollowedAssumption DEF FollowedInv, Stopped, dirVars, listVars, watchVars, saveVars, deviceVars, vars, disk,
       Stamps, FollowedTypeOK
<1>3. Snapshot'
  BY FollowedAssumption DEF FollowedInv, Stopped, dirVars, listVars, watchVars, saveVars, deviceVars, vars, disk,
       Snapshot, FollowedTypeOK, Stamps, Said
<1>4. UpToDate'
  BY FollowedAssumption DEF FollowedInv, Stopped, dirVars, listVars, watchVars, saveVars, deviceVars, vars, disk,
       UpToDate, FollowedTypeOK, Stamps, Snapshot, Said
<1> QED BY <1>1, <1>2, <1>3, <1>4 DEF FollowedInv

\* Whatever the owner writes has another stamp: the settings, ...
LEMMA EditSettingsFollows ==
    ASSUME FollowedInv, EditSettings, UNCHANGED vars, TypeOK'
    PROVE  FollowedInv'
<1>1. FollowedTypeOK'
  BY FollowedAssumption, UseType DEF FollowedInv, EditSettings, listVars, watchVars, deviceVars, vars, disk,
       FollowedTypeOK, Task, Settings
<1>2. Stamps'
  BY FollowedAssumption DEF FollowedInv, EditSettings, listVars, watchVars, deviceVars, vars, disk, Stamps,
       FollowedTypeOK, Use, Settings
<1>3. Snapshot'
  BY FollowedAssumption DEF FollowedInv, EditSettings, listVars, watchVars, deviceVars, vars, disk, Snapshot,
       FollowedTypeOK, Stamps, Use, Said, Settings
<1>4. UpToDate'
  BY FollowedAssumption DEF FollowedInv, EditSettings, listVars, watchVars, deviceVars, vars, disk, UpToDate,
       FollowedTypeOK, Stamps, Snapshot, Use, Said, Settings
<1> QED BY <1>1, <1>2, <1>3, <1>4 DEF FollowedInv

\* ... and the device file.
LEMMA EditListFollows ==
    ASSUME FollowedInv, EditList, UNCHANGED vars, TypeOK'
    PROVE  FollowedInv'
<1>1. FollowedTypeOK'
  BY FollowedAssumption, UseType DEF FollowedInv, EditList, dirVars, watchVars, saveVars, vars, disk,
       FollowedTypeOK, Task
<1>2. Stamps'
  BY FollowedAssumption DEF FollowedInv, EditList, dirVars, watchVars, saveVars, vars, disk, Stamps,
       FollowedTypeOK, Use
<1>3. Snapshot'
  BY FollowedAssumption DEF FollowedInv, EditList, dirVars, watchVars, saveVars, vars, disk, Snapshot,
       FollowedTypeOK, Stamps, Use, Said
<1>4. UpToDate'
  <2>1. devStamp' # listClock'
    BY FollowedAssumption DEF FollowedInv, FollowedTypeOK, Stamps, EditList
  <2> QED BY <2>1 DEF FollowedInv, UpToDate, FollowedTypeOK, EditList, Said, dirVars, watchVars, vars, disk
<1> QED BY <1>1, <1>2, <1>3, <1>4 DEF FollowedInv

\* So has what the pack writes, ...
LEMMA PackStepFollows ==
    ASSUME FollowedInv, PackStep, TypeOK'
    PROVE  FollowedInv'
<1>1. FollowedTypeOK'
  BY FollowedAssumption DEF FollowedInv, PackStep, FollowedTypeOK, Task, listVars, watchVars, saveVars,
       deviceVars
<1>2. Stamps'
  BY FollowedAssumption DEF FollowedInv, PackStep, Stamps, FollowedTypeOK, listVars, watchVars, saveVars,
       deviceVars
<1>3. Snapshot'
  BY FollowedAssumption DEF FollowedInv, PackStep, Snapshot, FollowedTypeOK, Stamps, Said, listVars, watchVars,
       saveVars, deviceVars
<1>4. UpToDate'
  BY FollowedAssumption DEF FollowedInv, PackStep, UpToDate, FollowedTypeOK, Stamps, Snapshot, Said, listVars,
       watchVars, saveVars, deviceVars
<1> QED BY <1>1, <1>2, <1>3, <1>4 DEF FollowedInv

\* ... and a process that dies leaves the files as they are.
LEMMA KilledFollows ==
    ASSUME FollowedInv, Killed, TypeOK'
    PROVE  FollowedInv'
<1>1. FollowedTypeOK'
  BY FollowedAssumption, UseType DEF FollowedInv, Killed, FollowedTypeOK, Task, dirVars, listVars, Crash, vars,
       disk
<1>2. Stamps'
  BY FollowedAssumption DEF FollowedInv, Killed, Stamps, FollowedTypeOK, dirVars, listVars, Crash, vars, disk
<1>3. Snapshot'
  BY FollowedAssumption DEF FollowedInv, Killed, Snapshot, FollowedTypeOK, Stamps, Said, dirVars, listVars,
       Crash, vars, disk
<1>4. UpToDate'
  BY FollowedAssumption DEF FollowedInv, Killed, UpToDate, FollowedTypeOK, Stamps, Snapshot, Said, dirVars,
       listVars, Crash, vars, disk
<1> QED BY <1>1, <1>2, <1>3, <1>4 DEF FollowedInv

(***************************************************************************)
(* FollowedFiles: its theorems                                             *)
(***************************************************************************)
\* A service that has just been looked at is up to date.
LEMMA FollowedStart ==
    FollowedInit => FollowedInv
<1> SUFFICES ASSUME FollowedInit PROVE FollowedInv
  OBVIOUS
<1>1. NoBlocks \in Blocks /\ files \in [Name -> Content \cup {NONE}] /\ TypeOK
  BY PackInit DEF FollowedInit, NoBlocks, Blocks, PackInv, TypeOK
<1>2. FollowedTypeOK
  BY <1>1, FollowedAssumption DEF FollowedInit, FollowedTypeOK, Settings, Listings, Overrides, Nothing, Empty,
       Task
<1>3. Stamps
  BY FollowedAssumption DEF FollowedInit, Stamps
<1>4. Snapshot /\ UpToDate
  BY FollowedAssumption DEF FollowedInit, Snapshot, UpToDate, Said
<1> QED BY <1>2, <1>3, <1>4 DEF FollowedInv

\* A step of nobody's keeps it.
LEMMA FollowedUnchanged ==
    ASSUME FollowedInv, UNCHANGED <<vars, followed, done>>
    PROVE  FollowedInv'
<1> USE DEF FollowedInv, vars, disk, run, history, followed, dirVars, listVars, watchVars, saveVars, deviceVars
<1>1. FollowedTypeOK'
  BY DEF FollowedTypeOK, TypeOK
<1>2. Stamps' /\ Snapshot' /\ UpToDate'
  BY DEF Stamps, Snapshot, UpToDate, Said
<1> QED BY <1>1, <1>2

\* Every step keeps what the watchers know; the pack's own types are PackSync's.
LEMMA FollowedStepInv ==
    ASSUME FollowedInv, TypeOK', [FollowedNext]_<<vars, followed, done>>
    PROVE  FollowedInv'
<1>1. CASE Watch /\ UNCHANGED vars
  BY <1>1, OverridesLookFollows, TakeSnapshotFollows, ReadFollows, ApplyFollows, TroubleFollows, AskSaveFollows,
       SaveFollows, ReplaceFollows, DeviceLookFollows, DeviceReadFollows, DeviceApplyFollows, StartFollows,
       ReadyFollows, StopFollows, StoppedFollows, EditSettingsFollows, EditListFollows DEF Watch
<1> QED BY <1>1, PackStepFollows, KilledFollows, FollowedUnchanged DEF FollowedNext

\* The inductive invariant of the watchers: what was read under a stamp that is
\* still the files' is what they say.
THEOREM FollowedInvariant == FollowedSpec => []FollowedInv
<1>1. PackInv => TypeOK
  BY DEF PackInv
<1>2. FollowedInv /\ TypeOK' /\ [FollowedNext]_<<vars, followed, done>> => FollowedInv'
  BY FollowedStepInv
<1> QED BY FollowedStart, <1>1, <1>2, PackWithin, PackInvariant, PTL DEF FollowedSpec

\* The watchers, the saves and the pack keep their variables' types.
THEOREM FollowedTypes == FollowedSpec => []FollowedTypeOK
<1>1. FollowedInv => FollowedTypeOK
  BY DEF FollowedInv
<1> QED BY FollowedInvariant, <1>1, PTL

\* A watcher at rest has applied what the files say, whoever wrote them while it
\* read (overrides.py:161-173, devices.py:85-110).
THEOREM FilesFollowed == FollowedSpec => []Followed
<1>1. FollowedInv => Followed
  BY DEF FollowedInv, UpToDate, Followed, InForce, ListFollowed
<1> QED BY FollowedInvariant, <1>1, PTL

\* A save changes the settings of its own device only (overrides.py:143-159).
THEOREM SavesSpare == FollowedSpec => SaveSpares
<1>1. ASSUME FollowedInv, [FollowedNext]_<<vars, followed, done>>, step = "replace", step' = "snap", ~edited,
             NEW d \in Device \ {holder}
      PROVE  settings'.of[d] = settings.of[d]
  <2>1. CASE Replace
    BY <1>1, <2>1 DEF FollowedInv, FollowedTypeOK, Snapshot, Replace, Blocks
  <2>2. CASE UNCHANGED settings
    BY <2>2
  <2>3. Replace \/ UNCHANGED settings
    BY <1>1, FollowedAssumption DEF FollowedNext, Watch, PackStep, Killed, OverridesLook, TakeSnapshot, Read,
         Apply, Trouble, AskSave, Save, DeviceLook, DeviceRead, DeviceApply, Start, Ready, Stop, Stopped,
         EditSettings, EditList, followed, dirVars, watchVars
  <2> QED BY <2>1, <2>2, <2>3
<1>2. FollowedInv /\ [FollowedNext]_<<vars, followed, done>> =>
        [step = "replace" /\ step' = "snap" /\ ~edited =>
           \A d \in Device \ {holder} : settings'.of[d] = settings.of[d]]_<<vars, followed>>
  BY <1>1
<1> QED BY FollowedInvariant, <1>2, PTL DEF FollowedSpec, SaveSpares

\* What was proved of the pack holds in the directory that is followed.
COROLLARY FollowedPack == FollowedSpec => []Kept /\ UsersOwn /\ CheckTells
BY PackWithin, PackKept, PackSparesUsers, PackTells, PTL
=============================================================================
