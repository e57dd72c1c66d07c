------------------------------ MODULE PackSync ------------------------------
(***************************************************************************)
(* The override pack in one directory: `sync`, a worker thread that makes  *)
(* the pack's files those of the manifest, one file after the other, and   *)
(* then writes the ledger that says which are its own; `check`, that only  *)
(* looks; the user, who writes and deletes files of the same directory at  *)
(* any moment; and a crash between any two steps.                          *)
(*                                                                         *)
(* A content stands for its hash.  A file is looked at and replaced in two *)
(* steps, as a download is in between; one `sync` runs at a time, as one   *)
(* task of the service waits for its thread.                               *)
(***************************************************************************)
EXTENDS Integers, FiniteSets

CONSTANTS
    Name, Version,      \* files of the pack; contents a manifest may ask for
    Mine,               \* a content of the user's
    Bundled,            \* the <<name, version>> that come with the release
    Budgets,            \* a set of bounds on what happens, by kind
    NONE

Content == Version \cup {Mine}
Kind == {"sync", "publish", "user", "fail", "crash", "check"}

ASSUME PackAssumption ==
    Mine \notin Version /\ Bundled \subseteq Name \X Version /\ Budgets \subseteq [Kind -> Nat]
    /\ NONE \notin Content \cup Name \cup {"user", "pack", "yes", "no"}

VARIABLES
    files, ledger,      \* the directory, NONE where there is no file; the ledger file
    manifest,           \* what the repository offers for this LEVEL
    at,                 \* where `sync` is
    wanted, before,     \* its manifest and the ledger it read
    todo, owned,        \* the names left, and the next ledger
    name, seen,         \* the file at hand, and what was seen of it
    author,             \* history: who wrote each file
    raced, orphans,     \* history: written by the user since it was looked at; left out by a crash
    changed, calm,      \* history: sync changed something; nothing else did or failed meanwhile
    said,               \* history: what check answered, while that holds
    spent

disk == <<files, ledger, author>>
run == <<at, wanted, before, todo, name, seen, owned>>
history == <<raced, orphans, changed, calm, said>>
vars == <<disk, manifest, run, history, spent>>

TypeOK ==
    /\ files \in [Name -> Content \cup {NONE}] /\ author \in [Name -> {"user", "pack", NONE}]
    /\ ledger \in [Name -> Version \cup {NONE}] /\ manifest \in [Name -> Version \cup {NONE}]
    /\ at \in {"idle", "look", "write", "drop", "unlink"}
    /\ wanted \in [Name -> Version \cup {NONE}] /\ before \in [Name -> Version \cup {NONE}]
    /\ todo \subseteq Name /\ name \in Name \cup {NONE} /\ owned \in [Name -> Version \cup {NONE}]
    /\ seen \in Content \cup {NONE} /\ raced \subseteq Name /\ orphans \subseteq Name
    /\ said \in {"yes", "no", NONE} /\ changed \in BOOLEAN /\ calm \in BOOLEAN /\ spent \in [Kind -> Nat]

Empty == [n \in Name |-> NONE]

Init ==
    /\ files \in [Name -> {NONE, Mine}] /\ author = [n \in Name |-> IF files[n] = NONE THEN NONE ELSE "user"]
    /\ ledger = Empty /\ manifest = Empty
    /\ at = "idle" /\ wanted = Empty /\ before = Empty /\ todo = {} /\ name = NONE /\ seen = NONE
    /\ owned = Empty /\ raced = {} /\ orphans = {}
    /\ said = NONE /\ changed = FALSE /\ calm = FALSE /\ spent = [k \in Kind |-> 0]

Spend(kind) ==
    /\ spent' = [spent EXCEPT ![kind] = @ + 1]
    /\ \E b \in Budgets : \A k \in Kind : spent'[k] <= b[k]

(***************************************************************************)
(* sync                                                                    *)
(***************************************************************************)
Named(offer) == {n \in Name : offer[n] # NONE}

Begin ==
    /\ at = "idle" /\ Spend("sync") /\ at' = "look" /\ owned' = Empty
    /\ wanted' = manifest /\ todo' = Named(manifest) /\ before' = ledger
    /\ raced' = {} /\ changed' = FALSE /\ calm' = TRUE
    /\ UNCHANGED <<disk, manifest, name, seen, orphans, said>>

\* What is there already is taken for the pack's own; what is neither wanted nor
\* the copy written last is the user's.
Owns(n, v) == owned' = [owned EXCEPT ![n] = v]

\* Mutant: what the ledger lists is the pack's, edited or not.
UsersByName(n) == files[n] # NONE /\ before[n] = NONE

Users(n) == files[n] # NONE /\ before[n] # files[n]

Look(n) ==
    /\ at = "look" /\ n \in todo /\ todo' = todo \ {n} /\ raced' = raced \ {n} /\ seen' = files[n]
    /\ IF files[n] = wanted[n] THEN Owns(n, wanted[n]) /\ UNCHANGED <<at, name>>
       ELSE IF Users(n) THEN UNCHANGED <<owned, at, name>>
       ELSE at' = "write" /\ name' = n /\ UNCHANGED owned
    /\ UNCHANGED <<disk, manifest, wanted, before, orphans, changed, calm, said, spent>>

\* The check of the bundled copies is only made by `check`.
Counts(n) == seen # NONE \/ <<n, wanted[n]>> \notin Bundled

Written ==
    /\ manifest[name] = wanted[name] /\ Owns(name, wanted[name])
    /\ files' = [files EXCEPT ![name] = wanted[name]] /\ author' = [author EXCEPT ![name] = "pack"]
    /\ changed' = (changed \/ Counts(name)) /\ UNCHANGED <<calm, said, spent>>

\* Mutant: a file that failed is not the pack's any more.
NotWrittenForgets ==
    /\ IF manifest[name] = wanted[name] THEN Spend("fail") ELSE UNCHANGED spent
    /\ calm' = FALSE /\ said' = NONE /\ UNCHANGED <<owned, files, author, changed>>

\* Not to be had, or no more what the manifest said: the copy that was there
\* stays, and stays the pack's.
NotWritten ==
    /\ IF manifest[name] = wanted[name] THEN Spend("fail") ELSE UNCHANGED spent
    /\ IF before[name] # NONE /\ seen # NONE THEN Owns(name, before[name]) ELSE UNCHANGED owned
    /\ calm' = FALSE /\ said' = NONE /\ UNCHANGED <<files, author, changed>>

Write ==
    /\ at = "write" /\ at' = "look" /\ name' = NONE /\ (Written \/ NotWritten)
    /\ UNCHANGED <<ledger, manifest, wanted, before, todo, seen, raced, orphans>>

\* The files of the last ledger that are not wanted any more.
Dropping ==
    /\ at = "look" /\ todo = {} /\ at' = "drop" /\ todo' = Named(before) \ Named(wanted)
    /\ UNCHANGED <<disk, manifest, wanted, before, name, seen, owned, history, spent>>

Drop(n) ==
    /\ at = "drop" /\ n \in todo /\ todo' = todo \ {n} /\ raced' = raced \ {n}
    /\ IF files[n] = before[n] THEN at' = "unlink" /\ name' = n ELSE UNCHANGED <<at, name>>
    /\ UNCHANGED <<disk, manifest, wanted, before, seen, owned, orphans, changed, calm, said, spent>>

Unlink ==
    /\ at = "unlink" /\ at' = "drop" /\ name' = NONE
    /\ \/ /\ files[name] # NONE /\ files' = [files EXCEPT ![name] = NONE]
          /\ author' = [author EXCEPT ![name] = NONE] /\ changed' = TRUE
          /\ UNCHANGED <<owned, calm, said, spent>>
       \/ /\ IF files[name] = NONE THEN UNCHANGED spent ELSE Spend("fail")
          /\ Owns(name, before[name]) /\ calm' = FALSE /\ said' = NONE
          /\ UNCHANGED <<files, author, changed>>
    /\ UNCHANGED <<ledger, manifest, wanted, before, todo, seen, raced, orphans>>

\* Once everything else is done.
Record ==
    /\ at = "drop" /\ todo = {} /\ at' = "idle" /\ ledger' = owned /\ said' = NONE
    /\ orphans' = {n \in orphans : files[n] # NONE /\ owned[n] # files[n]}
    /\ UNCHANGED <<files, author, manifest, wanted, before, todo, name, seen, owned, raced, changed, calm, spent>>

\* The process ends: what sync knew is lost, and so is what it wrote to the
\* ledger.
Crash ==
    /\ at # "idle" /\ Spend("crash") /\ at' = "idle" /\ name' = NONE /\ calm' = FALSE /\ said' = NONE
    /\ orphans' = {n \in Name : author[n] = "pack" /\ files[n] # ledger[n]}
    /\ UNCHANGED <<disk, manifest, wanted, before, todo, seen, owned, raced, changed>>

(***************************************************************************)
(* check, read-only, between two syncs                                     *)
(***************************************************************************)
Missing(n) == files[n] = NONE /\ <<n, manifest[n]>> \notin Bundled
\* Mutant: the user's own file counts as outdated.
OutdatedAny(n) == files[n] # NONE /\ files[n] # manifest[n]

Outdated(n) == files[n] # NONE /\ files[n] # manifest[n] /\ ledger[n] = files[n]

Available ==
    \/ \E n \in Named(manifest) : Missing(n) \/ Outdated(n)
    \/ \E n \in Named(ledger) \ Named(manifest) : files[n] = ledger[n]

Check ==
    /\ at = "idle" /\ Spend("check") /\ said' = IF Available THEN "yes" ELSE "no"
    /\ UNCHANGED <<disk, manifest, run, raced, orphans, changed, calm>>

(***************************************************************************)
(* The user (save_converter, delete_converter) and the repository          *)
(***************************************************************************)
User(n) ==
    /\ Spend("user") /\ \E c \in Content \cup {NONE} :
         /\ c # files[n] /\ files' = [files EXCEPT ![n] = c]
         /\ author' = [author EXCEPT ![n] = IF c = NONE THEN NONE ELSE "user"]
    /\ raced' = raced \cup {n} /\ calm' = FALSE /\ said' = NONE /\ orphans' = orphans \ {n}
    /\ UNCHANGED <<ledger, manifest, run, changed>>

Offer ==
    /\ Spend("publish") /\ manifest' \in [Name -> Version \cup {NONE}] /\ manifest' # manifest
    /\ calm' = FALSE /\ said' = NONE
    /\ UNCHANGED <<disk, run, raced, orphans, changed>>

Sync == Begin \/ Write \/ Dropping \/ Unlink \/ Record \/ \E n \in Name : Look(n) \/ Drop(n)

Next == Sync \/ Crash \/ Check \/ Offer \/ \E n \in Name : User(n)

Spec == Init /\ [][Next]_vars

(***************************************************************************)
(* What the pack promises                                                  *)
(***************************************************************************)
\* "only ever writes or removes those files" (pack.py:13): a file that the
\* user has written is never replaced or removed, unless it is a copy the ledger
\* lists, or was written in the moment between being looked at and replaced.
Touches(n) == at \in {"write", "unlink"} /\ at' # at /\ files'[n] # files[n]
UsersOwn ==
    [][\A n \in Name : Touches(n) => author[n] # "user" \/ files[n] = ledger[n] \/ n \in raced]_vars

\* "Ownership is explicit" (pack.py:12): between two syncs a file the pack
\* wrote and nobody edited is in the ledger with its hash, whatever failed, so
\* that it will be updated or removed; a crash may leave one out.
NeverOrphaned ==
    at = "idle" => \A n \in Name : author[n] = "pack" => ledger[n] = files[n] \/ n \in orphans

\* After a sync in which nothing failed and nothing else changed, every file is
\* the manifest's, and those it no longer has are gone, but for the user's own
\* and those a crash had left out.
Applied ==
    at = "idle" /\ calm =>
        \A n \in Name : files[n] = manifest[n] \/ author[n] = "user" \/ n \in orphans

\* Between two syncs the pack's files are the ledger's, and after a good one
\* those of the manifest.
Kept == NeverOrphaned /\ Applied

\* The page's "update available" is what sync then does (pack.py:155), the
\* bundled files that it copies all the same apart.
CheckTells == [][Record /\ calm => (said = "no" => ~changed) /\ (said = "yes" => changed)]_vars
=============================================================================
