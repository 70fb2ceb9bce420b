----------------------------- MODULE MCModelSync -----------------------------
(* Small instances of ModelSync for TLC. *)
EXTENDS ModelSync

\* A complete version, then one whose network is stored apart
Plain == [kind |-> <<"good", "split">>, unhashed |-> {2}, events |-> {"rollback", "retry", "demote", "expire"},
          changes |-> 3, crashes |-> 0, overlap |-> FALSE]

\* Versions that lack something
Faulty == [Plain EXCEPT !.kind = <<"unlogged", "bare">>]
Headless == [Plain EXCEPT !.kind = <<"anonymous", "headless">>, !.changes = 2]

\* Crashes between any two file operations, of versions without a hash
Crashing == [Plain EXCEPT !.unhashed = Versions, !.events = {"retry", "unreachable"}, !.crashes = 1, !.changes = 2]

\* The listener at work beside the poll, on a version with and one without a hash
Duo == [Plain EXCEPT !.events = {"publish", "trigger"}, !.changes = 2]

\* Scans overtaken by the daemon, and a deletion
Busy == [Plain EXCEPT !.unhashed = {}, !.events = {"delete"}, !.changes = 2, !.overlap = TRUE]

SyncScenes == {Plain, Faulty, Headless, Crashing, Duo, Busy}

\* A network stored apart that cannot be had
Unreachable == [Plain EXCEPT !.events = {"unreachable"}, !.changes = 1]
UnreachableOnly == {Unreachable}
=============================================================================
