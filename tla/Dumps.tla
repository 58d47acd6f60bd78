--------------------------------- MODULE Dumps ---------------------------------
(***************************************************************************)
(* The dumps of a target's databases and crontabs (lib/core/db/): one      *)
(* dump of one kind into a directory of its own, which becomes part of a   *)
(* snapshot if it succeeds (backup.py), and its restore (restore.py).      *)
(* Databases change, appear and are dropped meanwhile.                     *)
(*                                                                         *)
(* Of a database, or of the crontab of a user, only the edition of its     *)
(* content is kept: 0 is none, 1 an empty one.  That a command is tried    *)
(* again with sudo is part of the command.                                 *)
(***************************************************************************)
EXTENDS Naturals

CONSTANTS
  Kinds,      \* which of "mysql", "postgresql" and "crontab" are dumped
  Names,      \* the databases, or the users with a crontab
  OddNames,   \* those whose name is refused
  SystemNames,\* SYSTEM_DBS: dumped when named, never restored
  Editions,   \* bound: how often a database changes
  Remote      \* whether the source is a host reached over SSH

ASSUME DumpsAssumption ==
  /\ Kinds \subseteq {"mysql", "postgresql", "crontab"}
  /\ OddNames \subseteq Names
  /\ SystemNames \subseteq Names
  /\ Editions \in Nat \ {0}
  /\ Remote \in BOOLEAN

VARIABLES
  server,   \* the databases of the source host and of the host gniza runs on
  dump,     \* the dump in progress
  shelf,    \* the dump directory of the snapshot, and what it was made from
  load      \* the restore in progress

dumpsVars == <<server, dump, shelf, load>>

Hosts == {"source", "gniza"}
SourceHost == IF Remote THEN "source" ELSE "gniza"

Contents == [Names -> 0..Editions]
Blank == [n \in Names |-> 0]

NoDump == [step |-> "idle", kind |-> "none", wanted |-> {}, todo |-> {}, failed |-> FALSE,
           files |-> Blank]
NoLoad == [step |-> "idle", todo |-> {}, ok |-> TRUE, back |-> Blank]
NoShelf == [kind |-> "none", wanted |-> {}, files |-> Blank]

DumpsInit ==
  /\ server = [h \in Hosts |-> [n \in Names |-> IF h = SourceHost THEN 1 ELSE 0]]
  /\ dump = NoDump
  /\ shelf = NoShelf
  /\ load = NoLoad

--------------------------------------------------------------------------------
(* dump_databases, dump_grants, dump_roles and dump_crontabs. *)

\* A temporary directory for the dump of a kind.
BeginDump(k) ==
  /\ dump.step = "idle"
  /\ shelf = NoShelf
  /\ dump' = [NoDump EXCEPT !.step = "list", !.kind = k]
  /\ UNCHANGED <<server, shelf, load>>

\* dump_databases or dump_crontabs returns False or raises, or dump_grants or dump_roles
\* raises (their commands have a timeout): the directory goes, with all that was dumped.
DropDump ==
  /\ dump.step \in {"list", "dump", "extras"}
  /\ dump' = NoDump
  /\ UNCHANGED <<server, shelf, load>>

\* _get_databases_to_dump: all there are but the excluded ones, or those named.  The
\* crontabs to dump are those of the users named.
ListDatabases(wanted) ==
  /\ dump.step = "list"
  /\ dump' = [dump EXCEPT !.step = "dump", !.wanted = wanted, !.todo = wanted]
  /\ UNCHANGED <<server, shelf, load>>

Done(n) == [dump EXCEPT !.todo = @ \ {n}]

\* mysqldump, pg_dump or crontab -l succeeds.  A dropped database cannot be dumped.
DumpOne(n) ==
  /\ dump.step = "dump"
  /\ n \in dump.todo \ OddNames
  /\ server[SourceHost][n] # 0
  /\ dump' = [Done(n) EXCEPT !.files[n] = server[SourceHost][n]]
  /\ UNCHANGED <<server, shelf, load>>

\* crontab -l exits with 1 for a user without a crontab, and so does sudo when it is
\* refused: both count as nothing to dump.
NoCrontab(n) ==
  /\ dump.step = "dump"
  /\ dump.kind = "crontab"
  /\ n \in dump.todo \ OddNames
  /\ dump' = Done(n)
  /\ UNCHANGED <<server, shelf, load>>

\* Mutant of DumpFails: a database that fails is left out.
DumpFailsQuietly(n) ==
  /\ dump.step = "dump"
  /\ n \in dump.todo
  /\ dump' = Done(n)
  /\ UNCHANGED <<server, shelf, load>>

\* The command fails, also by the timeout of a local one, or the name is refused: the
\* others are dumped all the same.
DumpFails(n) ==
  /\ dump.step = "dump"
  /\ n \in dump.todo
  /\ dump' = [Done(n) EXCEPT !.failed = TRUE]
  /\ UNCHANGED <<server, shelf, load>>

\* After the last one; what failed makes DropDump the only way on.  The grants, the
\* roles and the system crontabs come next; that they fail is only a warning.
DumpsDone ==
  /\ dump.step = "dump"
  /\ dump.todo = {}
  /\ ~dump.failed
  /\ dump' = [dump EXCEPT !.step = "extras"]
  /\ UNCHANGED <<server, shelf, load>>

\* The directory is kept and, with a transfer that succeeds, enters the snapshot.
KeepDump ==
  /\ dump.step = "extras"
  /\ shelf' = [kind |-> dump.kind, wanted |-> dump.wanted, files |-> dump.files]
  /\ dump' = NoDump
  /\ UNCHANGED <<server, load>>

--------------------------------------------------------------------------------
(* restore_databases and restore_crontabs. *)

Files == {n \in Names : shelf.files[n] # 0}

\* The files of system databases are passed over, without an error.
Importable == IF shelf.kind = "crontab" THEN Files ELSE Files \ SystemNames

\* The dumps have been fetched from the snapshot.
BeginLoad ==
  /\ load.step = "idle"
  /\ Files # {}
  /\ load' = [NoLoad EXCEPT !.step = "load", !.todo = Importable]
  /\ UNCHANGED <<server, dump, shelf>>

\* CREATE DATABASE, for MySQL on the source host (over SSH if need be), for PostgreSQL on
\* this one; that it exists already is fine.
Created(n) ==
  LET h == IF shelf.kind = "mysql" THEN SourceHost ELSE "gniza" IN
  IF server[h][n] = 0 THEN [server EXCEPT ![h][n] = 1] ELSE server

Loaded(n, ok) == [load EXCEPT !.todo = @ \ {n}, !.ok = @ /\ ok,
                              !.back[n] = IF ok THEN shelf.files[n] ELSE 0]

Imported(n) == [Created(n) EXCEPT !["gniza"][n] = shelf.files[n]]

\* One database: the import goes to the client of this host, which exits with 0; psql
\* does that also when statements of the dump failed.  Of crontabs nothing is installed,
\* the files are only copied for the user to look at.
LoadOne(n) ==
  /\ load.step = "load"
  /\ n \in load.todo
  /\ server' \in CASE shelf.kind = "crontab" -> {server}
                   [] shelf.kind = "postgresql" -> {Created(n), Imported(n)}
                   [] OTHER -> {Imported(n)}
  /\ load' = Loaded(n, TRUE)
  /\ UNCHANGED <<dump, shelf>>

\* Mutant of LoadFails: the error is only logged.
LoadFailsQuietly(n) ==
  /\ load.step = "load"
  /\ n \in load.todo
  /\ shelf.kind # "crontab"
  /\ server' \in {server, Created(n), Imported(n)}
  /\ load' = [load EXCEPT !.todo = @ \ {n}]
  /\ UNCHANGED <<dump, shelf>>

\* The name is refused, or the creation, for MySQL, or the import fails, which may have
\* got as far as the data: an error, and on with the next one.
LoadFails(n) ==
  /\ load.step = "load"
  /\ n \in load.todo
  /\ shelf.kind # "crontab"
  /\ server' \in {server, Created(n), Imported(n)}
  /\ load' = Loaded(n, FALSE)
  /\ UNCHANGED <<dump, shelf>>

LoadDone ==
  /\ load.step = "load"
  /\ load.todo = {}
  /\ load' = [load EXCEPT !.step = "done"]
  /\ UNCHANGED <<server, dump, shelf>>

\* The restore is over; or there is no client, or an import takes more than ten minutes
\* and TimeoutExpired ends the whole restore.
LoadEnds ==
  /\ load.step # "idle"
  /\ load' = NoLoad
  /\ UNCHANGED <<server, dump, shelf>>

--------------------------------------------------------------------------------

\* A client of the server writes to a database, creates it or drops it.
EditDatabase(n) ==
  /\ server' \in {[server EXCEPT ![SourceHost][n] = 0],
                  [server EXCEPT ![SourceHost][n] = IF @ < Editions THEN @ + 1 ELSE @]}
  /\ server' # server
  /\ UNCHANGED <<dump, shelf, load>>

\* The retention deletes the snapshot.
ForgetDump ==
  /\ shelf # NoShelf
  /\ load.step = "idle"
  /\ shelf' = NoShelf
  /\ UNCHANGED <<server, dump, load>>

DumpsNext ==
  \/ \E k \in Kinds : BeginDump(k)
  \/ DropDump
  \/ \E wanted \in SUBSET Names : ListDatabases(wanted)
  \/ DumpsDone
  \/ KeepDump
  \/ BeginLoad
  \/ LoadDone
  \/ LoadEnds
  \/ ForgetDump
  \/ \E n \in Names : DumpOne(n) \/ NoCrontab(n) \/ DumpFails(n)
                       \/ LoadOne(n) \/ LoadFails(n) \/ EditDatabase(n)

DumpsSpec == DumpsInit /\ [][DumpsNext]_dumpsVars

--------------------------------------------------------------------------------
(* Properties. *)

\* Type correctness of the servers, the dump and the restore.
DumpsTypeOK ==
  /\ server \in [Hosts -> Contents]
  /\ dump \in [step : {"idle", "list", "dump", "extras"}, kind : Kinds \union {"none"},
               wanted : SUBSET Names, todo : SUBSET Names, failed : BOOLEAN,
               files : Contents]
  /\ shelf \in [kind : Kinds \union {"none"}, wanted : SUBSET Names, files : Contents]
  /\ load \in [step : {"idle", "load", "done"}, todo : SUBSET Names, ok : BOOLEAN,
               back : Contents]

\* A restore of database dumps that reports success has given the client, which took it
\* without an error, every database the backup set out to dump but the system ones: one
\* that could not be dumped, or not be imported, is never missing silently, whatever
\* clients drop and create meanwhile.  The system databases are the known exception: a
\* target that names one has it dumped, and no restore brings it back.
RestoredIsDumped ==
  load.step = "done" /\ load.ok /\ shelf.kind # "crontab" =>
    \A n \in shelf.wanted \ SystemNames : load.back[n] # 0
================================================================================
