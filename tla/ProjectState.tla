---------------------------- MODULE ProjectState ----------------------------
(***************************************************************************)
(* The files under .ats: one daemon at a time serves them, its runners    *)
(* outlive it, and `ats backup` and `ats restore` copy and replace them   *)
(* file by file.  The commands take no lock: they ask whether a daemon    *)
(* answers, and go on if none does.                                        *)
(*                                                                         *)
(* A fact is an artifact file together with the database row that names   *)
(* it.  Rows are committed to the write-ahead log of a database and reach *)
(* its main file by a checkpoint.                                          *)
(***************************************************************************)
EXTENDS Integers, FiniteSets, Sequences

CONSTANTS
    Daemons,   \* processes started by `ats start`
    Runners,   \* runner processes, each in a process group of its own
    None,      \* no daemon, no fact
    MaxFacts,  \* bound on the facts written
    Faults     \* what may go wrong with a command, once: "rename", "lstat", "crash"

StateAssumption ==
    /\ MaxFacts \in Nat
    /\ Faults \subseteq {"rename", "lstat", "crash"}
    /\ None \notin Daemons \cup Runners \cup Nat
    /\ Daemons \cap Runners = {}

VARIABLES
    dir,      \* which generation of each file is live, staged, set aside
    main,     \* facts in the main file of each generation of the database
    wal,      \* facts in its write-ahead log only
    art,      \* artifact files of each generation of the artifact directory
    phase,    \* daemons: off, starting, serving, closing, unpublished
    runner,   \* runners that work
    conn,     \* the generation of the database each process has open
    pending,  \* the fact whose artifact a process has written, not its row
    facts,    \* facts begun so far
    lock,     \* daemon.lock
    metadata, \* daemon.json: the daemon it names
    cmd,      \* the command: where it is, and what it has found out
    archive   \* the last complete backup

vars == <<dir, main, wal, art, phase, runner, conn, pending, facts, lock, metadata, cmd, archive>>

Processes == Daemons \cup Runners
Fact == 1..MaxFacts
Generations == {"old", "new"}

(* What a restore moves away, in its order, and what it installs, in its order. *)
Targets == <<"project.toml", "local.toml", "state.db", "state.db-wal", "artifacts">>
Replacements == <<"project.toml", "local.toml", "state.db", "artifacts">>
Paths == {Targets[i] : i \in 1..Len(Targets)}

Nothing == [p \in Paths |-> "none"]
Idle == [pc |-> "idle"]

TypeOK ==
    /\ dir \in [{"live", "staging", "rollback"} -> [Paths -> {"none", "old", "new", "stray"}]]
    /\ main \in [Generations -> SUBSET Fact]
    /\ wal \in [Generations -> SUBSET Fact]
    /\ \A g \in Generations : main[g] \cap wal[g] = {}
    /\ art \in [{"old", "new", "stray"} -> SUBSET Fact]
    /\ phase \in [Daemons -> {"off", "starting", "serving", "closing", "unpublished"}]
    /\ runner \subseteq Runners
    /\ conn \in [Processes -> Generations \cup {"none"}]
    /\ \A w \in Processes : conn[w] # "none" <=> w \in runner \/ (w \in Daemons /\ phase[w] # "off")
    /\ pending \in [Processes -> Fact \cup {None}]
    /\ facts \in 0..MaxFacts
    /\ lock \in Daemons \cup {None}
    /\ \A d \in Daemons : phase[d] # "off" <=> lock = d
    /\ metadata \in Daemons \cup {None}
    /\ cmd.pc \in {"idle", "backup", "verified", "flushed", "listed", "hashed",
                   "restore", "moving", "installing", "restored", "failed", "abandoned", "dead"}

-----------------------------------------------------------------------------
(* Databases. *)

(* project.Load and OpenExisting: the files are there. *)
Loadable ==
    \A p \in {"project.toml", "local.toml", "state.db"} : dir["live"][p] # "none"

Users(g) == {w \in Processes : conn[w] = g}

(* Mutant: the log is copied, not emptied. *)
Flush_Mutant(g) ==
    /\ main' = [main EXCEPT ![g] = @ \cup wal[g]]
    /\ UNCHANGED wal

Flush(g) ==
    /\ main' = [main EXCEPT ![g] = @ \cup wal[g]]
    /\ wal' = [wal EXCEPT ![g] = {}]

(* Closing the last connection checkpoints a database and removes its log. *)
Close(w) ==
    /\ conn' = [conn EXCEPT ![w] = "none"]
    /\ pending' = [pending EXCEPT ![w] = None]
    /\ IF Users(conn[w]) = {w}
         THEN /\ Flush(conn[w])
              /\ dir' = IF dir["live"]["state.db-wal"] = conn[w]
                          THEN [dir EXCEPT !["live"]["state.db-wal"] = "none"] ELSE dir
         ELSE UNCHANGED <<main, wal, dir>>

(* A process that dies leaves the log behind. *)
Vanish(w) ==
    /\ conn' = [conn EXCEPT ![w] = "none"]
    /\ pending' = [pending EXCEPT ![w] = None]
    /\ UNCHANGED <<main, wal, dir>>

OpenLive(w) ==
    /\ Loadable
    /\ conn' = [conn EXCEPT ![w] = dir["live"]["state.db"]]
    /\ dir' = [dir EXCEPT !["live"]["state.db-wal"] = dir["live"]["state.db"]]

(* A command opens the live database and closes it again. *)
Visit ==
    LET g == dir["live"]["state.db"] IN
    IF Users(g) = {}
      THEN Flush(g) /\ dir' = [dir EXCEPT !["live"]["state.db-wal"] = "none"]
      ELSE UNCHANGED <<main, wal, dir>>

(* SQLite checkpoints on its own account when the log is long. *)
AutoCheckpoint(w) ==
    /\ conn[w] # "none"
    /\ wal[conn[w]] # {}
    /\ Flush(conn[w])
    /\ UNCHANGED <<dir, art, phase, runner, conn, pending, facts, lock, metadata, cmd, archive>>

(* Mutant: a file that cannot be written is passed over. *)
PutFile_Mutant(n) == UNCHANGED <<dir, art>>

(* The directory is created if it is not there. *)
PutFile(n) ==
    LET g == dir["live"]["artifacts"] IN
    IF g = "none"
      THEN /\ dir' = [dir EXCEPT !["live"]["artifacts"] = "stray"]
           /\ art' = [art EXCEPT !["stray"] = {n}]
      ELSE /\ art' = [art EXCEPT ![g] = @ \cup {n}]
           /\ UNCHANGED dir

PutRow(w, n) == wal' = [wal EXCEPT ![conn[w]] = @ \cup {n}]

(* An artifact is written before the row that names it. *)
WriteFile(w) ==
    /\ conn[w] # "none"
    /\ pending[w] = None
    /\ facts < MaxFacts
    /\ facts' = facts + 1
    /\ PutFile(facts + 1)
    /\ pending' = [pending EXCEPT ![w] = facts + 1]
    /\ UNCHANGED <<main, wal, phase, runner, conn, lock, metadata, cmd, archive>>

CommitRow(w) ==
    /\ pending[w] # None
    /\ PutRow(w, pending[w])
    /\ pending' = [pending EXCEPT ![w] = None]
    /\ UNCHANGED <<dir, main, art, phase, runner, conn, facts, lock, metadata, cmd, archive>>

-----------------------------------------------------------------------------
(* Daemons and runners. *)

(* Recovery and the scheduler write from here on, long before the API answers. *)
Start(d) ==
    /\ phase[d] = "off"
    /\ lock = None
    /\ OpenLive(d)
    /\ lock' = d
    /\ phase' = [phase EXCEPT ![d] = "starting"]
    /\ UNCHANGED <<main, wal, art, runner, pending, facts, metadata, cmd, archive>>

Serve(d) ==
    /\ phase[d] = "starting"
    /\ metadata' = d
    /\ phase' = [phase EXCEPT ![d] = "serving"]
    /\ UNCHANGED <<dir, main, wal, art, runner, conn, pending, facts, lock, cmd, archive>>

(* Mutant: the lock is given up as soon as the daemon is told to stop. *)
Shutdown_Mutant(d) ==
    /\ phase[d] = "serving"
    /\ phase' = [phase EXCEPT ![d] = "closing"]
    /\ lock' = None
    /\ UNCHANGED <<dir, main, wal, art, runner, conn, pending, facts, metadata, cmd, archive>>

(* `ats stop` or the terminal: the listener is closed, requests still finish. *)
Shutdown(d) ==
    /\ phase[d] = "serving"
    /\ phase' = [phase EXCEPT ![d] = "closing"]
    /\ UNCHANGED <<dir, main, wal, art, runner, conn, pending, facts, lock, metadata, cmd, archive>>

(* Every daemon's nonce is "foreground": what is there is taken for its own. *)
Unpublish(d) ==
    /\ phase[d] = "closing"
    /\ metadata' = None
    /\ phase' = [phase EXCEPT ![d] = "unpublished"]
    /\ UNCHANGED <<dir, main, wal, art, runner, conn, pending, facts, lock, cmd, archive>>

(* The database is closed and the lock released last. *)
Exit(d) ==
    /\ phase[d] = "unpublished"
    /\ Close(d)
    /\ lock' = None
    /\ phase' = [phase EXCEPT ![d] = "off"]
    /\ UNCHANGED <<art, runner, facts, metadata, cmd, archive>>

(* A start that fails, or a daemon that dies: the kernel releases its lock. *)
Die(d) ==
    /\ phase[d] # "off"
    /\ Vanish(d)
    /\ lock' = None
    /\ phase' = [phase EXCEPT ![d] = "off"]
    /\ UNCHANGED <<art, runner, facts, metadata, cmd, archive>>

SpawnRunner(r) ==
    /\ \E d \in Daemons : phase[d] \in {"starting", "serving"}
    /\ r \notin runner
    /\ OpenLive(r)
    /\ runner' = runner \cup {r}
    /\ UNCHANGED <<main, wal, art, phase, pending, facts, lock, metadata, cmd, archive>>

RunnerExits(r) ==
    /\ r \in runner
    /\ Close(r)
    /\ runner' = runner \ {r}
    /\ UNCHANGED <<art, phase, facts, lock, metadata, cmd, archive>>

(* daemon.Status: the daemon that daemon.json names answers. *)
Running == metadata # None /\ phase[metadata] = "serving"

-----------------------------------------------------------------------------
(* ats backup *)

Others == <<art, phase, runner, conn, pending, facts, lock, metadata>>
Command == <<dir, main, wal, Others>>

BeginBackup ==
    /\ cmd = Idle
    /\ Loadable
    /\ ~Running
    /\ Visit
    /\ cmd' = [pc |-> "backup"]
    /\ UNCHANGED <<Others, archive>>

Rows(g) == main[g] \cup wal[g]

(* Every row's artifact is there. *)
Whole(g) == dir["live"]["artifacts"] # "none" /\ Rows(g) \subseteq art[dir["live"]["artifacts"]]

CheckIntegrity ==
    /\ cmd.pc = "backup"
    /\ Visit
    /\ cmd' = IF Whole(dir["live"]["state.db"]) THEN [pc |-> "verified"] ELSE Idle
    /\ UNCHANGED <<Others, archive>>

(* A checkpoint that another connection keeps from completing is no error. *)
CheckpointDatabase ==
    /\ cmd.pc = "verified"
    /\ \/ Visit
       \/ Users(dir["live"]["state.db"]) # {} /\ Flush(dir["live"]["state.db"]) /\ UNCHANGED dir
    /\ cmd' = [pc |-> "flushed"]
    /\ UNCHANGED <<Others, archive>>

CollectBackupFiles ==
    /\ cmd.pc = "flushed"
    /\ cmd' = [pc |-> "listed", files |-> art[dir["live"]["artifacts"]]]
    /\ UNCHANGED <<Command, archive>>

HashFiles ==
    /\ cmd.pc = "listed"
    /\ cmd' = [pc |-> "hashed", files |-> cmd.files, hash |-> main[dir["live"]["state.db"]]]
    /\ UNCHANGED <<Command, archive>>

WriteArchive ==
    /\ cmd.pc = "hashed"
    /\ archive' = [files |-> cmd.files, hash |-> cmd.hash, copy |-> main[dir["live"]["state.db"]]]
    /\ cmd' = Idle
    /\ UNCHANGED Command

-----------------------------------------------------------------------------
(* ats restore *)

BeginRestore ==
    /\ cmd = Idle
    /\ Loadable
    /\ archive # None
    /\ ~Running
    /\ Visit
    /\ cmd' = [pc |-> "restore"]
    /\ UNCHANGED <<Others, archive>>

(* Mutant: the manifest is not compared with the files. *)
Intact_Mutant(a) == a.files # None

Intact(a) == a.copy = a.hash

Stage ==
    /\ cmd.pc = "restore"
    /\ IF Intact(archive)
         THEN /\ main' = [main EXCEPT !["new"] = archive.copy]
              /\ art' = [art EXCEPT !["new"] = archive.files]
              /\ dir' = [dir EXCEPT !["staging"] = [p \in Paths |->
                            IF p = "state.db-wal" THEN "none" ELSE "new"]]
              /\ cmd' = [pc |-> "moving", next |-> 1, hash |-> archive.hash]
         ELSE /\ cmd' = [pc |-> "failed"]
              /\ UNCHANGED <<main, art, dir>>
    /\ UNCHANGED <<wal, phase, runner, conn, pending, facts, lock, metadata, archive>>

(* Mutant: the write-ahead log stays where it is. *)
Aside_Mutant(p) == IF p = "state.db-wal" THEN "none" ELSE dir["live"][p]

(* What is to be moved away from a path. *)
Aside(p) == dir["live"][p]

MoveAside ==
    /\ cmd.pc = "moving"
    /\ LET p == Targets[cmd.next] IN
       dir' = IF Aside(p) = "none" THEN dir
              ELSE [dir EXCEPT !["rollback"][p] = dir["live"][p], !["live"][p] = "none"]
    /\ cmd' = IF cmd.next = Len(Targets)
                THEN [pc |-> "installing", next |-> 1, hash |-> cmd.hash]
                ELSE [cmd EXCEPT !.next = @ + 1]
    /\ UNCHANGED <<main, wal, art, phase, runner, conn, pending, facts, lock, metadata, archive>>

(* A directory does not replace one that has files; a file replaces a file. *)
Blocked(p) == p = "artifacts" /\ dir["live"][p] # "none"

Install ==
    /\ cmd.pc = "installing"
    /\ LET p == Replacements[cmd.next] IN
       /\ ~Blocked(p)
       /\ dir' = [dir EXCEPT !["live"][p] = dir["staging"][p], !["staging"][p] = "none"]
    /\ cmd' = IF cmd.next = Len(Replacements) THEN [pc |-> "restored", hash |-> cmd.hash]
              ELSE [cmd EXCEPT !.next = @ + 1]
    /\ UNCHANGED <<main, wal, art, phase, runner, conn, pending, facts, lock, metadata, archive>>

(* Mutant: nothing is moved back. *)
RolledBack_Mutant(p) == dir["live"][p]

(* What is live at a path after rollbackState, whose errors are ignored. *)
RolledBack(p) == IF dir["rollback"][p] # "none" /\ ~Blocked(p) THEN dir["rollback"][p]
                 ELSE IF dir["live"][p] = "new" /\ p # "state.db-wal" THEN "none" ELSE dir["live"][p]

(* A rename fails, by itself or because an artifact was written meanwhile; what was *)
(* set aside is moved back, and the directory it was in is removed.                  *)
RenameFails ==
    /\ \/ cmd.pc \in {"moving", "installing"} /\ "rename" \in Faults
       \/ cmd.pc = "installing" /\ Blocked(Replacements[cmd.next])
    /\ dir' = [dir EXCEPT !["live"] = [p \in Paths |-> RolledBack(p)],
                          !["staging"] = Nothing, !["rollback"] = Nothing]
    /\ cmd' = [pc |-> "failed"]
    /\ UNCHANGED <<main, wal, art, phase, runner, conn, pending, facts, lock, metadata, archive>>

(* An error of Lstat returns at once; the directory is removed all the same. *)
LstatFails ==
    /\ cmd.pc = "moving" /\ "lstat" \in Faults
    /\ dir' = [dir EXCEPT !["staging"] = Nothing, !["rollback"] = Nothing]
    /\ cmd' = [pc |-> "abandoned"]
    /\ UNCHANGED <<main, wal, art, phase, runner, conn, pending, facts, lock, metadata, archive>>

(* The command is killed, or the machine stops: its directories stay. *)
CommandDies ==
    /\ "crash" \in Faults
    /\ cmd.pc \in {"moving", "installing"}
    /\ cmd' = [pc |-> "dead"]
    /\ UNCHANGED <<Command, archive>>

-----------------------------------------------------------------------------
Init ==
    /\ dir = [live |-> [p \in Paths |-> IF p = "state.db-wal" THEN "none" ELSE "old"],
              staging |-> Nothing, rollback |-> Nothing]
    /\ main = [g \in Generations |-> {}]
    /\ wal = [g \in Generations |-> {}]
    /\ art = [g \in {"old", "new", "stray"} |-> {}]
    /\ phase = [d \in Daemons |-> "off"]
    /\ runner = {}
    /\ conn = [w \in Processes |-> "none"]
    /\ pending = [w \in Processes |-> None]
    /\ facts = 0
    /\ lock = None
    /\ metadata = None
    /\ cmd = Idle
    /\ archive = None

Next ==
    \/ \E w \in Processes : AutoCheckpoint(w) \/ WriteFile(w) \/ CommitRow(w)
    \/ \E d \in Daemons : Start(d) \/ Serve(d) \/ Shutdown(d) \/ Unpublish(d) \/ Exit(d) \/ Die(d)
    \/ \E r \in Runners : SpawnRunner(r) \/ RunnerExits(r)
    \/ BeginBackup \/ CheckIntegrity \/ CheckpointDatabase \/ CollectBackupFiles
    \/ HashFiles \/ WriteArchive
    \/ BeginRestore \/ Stage \/ MoveAside \/ Install
    \/ RenameFails \/ LstatFails \/ CommandDies

Spec == Init /\ [][Next]_vars

-----------------------------------------------------------------------------
(* A daemon that serves is the one daemon.json names, however daemons follow each *)
(* other: it is what keeps the commands away from its database.                     *)
ServingIsVisible ==
    \A d \in Daemons : phase[d] = "serving" => metadata = d

(* Every row of the live database has its artifact, whoever dies between the two   *)
(* writes, as long as no restore has touched them.                                  *)
RowsHaveArtifacts ==
    dir["live"]["state.db"] = "old" /\ dir["live"]["artifacts"] = "old" => Rows("old") \subseteq art["old"]

(* A restore stages, to the last row, the database that the backup hashed: a copy  *)
(* that a checkpoint changed after the hash is never installed.                     *)
StagedIsHashed ==
    cmd.pc \in {"moving", "installing"} /\ dir["staging"]["state.db"] = "new"
        => main["new"] = cmd.hash

(* After a restore nothing of the former state is live, its log least of all.        *)
RestoredIsWhole ==
    cmd.pc = "restored" => \A p \in Paths : dir["live"][p] \in {"new", "none"}

(* A restore that fails at any of its renames leaves live what was live before it, *)
(* unless somebody has written an artifact meanwhile.  The write-ahead log is left   *)
(* out, since there need not have been one: it comes with the first connection and   *)
(* goes with the last.                                                               *)
FailedRestoreKeepsState ==
    cmd.pc = "failed" /\ art["stray"] = {} =>
        \A p \in Paths \ {"state.db-wal"} : dir["live"][p] = "old"

(* The files of a project fit together, live, staged and restored.                 *)
StateInvariant ==
    /\ TypeOK
    /\ ServingIsVisible /\ RowsHaveArtifacts
    /\ StagedIsHashed /\ RestoredIsWhole /\ FailedRestoreKeepsState
=============================================================================
