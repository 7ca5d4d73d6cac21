------------------------------ MODULE GitConfig ------------------------------
(***************************************************************************)
(* The subcommands of git-lfs-object-store that write .git/config          *)
(* (lfs/install.rs over git.rs): install, enable-debug and disable-debug,  *)
(* run by several processes on one repository.  A command reads the file,  *)
(* then takes config.lock, which it does not wait for, and renames the     *)
(* lock file over the configuration.                                       *)
(***************************************************************************)
EXTENDS Naturals, Sequences, SequencesExt

CONSTANTS Writers,     \* processes
          MaxCommands  \* bound: commands started

VARIABLE setup

NoWriter == [at |-> "idle", cmd |-> "none", seen |-> <<>>]

ConfigKeys == {"path", "standalone", "args"}

\* The lines of a key: those in earlier sections of its name and those in the
\* last one, which is the only one the commands look at.  "own" is the value
\* that the command for the key writes.
Lines(earlier, last) == [earlier |-> earlier, last |-> last]

ConfigFile(agent, args) == [path |-> agent, standalone |-> agent, args |-> args]

\* Without the agent, installed by hand, or by a version that added a line
\* every time (issue #198); with one section of a name or several.
Files ==
  LET Written == {Lines(earlier, last) : earlier \in {<<>>, <<"other">>},
                                         last \in {<<>>, <<"other">>, <<"own", "own">>}}
  IN {ConfigFile(agent, args) : agent, args \in Written}

\* The lock is the set of the processes that created config.lock: one, or
\* none; a process that is killed leaves it behind.
Repository(cfg) ==
  [file |-> cfg, lock |-> {}, by |-> [t \in Writers |-> NoWriter], commands |-> 0,
   installed |-> FALSE,  \* history: install has reported success
   lost |-> FALSE]       \* history: a command wrote back what it had read before another wrote

SetupInit == \E cfg \in Files : setup = Repository(cfg)

-----------------------------------------------------------------------------

\* Mutant: another line for every call, as before issue #198.
ConfigAddMany(cfg, names) ==
  [k \in ConfigKeys |-> IF k \in names THEN Lines(cfg[k].earlier, Append(cfg[k].last, "own")) ELSE cfg[k]]

\* Every line of the key in the last section of its name goes and one is
\* pushed.
config_set_many(cfg, names) ==
  [k \in ConfigKeys |-> IF k \in names THEN Lines(cfg[k].earlier, <<"own">>) ELSE cfg[k]]

\* The last line of the key in the last section goes, if there is one:
\* config_unset_if_present.
config_unset(cfg, name) ==
  [k \in ConfigKeys |-> IF k = name /\ cfg[k].last # <<>> THEN Lines(cfg[k].earlier, Front(cfg[k].last))
                        ELSE cfg[k]]

install(cfg)       == config_set_many(cfg, {"path", "standalone"})
enable_debug(cfg)  == config_set_many(cfg, {"args"})
disable_debug(cfg) == config_unset(cfg, "args")

Mutate(cmd, cfg) ==
  CASE cmd = "install"       -> install(cfg)
    [] cmd = "enable-debug"  -> enable_debug(cfg)
    [] cmd = "disable-debug" -> disable_debug(cfg)

-----------------------------------------------------------------------------
(* The steps of a command.                                                 *)

\* read_or_empty and the parser; the file is not locked yet.
ReadConfig(t) ==
  /\ setup.by[t].at = "idle" /\ setup.commands < MaxCommands
  /\ \E cmd \in {"install", "enable-debug", "disable-debug"} :
       setup' = [setup EXCEPT !.commands = @ + 1,
                              !.by[t] = [at |-> "read", cmd |-> cmd, seen |-> setup.file]]

\* Nothing to change: no write.
ConfigSame(t) ==
  LET w == setup.by[t] IN
  /\ w.at = "read" /\ Mutate(w.cmd, w.seen) = w.seen
  /\ setup' = [setup EXCEPT !.by[t] = NoWriter,
                            !.installed = @ \/ w.cmd = "install"]

\* gix_lock with Fail::Immediately: the command fails when the lock file
\* is there, whoever left it.
LockConfig(t) ==
  LET w == setup.by[t] IN
  /\ w.at = "read" /\ Mutate(w.cmd, w.seen) # w.seen
  /\ setup' = IF setup.lock = {} THEN [setup EXCEPT !.lock = {t}, !.by[t].at = "write"]
              ELSE [setup EXCEPT !.by[t] = NoWriter]

\* write_atomic: the rename, which also frees the lock.
Rename(t) ==
  LET w == setup.by[t] IN
  /\ w.at = "write"
  /\ setup' = [setup EXCEPT !.file = Mutate(w.cmd, w.seen), !.lock = {}, !.by[t] = NoWriter,
                            !.installed = @ \/ w.cmd = "install",
                            !.lost = @ \/ w.seen # setup.file]

\* An error of the file system, after which the lock file is removed; or
\* the process is killed, and it stays.
ConfigFails(t) ==
  /\ setup.by[t].at = "write"
  /\ \E left \in {{}, {t}} : setup' = [setup EXCEPT !.lock = left, !.by[t] = NoWriter]

ConfigStep(t) == ReadConfig(t) \/ ConfigSame(t) \/ LockConfig(t) \/ Rename(t)

\* git-lfs takes the last value of a key.
Values(k) == setup.file[k].earlier \o setup.file[k].last
AgentFound == \A k \in {"path", "standalone"} : Values(k) # <<>> /\ Last(Values(k)) = "own"

-----------------------------------------------------------------------------
(* Properties.                                                             *)

\* The two keys of install are written together or not at all: at no time,
\* crashes included, does git-lfs find half an agent (write_atomic).  Once
\* install has reported success the agent stays installed, with one value
\* per key in the last section of its name, whatever the other commands do;
\* unless a command that had read the file earlier wrote it back, which the
\* lock, taken after the read, does not prevent.
InstallKept ==
  /\ setup.file.path = setup.file.standalone
  /\ setup.installed /\ ~setup.lost =>
       setup.file.path.last = <<"own">> /\ setup.file.standalone.last = <<"own">>
==============================================================================
