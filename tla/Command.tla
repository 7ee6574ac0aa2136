------------------------------ MODULE Command ------------------------------
(***************************************************************************)
(* The voyager command (cmd/voyager/cmd/cmd.go): newCommand applies the   *)
(* options and finds the home directory; Execute runs the root command,   *)
(* whose PersistentPreRunE is initConfig.  initConfig reads the config    *)
(* file an option named, or else searches the home directory for a       *)
(* ".voyager" file; a search that finds nothing is no error.             *)
(*                                                                         *)
(* A command is the record of its fields homeDir, cfgFile and config; an *)
(* option may set homeDir and cfgFile ("" is unset).  viper, cobra and os *)
(* are not in the repository.  The file system is a function from paths   *)
(* <<directory, name>> to "ok" or "bad" (present but unparsable).  viper's *)
(* ReadInConfig reads the named file, where a missing one is an os error, *)
(* or the first present ".voyager" file in its extension order, where    *)
(* none is ConfigFileNotFoundError.  The start command's flags and run   *)
(* (initStartCmd) are in files not in the repository and taken to        *)
(* succeed.  Environment variables and the password reader only feed the *)
(* start command.                                                         *)
(***************************************************************************)
EXTENDS Naturals, Sequences

CONSTANTS
    UserHome,     \* what os.UserHomeDir returns when it succeeds
    ConfigExts    \* viper.SupportedExts, in its search order

\* viper's ReadInConfig: "ok" with the path read, "notFound"
\* (ConfigFileNotFoundError), or another error
ViperReadInConfig(named, home, fs) ==
    IF named # ""
    THEN IF named \in DOMAIN fs THEN [res |-> fs[named], path |-> named]
         ELSE [res |-> "osError", path |-> named]
    ELSE LET found == {k \in 1 .. Len(ConfigExts) : <<home, ConfigExts[k]>> \in DOMAIN fs}
         IN  IF found = {} THEN [res |-> "notFound", path |-> ""]
             ELSE LET p == <<home, ConfigExts[CHOOSE k \in found : \A j \in found : k <= j]>>
                  IN  [res |-> fs[p], path |-> p]

\* setHomeDir: an option's home directory is kept, else os.UserHomeDir
setHomeDir(c, userHomeOk) ==
    IF c.homeDir # "" THEN [err |-> "nil", c |-> c]
    ELSE IF ~userHomeOk THEN [err |-> "home", c |-> c]
    ELSE [err |-> "nil", c |-> [c EXCEPT !.homeDir = UserHome]]

\* newCommand: the options, then setHomeDir (initStartCmd taken to succeed)
newCommand(optHome, optCfg, userHomeOk) ==
    setHomeDir([homeDir |-> optHome, cfgFile |-> optCfg, config |-> "none"], userHomeOk)

\* mutant: every ReadInConfig error is fatal, a missing file included
initConfigNotFoundFatal(c, fs) ==
    LET r  == ViperReadInConfig(c.cfgFile, c.homeDir, fs)
        c1 == IF c.homeDir # "" /\ c.cfgFile = ""
              THEN [c EXCEPT !.cfgFile = <<c.homeDir, "yaml">>] ELSE c
    IN  IF r.res # "ok" THEN [err |-> r.res, c |-> c1]
        ELSE [err |-> "nil", c |-> [c1 EXCEPT !.config = r.path]]

(***************************************************************************)
(* initConfig: the search is set up from cfgFile before the default path *)
(* is written into cfgFile; a file that is not found is no error, any    *)
(* other error is returned, and the config is the file read, if any.     *)
(***************************************************************************)
initConfig(c, fs) ==
    LET r  == ViperReadInConfig(c.cfgFile, c.homeDir, fs)
        c1 == IF c.homeDir # "" /\ c.cfgFile = ""
              THEN [c EXCEPT !.cfgFile = <<c.homeDir, "yaml">>] ELSE c
    IN  IF r.res \notin {"ok", "notFound"} THEN [err |-> r.res, c |-> c1]
        ELSE [err |-> "nil", c |-> [c1 EXCEPT !.config = IF r.res = "ok" THEN r.path ELSE "none"]]

\* Execute: newCommand, then the root command's PersistentPreRunE
Execute(optHome, optCfg, userHomeOk, fs) ==
    LET n == newCommand(optHome, optCfg, userHomeOk)
    IN  IF n.err # "nil" THEN n ELSE initConfig(n.c, fs)

=============================================================================
