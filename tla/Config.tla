---- MODULE Config ----
(***************************************************************************)
(* How cmd/server finds its settings (cmd/server/config.go): a YAML file,  *)
(* the environment with a .env file, and the command line, read one after  *)
(* the other by loadConfig before anything else happens.  A value is known *)
(* here by where it was found, since all that matters of it is which one   *)
(* wins and whether it can be read as a value of its setting.              *)
(***************************************************************************)
EXTENDS Integers, Sequences

CONSTANTS
    Settings,      \* addr, idle-timeout, write-timeout
    Durations,     \* those of them that are durations
    DefaultPath,   \* novagate.yaml in the working directory
    OtherPath,     \* another path
    WorkDir,       \* the working directory itself
    CommandLines,  \* the command lines considered
    FileContents,  \* the YAML files considered
    Environments   \* the environments and .env files considered

Paths == {DefaultPath, OtherPath}
NoPath == "empty"

(* What a place that may hold a setting holds. *)
Found == {"missing", "bad", "good"}

(* An argument: the -config flag with a path, the flag of a setting, a     *)
(* flag that does not exist or lacks its value, or a word that is no flag, *)
(* after which nothing is parsed.                                          *)
Arguments ==
    [flag : {"config"}, path : Paths \union {NoPath}]
      \union [flag : Settings, value : {"bad", "good"}]
      \union [flag : {"unknown", "word"}]

(* A file that is not there, that is not YAML, or that can be read, with   *)
(* the current and the legacy key of each setting.                         *)
Files == [state : {"absent", "broken", "yaml"},
          keys : [Settings -> [primary : Found, legacy : Found]]]

ASSUME ConfigAssumption ==
    /\ Durations \subseteq Settings
    /\ DefaultPath # OtherPath /\ NoPath \notin Paths /\ WorkDir \notin Paths
    /\ Settings \intersect {"config", "unknown", "word"} = {}
    /\ CommandLines \subseteq Seq(Arguments)
    /\ FileContents \subseteq Files
    /\ Environments \subseteq [Settings -> Found]

VARIABLES
    stage,     \* the call of loadConfig that is next, "run" or "exit"
    args, files, env, dotenv,  \* what the process finds
    environ,   \* os.Environ(): what it has for each setting, and from where
    yaml,      \* resolveYAML's result: path, explicit, loaded
    fileVals, envVals,         \* where each setting was found there, or Nowhere
    cfg        \* the serverConfig: value and source of each setting, the path it names

inputs == <<args, files, env, dotenv>>
configVars == <<stage, args, files, env, dotenv, environ, yaml, fileVals, envVals, cfg>>

Nowhere == <<"nowhere">>
NoVals == [s \in Settings |-> Nowhere]

ConfigInit ==
    /\ stage = "resolve"
    /\ args \in CommandLines
    /\ files \in [Paths -> FileContents]
    /\ env \in Environments
    /\ dotenv \in Environments
    /\ environ = [s \in Settings |-> <<env[s], "process">>]
    /\ yaml = [path |-> NoPath, explicit |-> FALSE, loaded |-> FALSE]
    /\ fileVals = NoVals
    /\ envVals = NoVals
    /\ cfg = [value |-> NoVals, source |-> [s \in Settings |-> "default"],
              path |-> NoPath, loaded |-> FALSE]

----
LastOf(S) == CHOOSE i \in S : \A j \in S : j <= i

(* The arguments a flag set parses: up to the first word, and up to the    *)
(* first flag it does not know.                                            *)
ParsedBy(known) == {i \in DOMAIN args : \A j \in 1..i : args[j].flag \in known}

ConfigArgs(S) == {i \in S : args[i].flag = "config"}

(* The path a flag set ends up with, the last one given. *)
PathOf(S, default) == IF ConfigArgs(S) = {} THEN default ELSE args[LastOf(ConfigArgs(S))].path

(* resolveYAML takes an empty path for the default one.                    *)
OrDefault(p) == IF p = NoPath THEN DefaultPath ELSE p

(* filepath.Abs.  A path is known here by the file it names, so only the   *)
(* empty one changes: it becomes the working directory.                    *)
Abs(p) == IF p = NoPath THEN WorkDir ELSE p

(* Plausible bug: a named file that does not exist counts as no file. *)
ToleratesMissing(explicit) == TRUE

(* Missing default config is OK, a missing file that was named is not. *)
MayBeMissing(explicit) == ~explicit

(* Plausible bug: only the first argument is looked at. *)
FirstOnly == {i \in DOMAIN args : i = 1 /\ args[i].flag = "config"}

(* The arguments parseConfigPath sees: it uses a flag set that knows       *)
(* -config only, so it stops at the first flag of another kind.            *)
SeenByPreconfig == ParsedBy({"config"})

(* resolveYAML.                                                            *)
ResolveYAML ==
    /\ stage = "resolve"
    /\ LET seen == SeenByPreconfig
           path == Abs(OrDefault(PathOf(seen, DefaultPath)))
           explicit == ConfigArgs(seen) # {}
           fine == \/ files[path].state = "yaml"
                   \/ files[path].state = "absent" /\ MayBeMissing(explicit)
       IN  /\ stage' = IF fine THEN "dotenv" ELSE "exit"
           /\ yaml' = IF fine THEN [path |-> path, explicit |-> explicit,
                                    loaded |-> files[path].state = "yaml"] ELSE yaml
    /\ UNCHANGED <<inputs, environ, fileVals, envVals, cfg>>

(* Plausible bug: .env overrides the environment (godotenv.Overload). *)
Overload(s) == dotenv[s] # "missing"

FromDotenv(s) == environ[s][1] = "missing"

(* loadDotenv sets the variables of .env the process does not have.  A     *)
(* file that is absent or unreadable is logged at most: it is one without  *)
(* variables.                                                              *)
LoadDotenv ==
    /\ stage = "dotenv"
    /\ environ' = [s \in Settings |-> IF FromDotenv(s) THEN <<dotenv[s], "dotenv">>
                                                       ELSE environ[s]]
    /\ stage' = "file"
    /\ UNCHANGED <<inputs, yaml, fileVals, envVals, cfg>>

(* yamlStringCompat, yamlDurationCompat: the legacy key counts when the    *)
(* current one is missing.                                                 *)
CompatKey(s) ==
    IF files[yaml.path].keys[s].primary \in {"bad", "good"} THEN "primary" ELSE "legacy"

InFile(s) ==
    IF yaml.loaded THEN files[yaml.path].keys[s][CompatKey(s)] ELSE "missing"

(* Plausible bug: a value that cannot be parsed is passed over. *)
SkipsBad(read) == read # read

AnyBad(read) == \E s \in Settings : read[s] = "bad"

ReadFileValues ==
    /\ stage = "file"
    /\ IF AnyBad([s \in Settings |-> InFile(s)])
         THEN stage' = "exit" /\ fileVals' = fileVals
         ELSE /\ stage' = "env"
              /\ fileVals' = [s \in Settings |->
                    IF InFile(s) = "good" THEN <<"file", yaml.path, CompatKey(s)>> ELSE Nowhere]
    /\ UNCHANGED <<inputs, environ, yaml, envVals, cfg>>

ReadEnvValues ==
    /\ stage = "env"
    /\ IF AnyBad([s \in Settings |-> environ[s][1]])
         THEN stage' = "exit" /\ envVals' = envVals
         ELSE /\ stage' = "flags"
              /\ envVals' = [s \in Settings |->
                    IF environ[s][1] = "good" THEN <<"env", environ[s][2]>> ELSE Nowhere]
    /\ UNCHANGED <<inputs, environ, yaml, fileVals, cfg>>

----
(* Plausible bug: the file overrides the environment. *)
FileFirst(s) ==
    IF fileVals[s] # Nowhere THEN fileVals[s]
    ELSE IF envVals[s] # Nowhere THEN envVals[s] ELSE <<"default">>

computeDefaults(s) ==
    IF envVals[s] # Nowhere THEN envVals[s]
    ELSE IF fileVals[s] # Nowhere THEN fileVals[s] ELSE <<"default">>

(* Plausible bug: the source is looked for in the wrong order. *)
pickFileFirst(flagSet, envOK, fileOK) ==
    IF flagSet THEN "flag" ELSE IF fileOK THEN "file" ELSE IF envOK THEN "env" ELSE "default"

pickSource(flagSet, envOK, fileOK) ==
    IF flagSet THEN "flag" ELSE IF envOK THEN "env" ELSE IF fileOK THEN "file" ELSE "default"

(* The arguments of the final flag set, and those of one setting there. *)
Parsed == ParsedBy({"config"} \union Settings)
FlagsOf(s) == {i \in Parsed : args[i].flag = s}

(* The rest of loadConfig.  A flag that does not exist or cannot be read   *)
(* ends the process (flag.ExitOnError); a string flag always can.          *)
ParseFlags ==
    /\ stage = "flags"
    /\ IF \/ \E s \in Durations : \E i \in FlagsOf(s) : args[i].value = "bad"
          \/ \E i \in DOMAIN args : args[i].flag = "unknown" /\ 1..(i - 1) \subseteq Parsed
         THEN stage' = "exit" /\ cfg' = cfg
         ELSE /\ stage' = "run"
              /\ cfg' = [value |-> [s \in Settings |-> IF FlagsOf(s) # {}
                                                         THEN <<"flag", LastOf(FlagsOf(s))>>
                                                         ELSE computeDefaults(s)],
                         source |-> [s \in Settings |->
                            pickSource(FlagsOf(s) # {}, envVals[s] # Nowhere, fileVals[s] # Nowhere)],
                         path |-> Abs(PathOf(Parsed, yaml.path)),
                         loaded |-> yaml.loaded]
    /\ UNCHANGED <<inputs, environ, yaml, fileVals, envVals>>

ConfigNext == ResolveYAML \/ LoadDotenv \/ ReadFileValues \/ ReadEnvValues \/ ParseFlags

ConfigSpec == ConfigInit /\ [][ConfigNext]_configVars

----
(* The places a setting may come from, the strongest first, as README.md   *)
(* ranks them: a flag, the environment, .env, the file that was read with  *)
(* its current key before the legacy one, the default.                     *)
Offer(rank, has, value) == IF has THEN {[rank |-> rank, value |-> value]} ELSE {}

Offers(s) ==
    UNION {Offer(1, FlagsOf(s) # {}, <<"flag", LastOf(FlagsOf(s))>>),
           Offer(2, env[s] = "good", <<"env", "process">>),
           Offer(3, dotenv[s] = "good", <<"env", "dotenv">>),
           Offer(4, yaml.loaded /\ files[yaml.path].keys[s].primary = "good",
                    <<"file", yaml.path, "primary">>),
           Offer(5, yaml.loaded /\ files[yaml.path].keys[s].legacy = "good",
                    <<"file", yaml.path, "legacy">>),
           Offer(6, TRUE, <<"default">>)}

Strongest(s) == (CHOOSE o \in Offers(s) : \A p \in Offers(s) : o.rank <= p.rank).value

(* Three readers in a row, a legacy key, a .env that is merged into the    *)
(* environment and defaults computed before the flags are parsed give each *)
(* setting the value of the strongest place that has it; and the source    *)
(* the server logs for it, which pickSource decides anew, is that place's. *)
Precedence ==
    stage = "run" => \A s \in Settings :
        /\ cfg.value[s] = Strongest(s)
        /\ cfg.source[s] = cfg.value[s][1]
        /\ cfg.source[s] = "file" => cfg.loaded

(* The server does not start with a value it cannot read in the file it    *)
(* read or in the environment, though a flag may override it, nor without  *)
(* a file that was named ahead of the other flags.                         *)
FailFast ==
    stage = "run" =>
      /\ \A s \in Settings : env[s] # "bad" /\ InFile(s) # "bad"
      /\ yaml.explicit => yaml.loaded

(* Two flag sets parse one command line and stop at different places.      *)
(* Still the server reads the file that the last -config ahead of all      *)
(* other flags names, or the default file; and the path it reports is      *)
(* another one only when the last -config of all is empty, which it reads  *)
(* as the default file and reports as the working directory, or follows    *)
(* another flag, which it reports and does not read.                       *)
NamedFileRead ==
    stage = "run" =>
      LET ahead == {i \in DOMAIN args : \A j \in 1..i : args[j].flag = "config"}
          all == ConfigArgs(Parsed)
          Last(S) == {i \in S : \A j \in S : j <= i}
      IN  /\ ahead = {} => yaml.path = DefaultPath
          /\ \A i \in Last(ahead) :
               yaml.path = IF args[i].path = NoPath THEN DefaultPath ELSE args[i].path
          /\ cfg.path # yaml.path =>
               /\ all # {}
               /\ \A i \in Last(all) : \/ args[i].path = NoPath /\ cfg.path = WorkDir
                                       \/ i \notin ahead /\ args[i].path = cfg.path

====
