---- MODULE GatewayProofs ----
(***************************************************************************)
(* Proofs about the parts of the gateway process outside a connection: its *)
(* configuration, its method table and its server.  The three have no      *)
(* variable in common and each is proved about by itself.                  *)
(***************************************************************************)
EXTENDS Config, Mapper, Server, FiniteSetTheorems, TLAPS

----
(* The configuration, for all settings, command lines, files and           *)
(* environments.                                                           *)

(* What each reader of loadConfig leaves behind, once it is done.          *)
MergedEnviron ==
    [s \in Settings |-> IF env[s] = "missing" THEN <<dotenv[s], "dotenv">>
                                              ELSE <<env[s], "process">>]

FileFound(s) == IF InFile(s) = "good" THEN <<"file", yaml.path, CompatKey(s)>> ELSE Nowhere
EnvFound(s) == IF environ[s][1] = "good" THEN <<"env", environ[s][2]>> ELSE Nowhere
Value(s) == IF FlagsOf(s) # {} THEN <<"flag", LastOf(FlagsOf(s))>> ELSE computeDefaults(s)
Source(s) == pickSource(FlagsOf(s) # {}, envVals[s] # Nowhere, fileVals[s] # Nowhere)

YamlPath == Abs(OrDefault(PathOf(SeenByPreconfig, DefaultPath)))

CInv ==
    /\ args \in CommandLines
    /\ env \in [Settings -> Found]
    /\ dotenv \in [Settings -> Found]
    /\ yaml.explicit => yaml.loaded
    /\ stage \in {"dotenv", "file", "env", "flags", "run"} => yaml.path = YamlPath
    /\ stage \in {"resolve", "dotenv"} => environ = [s \in Settings |-> <<env[s], "process">>]
    /\ stage \in {"file", "env", "flags", "run"} => environ = MergedEnviron
    /\ stage \in {"env", "flags", "run"} =>
         /\ \A s \in Settings : InFile(s) # "bad"
         /\ fileVals = [s \in Settings |-> FileFound(s)]
    /\ stage \in {"flags", "run"} =>
         /\ \A s \in Settings : environ[s][1] # "bad"
         /\ envVals = [s \in Settings |-> EnvFound(s)]
    /\ stage = "run" =>
         /\ cfg.value = [s \in Settings |-> Value(s)]
         /\ cfg.source = [s \in Settings |-> Source(s)]
         /\ cfg.path = Abs(PathOf(Parsed, yaml.path))
         /\ cfg.loaded = yaml.loaded

LEMMA InitCInv == ConfigInit => CInv
  <1> SUFFICES ASSUME ConfigInit PROVE CInv
    OBVIOUS
  <1>1. args \in CommandLines /\ env \in [Settings -> Found] /\ dotenv \in [Settings -> Found]
    BY ConfigAssumption DEF ConfigInit
  <1>2. stage = "resolve" /\ ~yaml.explicit /\ environ = [s \in Settings |-> <<env[s], "process">>]
    BY DEF ConfigInit
  <1> QED BY <1>1, <1>2 DEF CInv

LEMMA NextCInv == CInv /\ [ConfigNext]_configVars => CInv'
  <1> SUFFICES ASSUME CInv, [ConfigNext]_configVars PROVE CInv'
    OBVIOUS
  <1>1. CASE ResolveYAML
    <2>1. /\ stage = "resolve" /\ stage' \in {"dotenv", "exit"}
          /\ env' = env /\ dotenv' = dotenv /\ environ' = environ /\ args' = args
      BY <1>1 DEF ResolveYAML, inputs
    <2>2. yaml'.explicit => yaml'.loaded
      <3> DEFINE path == Abs(OrDefault(PathOf(SeenByPreconfig, DefaultPath)))
                 explicit == ConfigArgs(SeenByPreconfig) # {}
      <3>1. \/ yaml' = yaml
            \/ /\ files[path].state = "yaml" \/ ~explicit
               /\ yaml' = [path |-> path, explicit |-> explicit, loaded |-> files[path].state = "yaml"]
        BY <1>1 DEF ResolveYAML, MayBeMissing
      <3> HIDE DEF path, explicit
      <3>2. CASE yaml' = yaml
        BY <3>2 DEF CInv
      <3>3. CASE /\ files[path].state = "yaml" \/ ~explicit
                 /\ yaml' = [path |-> path, explicit |-> explicit, loaded |-> files[path].state = "yaml"]
        BY <3>3
      <3> QED BY <3>1, <3>2, <3>3
    <2>3. stage' = "dotenv" => yaml'.path = YamlPath
      BY <1>1 DEF ResolveYAML, YamlPath
    <2>4. YamlPath' = YamlPath
      BY <2>1 DEF YamlPath, SeenByPreconfig, ParsedBy, PathOf, ConfigArgs
    <2> QED BY <2>1, <2>2, <2>3, <2>4 DEF CInv
  <1>2. CASE LoadDotenv
    <2>1. /\ stage = "dotenv" /\ stage' = "file"
          /\ env' = env /\ dotenv' = dotenv /\ yaml' = yaml /\ args' = args
          /\ environ = [s \in Settings |-> <<env[s], "process">>]
          /\ environ' = [s \in Settings |-> IF environ[s][1] = "missing" THEN <<dotenv[s], "dotenv">>
                                                                        ELSE environ[s]]
      BY <1>2 DEF LoadDotenv, inputs, CInv, FromDotenv
    <2>2. environ' = MergedEnviron
      BY <2>1 DEF MergedEnviron
    <2>3. MergedEnviron' = MergedEnviron /\ YamlPath' = YamlPath
      BY <2>1 DEF MergedEnviron, YamlPath, SeenByPreconfig, ParsedBy, PathOf, ConfigArgs
    <2> QED BY <2>1, <2>2, <2>3 DEF CInv
  <1>3. CASE ReadFileValues
    <2>1. /\ stage = "file" /\ stage' \in {"env", "exit"}
          /\ env' = env /\ dotenv' = dotenv /\ yaml' = yaml /\ environ' = environ /\ files' = files
          /\ args' = args
          /\ stage' = "env" =>
               /\ \A s \in Settings : InFile(s) # "bad"
               /\ fileVals' = [s \in Settings |-> FileFound(s)]
      BY <1>3 DEF ReadFileValues, inputs, AnyBad, FileFound
    <2>2. /\ MergedEnviron' = MergedEnviron /\ YamlPath' = YamlPath
          /\ \A s : InFile(s)' = InFile(s) /\ FileFound(s)' = FileFound(s)
      BY <2>1 DEF MergedEnviron, InFile, CompatKey, FileFound,
                  YamlPath, SeenByPreconfig, ParsedBy, PathOf, ConfigArgs
    <2> QED BY <2>1, <2>2 DEF CInv
  <1>4. CASE ReadEnvValues
    <2>1. /\ stage = "env" /\ stage' \in {"flags", "exit"}
          /\ env' = env /\ dotenv' = dotenv /\ yaml' = yaml /\ environ' = environ /\ files' = files
          /\ args' = args
          /\ fileVals' = fileVals
          /\ stage' = "flags" =>
               /\ \A s \in Settings : environ[s][1] # "bad"
               /\ envVals' = [s \in Settings |-> EnvFound(s)]
      BY <1>4 DEF ReadEnvValues, inputs, AnyBad, EnvFound
    <2>2. /\ MergedEnviron' = MergedEnviron /\ YamlPath' = YamlPath
          /\ \A s : /\ InFile(s)' = InFile(s) /\ FileFound(s)' = FileFound(s)
                    /\ EnvFound(s)' = EnvFound(s)
      BY <2>1 DEF MergedEnviron, InFile, CompatKey, FileFound, EnvFound,
                  YamlPath, SeenByPreconfig, ParsedBy, PathOf, ConfigArgs
    <2> QED BY <2>1, <2>2 DEF CInv
  <1>5. CASE ParseFlags
    <2>1. /\ stage = "flags" /\ stage' \in {"run", "exit"}
          /\ UNCHANGED <<args, env, dotenv, yaml, environ, files, fileVals, envVals>>
          /\ stage' = "run" =>
               /\ cfg'.value = [s \in Settings |-> Value(s)]
               /\ cfg'.source = [s \in Settings |-> Source(s)]
               /\ cfg'.path = Abs(PathOf(Parsed, yaml.path))
               /\ cfg'.loaded = yaml.loaded
      BY <1>5 DEF ParseFlags, inputs, Value, Source
    <2>2. /\ MergedEnviron' = MergedEnviron /\ YamlPath' = YamlPath
          /\ \A s : /\ InFile(s)' = InFile(s) /\ FileFound(s)' = FileFound(s)
                    /\ EnvFound(s)' = EnvFound(s)
                    /\ Value(s)' = Value(s) /\ Source(s)' = Source(s)
      BY <2>1 DEF MergedEnviron, InFile, CompatKey, FileFound, EnvFound, Value, Source,
                  FlagsOf, Parsed, ParsedBy, computeDefaults,
                  YamlPath, SeenByPreconfig, PathOf, ConfigArgs
    <2>3. PathOf(Parsed, yaml.path)' = PathOf(Parsed, yaml.path)
      BY <2>1 DEF PathOf, ConfigArgs, Parsed, ParsedBy
    <2> QED BY <2>1, <2>2, <2>3 DEF CInv
  <1>6. CASE UNCHANGED configVars
    BY <1>6 DEF configVars, CInv, MergedEnviron, InFile, CompatKey, FileFound, EnvFound, Value,
                Source, FlagsOf, Parsed, ParsedBy, computeDefaults,
                YamlPath, SeenByPreconfig, PathOf, ConfigArgs
  <1> QED BY <1>1, <1>2, <1>3, <1>4, <1>5, <1>6 DEF ConfigNext

LEMMA SpecCInv == ConfigSpec => []CInv
  BY InitCInv, NextCInv, PTL DEF ConfigSpec

(* The server does not start with a value it cannot read, nor without a    *)
(* file named ahead of the other flags.                                    *)
THEOREM FailsFast == ConfigSpec => []FailFast
  <1>1. CInv => FailFast
    BY DEF CInv, FailFast, MergedEnviron
  <1> QED BY <1>1, SpecCInv, PTL

(* The file that is read is the one the last -config ahead of all other    *)
(* flags names, and the one that is reported differs only for an empty     *)
(* -config and for one behind another flag.                                *)
THEOREM NamedFileIsRead == ConfigSpec => []NamedFileRead
  <1> DEFINE ahead == {i \in DOMAIN args : \A j \in 1..i : args[j].flag = "config"}
             all == ConfigArgs(Parsed)
  <1>1. ASSUME CInv, stage = "run" PROVE NamedFileRead
    <2>1. /\ cfg.path = Abs(PathOf(Parsed, yaml.path)) /\ yaml.path = YamlPath
          /\ args \in Seq(Arguments)
      BY <1>1, ConfigAssumption DEF CInv
    <2>2. /\ DOMAIN args \subseteq Int
          /\ all \subseteq Int /\ ahead \subseteq ConfigArgs(Parsed)
          /\ SeenByPreconfig = ahead /\ ConfigArgs(ahead) = ahead
      <3>1. DOMAIN args \subseteq Int
        BY <2>1
      <3>2. SeenByPreconfig = ahead
        BY DEF SeenByPreconfig, ParsedBy
      <3>3. \A i \in ahead : args[i].flag = "config"
        <4> SUFFICES ASSUME NEW i \in ahead PROVE args[i].flag = "config"
          OBVIOUS
        <4>1. i \in DOMAIN args /\ i \in 1..i
          BY <2>1
        <4> QED BY <4>1
      <3>4. ahead \subseteq Parsed
        BY DEF Parsed, ParsedBy
      <3> QED BY <3>1, <3>2, <3>3, <3>4 DEF ConfigArgs, Parsed, ParsedBy
    <2> HIDE DEF ahead
    <2>3. ASSUME NEW S \in SUBSET Int, NEW i \in S, \A j \in S : j <= i PROVE LastOf(S) = i
      <3> DEFINE l == LastOf(S)
      <3>1. l \in S /\ \A j \in S : j <= l
        BY <2>3 DEF LastOf
      <3>2. l \in Int /\ i \in Int /\ i <= l /\ l <= i
        BY <2>3, <3>1
      <3> HIDE DEF l
      <3>3. l = i
        BY <3>2
      <3> QED BY <3>3 DEF l
    <2>4. yaml.path = Abs(OrDefault(IF ahead = {} THEN DefaultPath ELSE args[LastOf(ahead)].path))
      BY <2>1, <2>2 DEF YamlPath, PathOf
    <2>5. DefaultPath # NoPath
      BY ConfigAssumption DEF Paths
    <2>6. ahead = {} => yaml.path = DefaultPath
      BY <2>4, <2>5 DEF Abs, OrDefault
    <2>7. ASSUME NEW i \in ahead, \A j \in ahead : j <= i
          PROVE  yaml.path = IF args[i].path = NoPath THEN DefaultPath ELSE args[i].path
      <3>1. LastOf(ahead) = i
        BY <2>2, <2>3, <2>7
      <3> QED BY <2>4, <2>5, <2>7, <3>1 DEF Abs, OrDefault
    <2>8. ASSUME cfg.path # yaml.path
          PROVE  /\ all # {}
                 /\ \A i \in all : (\A j \in all : j <= i) =>
                      \/ args[i].path = NoPath /\ cfg.path = WorkDir
                      \/ i \notin ahead /\ args[i].path = cfg.path
      <3>1. yaml.path # NoPath
        <4>1. OrDefault(IF ahead = {} THEN DefaultPath ELSE args[LastOf(ahead)].path) # NoPath
          BY <2>5 DEF OrDefault
        <4> QED BY <2>4, <4>1 DEF Abs
      <3>2. all # {}
        BY <2>1, <2>8, <3>1 DEF PathOf, Abs
      <3>3. ASSUME NEW i \in all, \A j \in all : j <= i
            PROVE  \/ args[i].path = NoPath /\ cfg.path = WorkDir
                   \/ i \notin ahead /\ args[i].path = cfg.path
        <4>1. LastOf(all) = i
          BY <2>2, <2>3, <3>3
        <4>2. cfg.path = Abs(args[i].path)
          BY <2>1, <3>2, <4>1 DEF PathOf
        <4>3. CASE args[i].path = NoPath
          BY <4>2, <4>3 DEF Abs
        <4>4. CASE args[i].path # NoPath
          <5>1. cfg.path = args[i].path
            BY <4>2, <4>4 DEF Abs
          <5>2. i \notin ahead
            BY <2>2, <2>7, <2>8, <3>3, <4>4, <5>1
          <5> QED BY <5>1, <5>2
        <4> QED BY <4>3, <4>4
      <3> QED BY <3>2, <3>3
    <2> QED BY <1>1, <2>6, <2>7, <2>8 DEF NamedFileRead, ahead
  <1>2. CInv => NamedFileRead
    BY <1>1 DEF NamedFileRead
  <1> QED BY <1>2, SpecCInv, PTL

(* The offers of a setting are at most one of each rank.                   *)
LEMMA OffersAre ==
  ASSUME NEW s \in Settings, NEW o
  PROVE  o \in Offers(s) <=>
           \/ FlagsOf(s) # {} /\ o = [rank |-> 1, value |-> <<"flag", LastOf(FlagsOf(s))>>]
           \/ env[s] = "good" /\ o = [rank |-> 2, value |-> <<"env", "process">>]
           \/ dotenv[s] = "good" /\ o = [rank |-> 3, value |-> <<"env", "dotenv">>]
           \/ /\ yaml.loaded /\ files[yaml.path].keys[s].primary = "good"
              /\ o = [rank |-> 4, value |-> <<"file", yaml.path, "primary">>]
           \/ /\ yaml.loaded /\ files[yaml.path].keys[s].legacy = "good"
              /\ o = [rank |-> 5, value |-> <<"file", yaml.path, "legacy">>]
           \/ o = [rank |-> 6, value |-> <<"default">>]
  <1>1. \A A, B, C, D, E, F : o \in UNION {A, B, C, D, E, F} <=>
           o \in A \/ o \in B \/ o \in C \/ o \in D \/ o \in E \/ o \in F
    OBVIOUS
  <1>2. o \in Offers(s) <=>
          \/ o \in Offer(1, FlagsOf(s) # {}, <<"flag", LastOf(FlagsOf(s))>>)
          \/ o \in Offer(2, env[s] = "good", <<"env", "process">>)
          \/ o \in Offer(3, dotenv[s] = "good", <<"env", "dotenv">>)
          \/ o \in Offer(4, yaml.loaded /\ files[yaml.path].keys[s].primary = "good",
                         <<"file", yaml.path, "primary">>)
          \/ o \in Offer(5, yaml.loaded /\ files[yaml.path].keys[s].legacy = "good",
                         <<"file", yaml.path, "legacy">>)
          \/ o \in Offer(6, TRUE, <<"default">>)
    BY <1>1, Zenon DEF Offers
  <1>3. o \in Offer(1, FlagsOf(s) # {}, <<"flag", LastOf(FlagsOf(s))>>) <=>
          FlagsOf(s) # {} /\ o = [rank |-> 1, value |-> <<"flag", LastOf(FlagsOf(s))>>]
    BY DEF Offer
  <1>4. o \in Offer(2, env[s] = "good", <<"env", "process">>) <=>
          env[s] = "good" /\ o = [rank |-> 2, value |-> <<"env", "process">>]
    BY DEF Offer
  <1>5. o \in Offer(3, dotenv[s] = "good", <<"env", "dotenv">>) <=>
          dotenv[s] = "good" /\ o = [rank |-> 3, value |-> <<"env", "dotenv">>]
    BY DEF Offer
  <1>6. o \in Offer(4, yaml.loaded /\ files[yaml.path].keys[s].primary = "good",
                   <<"file", yaml.path, "primary">>) <=>
          /\ yaml.loaded /\ files[yaml.path].keys[s].primary = "good"
          /\ o = [rank |-> 4, value |-> <<"file", yaml.path, "primary">>]
    BY DEF Offer
  <1>7. o \in Offer(5, yaml.loaded /\ files[yaml.path].keys[s].legacy = "good",
                   <<"file", yaml.path, "legacy">>) <=>
          /\ yaml.loaded /\ files[yaml.path].keys[s].legacy = "good"
          /\ o = [rank |-> 5, value |-> <<"file", yaml.path, "legacy">>]
    BY DEF Offer
  <1>8. o \in Offer(6, TRUE, <<"default">>) <=> o = [rank |-> 6, value |-> <<"default">>]
    BY DEF Offer
  <1> QED BY <1>2, <1>3, <1>4, <1>5, <1>6, <1>7, <1>8

(* A setting has the value of the first place that offers one.             *)
LEMMA StrongestIs ==
  ASSUME NEW s \in Settings, NEW o \in Offers(s), \A p \in Offers(s) : p = o \/ o.rank < p.rank
  PROVE  Strongest(s) = o.value
  <1>1. \A p \in Offers(s) : p.rank \in 1..6
    BY OffersAre
  <1>2. \A p \in Offers(s) : o.rank <= p.rank
    BY <1>1
  <1> DEFINE q == CHOOSE x \in Offers(s) : \A p \in Offers(s) : x.rank <= p.rank
  <1>3. q \in Offers(s) /\ \A p \in Offers(s) : q.rank <= p.rank
    BY <1>2
  <1>4. q = o
    BY <1>1, <1>3
  <1> QED BY <1>4 DEF Strongest

(* Every setting has the value of the strongest place that has it, and the *)
(* source the server logs is that place.                                   *)
THEOREM PrecedenceHolds == ConfigSpec => []Precedence
  <1>1. CInv => Precedence
    <2> SUFFICES ASSUME CInv, stage = "run", NEW s \in Settings
                 PROVE  /\ cfg.value[s] = Strongest(s)
                        /\ cfg.source[s] = cfg.value[s][1]
                        /\ cfg.source[s] = "file" => cfg.loaded
      BY DEF Precedence
    <2>1. /\ env[s] \in Found /\ dotenv[s] \in Found
          /\ environ[s] = IF env[s] = "missing" THEN <<dotenv[s], "dotenv">> ELSE <<env[s], "process">>
          /\ environ[s][1] # "bad" /\ InFile(s) # "bad"
          /\ fileVals[s] = FileFound(s) /\ envVals[s] = EnvFound(s)
          /\ cfg.value[s] = Value(s) /\ cfg.source[s] = Source(s) /\ cfg.loaded = yaml.loaded
      BY DEF CInv, MergedEnviron
    <2>2. CASE FlagsOf(s) # {}
      <3> DEFINE v == <<"flag", LastOf(FlagsOf(s))>>
                 o == [rank |-> 1, value |-> v]
      <3>1. o \in Offers(s) /\ \A p \in Offers(s) : p = o \/ o.rank < p.rank
        BY <2>2, OffersAre
      <3>2. Strongest(s) = v
        BY <3>1, StrongestIs
      <3>3. cfg.value[s] = v /\ cfg.source[s] = "flag"
        BY <2>1, <2>2 DEF Value, Source, pickSource
      <3> QED BY <3>2, <3>3
    <2>3. CASE FlagsOf(s) = {} /\ env[s] = "good"
      <3> DEFINE v == <<"env", "process">>
                 o == [rank |-> 2, value |-> v]
      <3>1. o \in Offers(s) /\ \A p \in Offers(s) : p = o \/ o.rank < p.rank
        BY <2>3, OffersAre
      <3>2. Strongest(s) = v
        BY <3>1, StrongestIs
      <3>3. envVals[s] = v /\ v # Nowhere
        BY <2>1, <2>3 DEF EnvFound, Nowhere
      <3>4. cfg.value[s] = v /\ cfg.source[s] = "env"
        BY <2>1, <2>3, <3>3 DEF Value, Source, pickSource, computeDefaults
      <3> QED BY <3>2, <3>4
    <2>4. CASE FlagsOf(s) = {} /\ env[s] = "missing" /\ dotenv[s] = "good"
      <3> DEFINE v == <<"env", "dotenv">>
                 o == [rank |-> 3, value |-> v]
      <3>1. o \in Offers(s) /\ \A p \in Offers(s) : p = o \/ o.rank < p.rank
        BY <2>4, OffersAre
      <3>2. Strongest(s) = v
        BY <3>1, StrongestIs
      <3>3. envVals[s] = v /\ v # Nowhere
        BY <2>1, <2>4 DEF EnvFound, Nowhere
      <3>4. cfg.value[s] = v /\ cfg.source[s] = "env"
        BY <2>1, <2>4, <3>3 DEF Value, Source, pickSource, computeDefaults
      <3> QED BY <3>2, <3>4
    <2>5. CASE FlagsOf(s) = {} /\ env[s] = "missing" /\ dotenv[s] = "missing"
      <3>1. envVals[s] = Nowhere
        BY <2>1, <2>5 DEF EnvFound
      <3> DEFINE k == files[yaml.path].keys[s]
      <3>2. CASE InFile(s) = "good"
        <4>1. yaml.loaded /\ k[CompatKey(s)] = "good"
          BY <3>2 DEF InFile
        <4> DEFINE v == <<"file", yaml.path, CompatKey(s)>>
        <4>2. \E r \in {4, 5} : LET o == [rank |-> r, value |-> v] IN
                o \in Offers(s) /\ \A p \in Offers(s) : p = o \/ o.rank < p.rank
          <5>1. CASE k.primary \in {"bad", "good"}
            <6>1. CompatKey(s) = "primary" /\ k.primary = "good"
              BY <4>1, <5>1 DEF CompatKey
            <6> DEFINE o == [rank |-> 4, value |-> <<"file", yaml.path, "primary">>]
            <6>2. o \in Offers(s) /\ \A p \in Offers(s) : p = o \/ o.rank < p.rank
              BY <2>5, <4>1, <6>1, OffersAre
            <6> QED BY <6>1, <6>2
          <5>2. CASE k.primary \notin {"bad", "good"}
            <6>1. CompatKey(s) = "legacy" /\ k.legacy = "good"
              BY <4>1, <5>2 DEF CompatKey
            <6> DEFINE o == [rank |-> 5, value |-> <<"file", yaml.path, "legacy">>]
            <6>2. o \in Offers(s) /\ \A p \in Offers(s) : p = o \/ o.rank < p.rank
              BY <2>5, <4>1, <5>2, <6>1, OffersAre
            <6> QED BY <6>1, <6>2
          <5> QED BY <5>1, <5>2
        <4>3. Strongest(s) = v
          BY <4>2, StrongestIs
        <4>4. fileVals[s] = v /\ v # Nowhere
          BY <2>1, <3>2 DEF FileFound, Nowhere
        <4>5. cfg.value[s] = v /\ cfg.source[s] = "file"
          BY <2>1, <2>5, <3>1, <4>4 DEF Value, Source, pickSource, computeDefaults
        <4> QED BY <2>1, <4>1, <4>3, <4>5
      <3>3. CASE InFile(s) # "good"
        <4> DEFINE o == [rank |-> 6, value |-> <<"default">>]
        <4>1. ~(yaml.loaded /\ k.primary = "good") /\ ~(yaml.loaded /\ k.legacy = "good")
          BY <2>1, <3>3 DEF InFile, CompatKey
        <4>2. o \in Offers(s) /\ \A p \in Offers(s) : p = o \/ o.rank < p.rank
          BY <2>5, <4>1, OffersAre
        <4>3. Strongest(s) = <<"default">>
          BY <4>2, StrongestIs
        <4>4. fileVals[s] = Nowhere
          BY <2>1, <3>3 DEF FileFound
        <4>5. cfg.value[s] = <<"default">> /\ cfg.source[s] = "default"
          BY <2>1, <2>5, <3>1, <4>4 DEF Value, Source, pickSource, computeDefaults
        <4> QED BY <4>3, <4>5
      <3> QED BY <3>2, <3>3
    <2>6. env[s] \in {"missing", "good"} /\ (env[s] = "missing" => dotenv[s] \in {"missing", "good"})
      BY <2>1 DEF Found
    <2> QED BY <2>2, <2>3, <2>4, <2>5, <2>6
  <1> QED BY <1>1, SpecCInv, PTL

----
(* The method table, for all methods, commands, hashes and goroutines.     *)

(* The two directions of the table agree where a method has a command, and *)
(* a command once answered still leads back to its method.                 *)
LeadsBack ==
    /\ \A n \in Names : methodCommand[n] # NoCommand => commandMethod[methodCommand[n]] = n
    /\ \A a \in given : commandMethod[a[2]] = [method |-> a[1], spaced |-> FALSE]

MInv == MapperTypeOK /\ LeadsBack

LEMMA InitMInv == MapperInit => MInv
  BY MapperAssumption DEF MapperInit, MInv, MapperTypeOK, LeadsBack

(* A registration that finds its command free changes the method of no     *)
(* other command.                                                          *)
LEMMA BindKeeps ==
  ASSUME MInv, NEW n \in Names, NEW c \in Commands, ~Taken(n, c), Bind(n, c), given' = given
  PROVE  /\ methodCommand' \in [Names -> Commands \union {NoCommand}]
         /\ commandMethod' \in [Commands -> Names \union {NoName}]
         /\ LeadsBack'
  <1>1. /\ methodCommand' = [methodCommand EXCEPT ![n] = c]
        /\ commandMethod' = [commandMethod EXCEPT ![c] = n]
        /\ commandMethod[c] \in {NoName, n}
    BY DEF Bind, Taken
  <1>2. MapperTypeOK /\ LeadsBack
    BY DEF MInv
  <1>3. ASSUME NEW m \in Names, methodCommand'[m] # NoCommand
        PROVE  commandMethod'[methodCommand'[m]] = m
    <2>1. CASE m = n
      BY <1>1, <1>2, <2>1 DEF MapperTypeOK
    <2>2. CASE m # n
      <3>1. methodCommand'[m] = methodCommand[m] /\ methodCommand[m] \in Commands
        BY <1>1, <1>2, <1>3, <2>2 DEF MapperTypeOK
      <3>2. commandMethod[methodCommand[m]] = m
        BY <1>2, <1>3, <3>1 DEF LeadsBack
      <3>3. m # NoName
        BY MapperAssumption
      <3> QED BY <1>1, <1>2, <2>2, <3>1, <3>2, <3>3 DEF MapperTypeOK
    <2> QED BY <2>1, <2>2
  <1>4. ASSUME NEW a \in given PROVE commandMethod'[a[2]] = [method |-> a[1], spaced |-> FALSE]
    <2>1. a[2] \in Commands /\ a[1] \in Methods
      BY <1>2 DEF MapperTypeOK
    <2>2. commandMethod[a[2]] = [method |-> a[1], spaced |-> FALSE]
      BY <1>2 DEF LeadsBack
    <2>3. commandMethod[a[2]] \in Names
      BY <2>1, <2>2 DEF Names
    <2> QED BY <1>1, <1>2, <2>1, <2>2, <2>3, MapperAssumption DEF MapperTypeOK
  <1> QED BY <1>1, <1>2, <1>3, <1>4 DEF MapperTypeOK, LeadsBack

(* A firm answer is the command of its method.                             *)
LEMMA AnswerKeeps ==
  ASSUME MInv, NEW m \in Methods, NEW c \in Commands,
         commandMethod[c] = [method |-> m, spaced |-> FALSE],
         given' = given \union {<<m, c>>},
         UNCHANGED <<methodCommand, commandMethod>>
  PROVE  given' \subseteq Methods \X Commands /\ LeadsBack'
  <1>1. given \subseteq Methods \X Commands /\ LeadsBack
    BY DEF MInv, MapperTypeOK
  <1>2. <<m, c>> \in Methods \X Commands /\ <<m, c>>[1] = m /\ <<m, c>>[2] = c
    OBVIOUS
  <1>3. ASSUME NEW a \in given' PROVE commandMethod[a[2]] = [method |-> a[1], spaced |-> FALSE]
    <2>1. CASE a \in given
      BY <1>1, <2>1 DEF LeadsBack
    <2>2. CASE a = <<m, c>>
      BY <2>2
    <2> QED BY <2>1, <2>2
  <1> QED BY <1>1, <1>2, <1>3 DEF LeadsBack

LEMMA NextMInv == MInv /\ [MapperNext]_mapperVars => MInv'
  <1> SUFFICES ASSUME MInv, [MapperNext]_mapperVars PROVE MInv'
    OBVIOUS
  <1> USE DEF MInv
  <1>1. ASSUME NEW p \in Procs, Call(p) \/ Refuse(p) PROVE MInv'
    BY <1>1 DEF Call, Refuse, Return, tables, MapperTypeOK, LeadsBack
  <1>2. ASSUME NEW p \in Procs, Register(p) PROVE MInv'
    <2>1. call[p].name \in Names /\ call[p].cmd \in Commands
      BY <1>2 DEF Register, MapperTypeOK, Calls
    <2>2. /\ strictMapping' \in BOOLEAN /\ locked' \in BOOLEAN /\ conflicted' \in BOOLEAN
          /\ call' \in [Procs -> Calls \union {Idle}]
          /\ given' = given
      BY <1>2 DEF Register, Return, MapperTypeOK
    <2>3. CASE UNCHANGED <<methodCommand, commandMethod>>
      BY <2>2, <2>3 DEF MapperTypeOK, LeadsBack
    <2>4. CASE ~Taken(call[p].name, call[p].cmd) /\ Bind(call[p].name, call[p].cmd)
      BY <2>1, <2>2, <2>4, BindKeeps DEF MapperTypeOK
    <2> QED BY <1>2, <2>3, <2>4 DEF Register
  <1>3. ASSUME NEW p \in Procs, MapMethodToCommand(p) PROVE MInv'
    <2> DEFINE n == call[p].name
               norm == [method |-> n.method, spaced |-> FALSE]
    <2>1. n \in Names /\ n.method \in Methods /\ norm \in Names
      BY <1>3 DEF MapMethodToCommand, Names
    <2>2. normalized(n) = norm
      BY DEF normalized
    <2>3. /\ methodCommand' = methodCommand /\ commandMethod' = commandMethod
          /\ strictMapping' = strictMapping /\ conflicted' = conflicted
          /\ locked' = FALSE /\ call' = [call EXCEPT ![p] = Idle]
          /\ \/ given' = given
             \/ /\ strictMapping \/ Entry(n) # NoCommand
                /\ Answer(n) # NoCommand
                /\ given' = given \union {<<n.method, Answer(n)>>}
      BY <1>3 DEF MapMethodToCommand, Unlock, Return, tables
    <2>4. CASE given' = given
      BY <2>3, <2>4 DEF MapperTypeOK, LeadsBack
    <2>5. CASE /\ strictMapping \/ Entry(n) # NoCommand
               /\ Answer(n) # NoCommand
               /\ given' = given \union {<<n.method, Answer(n)>>}
      <3>1. Answer(n) = methodCommand[norm] /\ methodCommand[norm] # NoCommand
        BY <2>2, <2>5 DEF Answer, Entry
      <3>2. methodCommand[norm] \in Commands /\ commandMethod[methodCommand[norm]] = norm
        BY <2>1, <3>1 DEF MapperTypeOK, LeadsBack
      <3>3. given' \subseteq Methods \X Commands /\ LeadsBack'
        BY <2>1, <2>3, <2>5, <3>1, <3>2, AnswerKeeps
      <3>4. call' \in [Procs -> Calls \union {Idle}]
        BY <2>3 DEF MapperTypeOK
      <3> QED BY <2>3, <3>3, <3>4 DEF MapperTypeOK
    <2> QED BY <2>3, <2>4, <2>5
  <1>4. ASSUME NEW p \in Procs, SetStrictCommandMapping(p) PROVE MInv'
    <2>1. call[p].strict \in BOOLEAN
      BY <1>4 DEF SetStrictCommandMapping, MapperTypeOK, Calls
    <2> QED BY <1>4, <2>1 DEF SetStrictCommandMapping, Return, MapperTypeOK, LeadsBack
  <1>5. CASE UNCHANGED mapperVars
    BY <1>5 DEF mapperVars, MapperTypeOK, LeadsBack
  <1> QED BY <1>1, <1>2, <1>3, <1>4, <1>5 DEF MapperNext, Proceed

LEMMA SpecMInv == MapperSpec => []MInv
  BY InitMInv, NextMInv, PTL DEF MapperSpec

(* No command was ever firmly answered for two methods. *)
THEOREM AnswersUnique == MapperSpec => []AnsweredUniquely
  <1>1. MInv => AnsweredUniquely
    <2> SUFFICES ASSUME MInv, NEW a \in given, NEW b \in given, a[2] = b[2] PROVE a[1] = b[1]
      BY DEF AnsweredUniquely
    <2>1. [method |-> a[1], spaced |-> FALSE] = [method |-> b[1], spaced |-> FALSE]
      BY DEF MInv, LeadsBack
    <2>2. [method |-> a[1], spaced |-> FALSE].method = [method |-> b[1], spaced |-> FALSE].method
      BY <2>1
    <2> QED BY <2>2
  <1> QED BY <1>1, SpecMInv, PTL

(* The tables, the calls and the answers keep their types.                 *)
THEOREM MapperTypes == MapperSpec => []MapperTypeOK
  BY SpecMInv, PTL DEF MInv

----
(* The server, for every number of connections and every backoff.          *)

LEMMA BackoffFacts ==
  ASSUME NEW b \in BackoffBase..BackoffCap
  PROVE  nextAcceptBackoff(b) \in BackoffBase..BackoffCap
  BY ServerAssumption DEF nextAcceptBackoff

LEMMA CounterFacts ==
  /\ BackoffBase \in BackoffBase..BackoffCap
  /\ 0 \in 0..MaxFailures
  /\ \A f \in 0..MaxFailures : f < MaxFailures => f + 1 \in 0..MaxFailures
  BY ServerAssumption

LEMMA InitTypeOK == Init => TypeOK
  <1> SUFFICES ASSUME Init PROVE TypeOK
    OBVIOUS
  <1>1. acceptBackoff \in BackoffBase..BackoffCap /\ failures \in 0..MaxFailures
    BY CounterFacts DEF Init
  <1> QED
    BY <1>1 DEF Init, TypeOK

LEMMA NextTypeOK == TypeOK /\ [Next]_vars => TypeOK'
  <1> SUFFICES ASSUME TypeOK, [Next]_vars PROVE TypeOK'
    OBVIOUS
  <1> USE DEF TypeOK, config, accepting, serving
  <1>1. CASE Cancel
    BY <1>1 DEF Cancel
  <1>2. CASE SetupDone
    BY <1>2 DEF SetupDone
  <1>3. CASE SetupFails
    BY <1>3 DEF SetupFails
  <1>4. ASSUME NEW c \in Conns, Accept(c) PROVE TypeOK'
    BY <1>4, CounterFacts DEF Accept
  <1>5. ASSUME NEW e \in AcceptErrors, AcceptFails(e) PROVE TypeOK'
    <2>1. failures' \in 0..MaxFailures
      BY <1>5, CounterFacts DEF AcceptFails
    <2>2. /\ loop' \in {"setup", "accept", "sleep", "returned"}
          /\ result' \in {"none", "nil", "setup error", "accept error"}
          /\ listener' \in {"open", "closed"}
      BY <1>5 DEF AcceptFails
    <2> QED
      BY <1>5, <2>1, <2>2 DEF AcceptFails
  <1>6. CASE Wake
    BY <1>6, BackoffFacts DEF Wake
  <1>7. CASE CloseListener
    BY <1>7 DEF CloseListener
  <1>8. ASSUME NEW c \in Conns, Dial(c) PROVE TypeOK'
    BY <1>8 DEF Dial
  <1>9. ASSUME NEW c \in Conns, Start(c) PROVE TypeOK'
    BY <1>9 DEF Start
  <1>10. ASSUME NEW c \in Conns, HandlerReturns(c) PROVE TypeOK'
    BY <1>10 DEF HandlerReturns
  <1>11. ASSUME NEW c \in Conns, StopWatcher(c) PROVE TypeOK'
    BY <1>11 DEF StopWatcher
  <1>12. ASSUME NEW c \in Conns, Exit(c) PROVE TypeOK'
    BY <1>12 DEF Exit
  <1>13. ASSUME NEW c \in Conns, WatcherStep(c) PROVE TypeOK'
    BY <1>13 DEF WatcherStep, WatcherCloses, WatcherStops
  <1>14. CASE UNCHANGED vars
    BY <1>14 DEF vars
  <1> QED
    BY <1>1, <1>2, <1>3, <1>4, <1>5, <1>6, <1>7, <1>8, <1>9, <1>10, <1>11, <1>12, <1>13, <1>14
    DEF Next, LoopStep, ConnStep, HandlerUnblocked, Quiet

(* Every variable of the server keeps its type; the backoff stays within   *)
(* its bounds.                                                             *)
THEOREM TypeCorrect == Spec => []TypeOK
  BY InitTypeOK, NextTypeOK, PTL DEF Spec

(* No connection is open without a goroutine that will close it, for any   *)
(* number of connections.                                                  *)
THEOREM NoOrphanConnHolds == Spec => []NoOrphanConn
  <1>1. Init => NoOrphanConn
    BY DEF Init, NoOrphanConn
  <1>2. TypeOK /\ NoOrphanConn /\ [Next]_vars => NoOrphanConn'
    <2> SUFFICES ASSUME TypeOK, NoOrphanConn, [Next]_vars PROVE NoOrphanConn'
      OBVIOUS
    <2> USE DEF TypeOK, NoOrphanConn, accepting, serving
    <2>1. CASE Cancel \/ SetupDone \/ SetupFails \/ Wake \/ CloseListener
      BY <2>1 DEF Cancel, SetupDone, SetupFails, Wake, CloseListener
    <2>2. ASSUME NEW c \in Conns, Accept(c) PROVE NoOrphanConn'
      BY <2>2 DEF Accept
    <2>3. ASSUME NEW e \in AcceptErrors, AcceptFails(e) PROVE NoOrphanConn'
      BY <2>3 DEF AcceptFails
    <2>4. ASSUME NEW c \in Conns, Dial(c) PROVE NoOrphanConn'
      BY <2>4 DEF Dial
    <2>5. ASSUME NEW c \in Conns, Start(c) \/ HandlerReturns(c) \/ StopWatcher(c)
          PROVE NoOrphanConn'
      BY <2>5 DEF Start, HandlerReturns, StopWatcher
    <2>6. ASSUME NEW c \in Conns, Exit(c) PROVE NoOrphanConn'
      BY <2>6 DEF Exit
    <2>7. ASSUME NEW c \in Conns, WatcherStep(c) PROVE NoOrphanConn'
      BY <2>7 DEF WatcherStep, WatcherCloses, WatcherStops
    <2>8. CASE UNCHANGED vars
      BY <2>8 DEF vars
    <2> QED
      BY <2>1, <2>2, <2>3, <2>4, <2>5, <2>6, <2>7, <2>8
      DEF Next, LoopStep, ConnStep, HandlerUnblocked, Quiet
  <1> QED
    BY <1>1, <1>2, TypeCorrect, PTL DEF Spec

----
(* The backoff of the accept loop.  That a power of two doubles with its   *)
(* exponent is induction, which the provers cannot do; the library knows   *)
(* that a set of n elements has 2^n subsets, and those of 1..(n + 1) are   *)
(* the subsets of 1..n, each without and with n + 1.                       *)
LEMMA Doubles ==
  ASSUME NEW n \in Nat
  PROVE  2 ^ n \in Nat \ {0} /\ 2 ^ (n + 1) = 2 * 2 ^ n
  <1> DEFINE A == SUBSET (1..n)
             B == {U \union {n + 1} : U \in A}
             g == [U \in A |-> U \union {n + 1}]
  <1>0. n \in Int /\ n + 1 \in Int /\ 1 \in Int /\ n + 1 \in Nat
    OBVIOUS
  <1>1. IsFiniteSet(1..n) /\ Cardinality(1..n) = n
    BY <1>0, FS_Interval
  <1>2. IsFiniteSet(1..(n + 1)) /\ Cardinality(1..(n + 1)) = n + 1
    BY <1>0, FS_Interval
  <1>3. IsFiniteSet(A) /\ Cardinality(A) = 2 ^ n
    BY <1>1, FS_SUBSET
  <1>4. IsFiniteSet(SUBSET (1..(n + 1))) /\ Cardinality(SUBSET (1..(n + 1))) = 2 ^ (n + 1)
    BY <1>2, FS_SUBSET
  <1>5. n + 1 \notin 1..n /\ 1..(n + 1) = 1..n \union {n + 1}
    OBVIOUS
  <1>6. SUBSET (1..(n + 1)) = A \union B
    <2>1. ASSUME NEW V \in SUBSET (1..(n + 1)) PROVE V \in A \union B
      <3>1. CASE n + 1 \in V
        <4>1. V \ {n + 1} \in A /\ V = (V \ {n + 1}) \union {n + 1}
          BY <1>5, <3>1
        <4> QED BY <4>1
      <3>2. CASE n + 1 \notin V
        BY <1>5, <3>2
      <3> QED BY <3>1, <3>2
    <2>2. ASSUME NEW V \in A \union B PROVE V \in SUBSET (1..(n + 1))
      BY <1>5
    <2> QED BY <2>1, <2>2
  <1>7. A \intersect B = {}
    BY <1>5
  <1>8. ExistsBijection(A, B)
    <2>1. g \in [A -> B]
      OBVIOUS
    <2>2. \A U, V \in A : g[U] = g[V] => U = V
      <3> SUFFICES ASSUME NEW U \in A, NEW V \in A, g[U] = g[V] PROVE U = V
        OBVIOUS
      <3>1. U \union {n + 1} = V \union {n + 1}
        OBVIOUS
      <3>2. n + 1 \notin U /\ n + 1 \notin V
        BY <1>5
      <3> QED BY <3>1, <3>2
    <2>3. \A W \in B : \E U \in A : g[U] = W
      OBVIOUS
    <2> HIDE DEF A, B, g
    <2>4. g \in Injection(A, B)
      BY <2>1, <2>2 DEF Injection, IsInjective
    <2>5. g \in Surjection(A, B)
      BY <2>1, <2>3 DEF Surjection
    <2> QED BY <2>4, <2>5 DEF ExistsBijection, Bijection
  <1> HIDE DEF A, B, g
  <1>9. IsFiniteSet(B) /\ Cardinality(B) = 2 ^ n
    BY <1>3, <1>8, FS_Bijection
  <1>10. Cardinality(A \intersect B) = 0
    BY <1>7, FS_EmptySet
  <1>11. Cardinality(A \union B) = Cardinality(A) + Cardinality(B) - Cardinality(A \intersect B)
    BY <1>3, <1>9, FS_Union
  <1>12. 2 ^ n \in Nat
    BY <1>3, FS_CardinalityType
  <1>13. 2 ^ n # 0
    <2>1. {} \in A
      BY DEF A
    <2> QED BY <1>3, <2>1, FS_EmptySet
  <1>14. 2 ^ (n + 1) = 2 ^ n + 2 ^ n - 0
    BY <1>3, <1>4, <1>6, <1>9, <1>10, <1>11
  <1> QED BY <1>12, <1>13, <1>14

(* The backoff after n errors in a row. *)
BackoffAfter(n) ==
    IF BackoffBase * 2 ^ n > BackoffCap THEN BackoffCap ELSE BackoffBase * 2 ^ n

(* nextAcceptBackoff goes from one to the next. *)
LEMMA NextBackoff ==
  ASSUME NEW n \in Nat
  PROVE  nextAcceptBackoff(BackoffAfter(n)) = BackoffAfter(n + 1)
  <1> DEFINE x == 2 ^ n
             b == BackoffBase * x
  <1>1. x \in Nat /\ 2 ^ (n + 1) = 2 * x
    BY Doubles
  <1>2. BackoffBase \in Nat /\ BackoffCap \in Nat
    BY ServerAssumption
  <1> HIDE DEF x
  <1>3. b \in Nat /\ BackoffBase * (2 * x) = 2 * b
    BY <1>1, <1>2
  <1>4. BackoffAfter(n) = IF b > BackoffCap THEN BackoffCap ELSE b
    BY DEF BackoffAfter, x
  <1>5. BackoffAfter(n + 1) = IF 2 * b > BackoffCap THEN BackoffCap ELSE 2 * b
    BY <1>1, <1>3 DEF BackoffAfter
  <1> HIDE DEF b
  <1> QED BY <1>2, <1>3, <1>4, <1>5 DEF nextAcceptBackoff

(* How many errors in a row the loop has already slept for. *)
Slept == IF loop = "sleep" THEN failures - 1 ELSE failures

BInv ==
    /\ loop = "sleep" => failures >= 1
    /\ acceptBackoff = BackoffAfter(Slept)

LEMMA InitBInv == Init => BInv
  <1> SUFFICES ASSUME Init PROVE BInv
    OBVIOUS
  <1>1. Slept = 0 /\ loop # "sleep"
    BY DEF Init, Slept
  <1>2. 2 ^ 0 = 1
    OBVIOUS
  <1>3. BackoffAfter(0) = BackoffBase
    BY <1>2, ServerAssumption DEF BackoffAfter
  <1> QED BY <1>1, <1>3 DEF Init, BInv

LEMMA NextBInv == TypeOK /\ BInv /\ [Next]_vars => BInv'
  <1> SUFFICES ASSUME TypeOK, BInv, [Next]_vars PROVE BInv'
    OBVIOUS
  <1>0. failures \in Nat
    <2>1. failures \in 0..MaxFailures
      BY DEF TypeOK
    <2> QED BY <2>1, ServerAssumption
  <1>1. ASSUME loop # "sleep", loop' # "sleep", UNCHANGED <<failures, acceptBackoff>> PROVE BInv'
    BY <1>1 DEF BInv, Slept
  <1>2. ASSUME UNCHANGED accepting PROVE BInv'
    BY <1>2 DEF BInv, Slept, accepting
  <1>3. ASSUME NEW c \in Conns, Accept(c) PROVE BInv'
    <2>1. loop' # "sleep" /\ failures' = 0 /\ acceptBackoff' = BackoffBase
      BY <1>3 DEF Accept
    <2>2. 2 ^ 0 = 1
      OBVIOUS
    <2>3. BackoffAfter(0) = BackoffBase
      BY <2>2, ServerAssumption DEF BackoffAfter
    <2> QED BY <2>1, <2>3 DEF BInv, Slept
  <1>4. ASSUME NEW e \in AcceptErrors, AcceptFails(e) PROVE BInv'
    <2>1. CASE isRetryableAcceptError(e)
      <3>1. loop # "sleep" /\ loop' = "sleep" /\ failures' = failures + 1
            /\ acceptBackoff' = acceptBackoff
        BY <1>4, <2>1 DEF AcceptFails
      <3>2. Slept' = Slept
        BY <1>0, <3>1 DEF Slept
      <3> QED BY <1>0, <3>1, <3>2 DEF BInv
    <2>2. CASE ~isRetryableAcceptError(e)
      BY <1>1, <1>4, <2>2 DEF AcceptFails
    <2> QED BY <2>1, <2>2
  <1>5. CASE Wake
    <2>1. loop = "sleep" /\ loop' # "sleep" /\ failures' = failures
          /\ acceptBackoff' = nextAcceptBackoff(acceptBackoff)
      BY <1>5 DEF Wake
    <2>2. Slept \in Nat /\ Slept' = Slept + 1
      BY <1>0, <2>1 DEF BInv, Slept
    <2> QED BY <2>1, <2>2, NextBackoff DEF BInv
  <1>6. CASE SetupDone \/ SetupFails
    BY <1>1, <1>6 DEF SetupDone, SetupFails
  <1>7. CASE Cancel \/ CloseListener
    BY <1>2, <1>7 DEF Cancel, CloseListener
  <1>8. ASSUME NEW c \in Conns, Dial(c) \/ ConnStep(c) \/ HandlerReturns(c) \/ WatcherStep(c)
        PROVE  BInv'
    BY <1>2, <1>8 DEF Dial, ConnStep, Start, HandlerUnblocked, HandlerReturns, StopWatcher, Exit,
                      WatcherStep, WatcherCloses, WatcherStops
  <1>9. CASE UNCHANGED vars
    BY <1>2, <1>9 DEF vars
  <1> QED
    BY <1>3, <1>4, <1>5, <1>6, <1>7, <1>8, <1>9 DEF Next, LoopStep, Quiet

(* acceptLoop's backoff depends on nothing but the errors since the last   *)
(* accepted connection: BackoffBase, doubled for each of them that has     *)
(* been slept for, up to BackoffCap.                                       *)
THEOREM BackoffMatchesFailuresHolds == Spec => []BackoffMatchesFailures
  <1>1. BInv => BackoffMatchesFailures
    BY DEF BInv, BackoffMatchesFailures, BackoffAfter, Slept
  <1> QED BY <1>1, InitBInv, NextBInv, TypeCorrect, PTL DEF Spec

====
