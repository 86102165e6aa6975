--------------------------- MODULE BackendConfig ---------------------------
(***************************************************************************)
(* How the daemon finds out where to write: InfluxDBConfig.parse_config    *)
(* (app/classes/influxdb/config.py) on top of ConfigBase.parse_config      *)
(* (app/classes/common.py).  Settings come from environment variables of   *)
(* three families and from ini files whose options have older names too.   *)
(*                                                                         *)
(* A setting is a text, already stripped and in lower case; what int(),    *)
(* parse_bool() and urlsplit() make of it stands in tables.  The daemon    *)
(* reads the settings once, at its start; between two starts the           *)
(* administrator changes one of them at a time.                            *)
(***************************************************************************)
EXTENDS Integers, Sequences, SequencesExt

CONSTANTS
    Tried,          \* the texts tried for each variable and ini option
    IntOf,          \* int(), defined for the texts it accepts
    BoolOf,         \* parse_bool(), likewise
    UrlOf,          \* urlsplit(), defined for the texts that contain "://"
    LocalHosts,     \* localhost, 127.0.0.1, ::1
    Profiles        \* QUESTDB_DOWNSAMPLING_PROFILES

VARIABLES
    settings        \* os.environ and the [influxdb] section of the ini file

Unset == "unset"

\* A name that is never set is not in the table.
Get(from, name) == IF name \in DOMAIN from THEN from[name] ELSE Unset
IsSet(text)     == text # Unset
Given(text)     == text \notin {Unset, ""}

\* The first of two texts that is set, or given.
OrElse(text, other) == IF IsSet(text) THEN text ELSE other
FirstGiven(text, other) ==
    IF Given(text) THEN text ELSE IF Given(other) THEN other ELSE Unset

(***************************************************************************)
(* ConfigBase.parse_config: the environment before the option before its   *)
(* older name; an empty text becomes the default.                          *)
(***************************************************************************)
EnvName == [version |-> "INFLUXDB_VERSION", hostname |-> "INFLUXDB_HOSTNAME",
            port |-> "INFLUXDB_PORT", tls_enabled |-> "INFLUXDB_TLS_ENABLED",
            allow_plaintext_credentials |->
                "INFLUXDB_ALLOW_PLAINTEXT_CREDENTIALS",
            data_retention_days |-> "INFLUXDB_DATA_RETENTION_DAYS",
            downsampling |-> "INFLUXDB_DOWNSAMPLING",
            username |-> "INFLUXDB_USERNAME",
            password |-> "INFLUXDB_PASSWORD", database |-> "INFLUXDB_DATABASE",
            token |-> "INFLUXDB_TOKEN",
            organization |-> "INFLUXDB_ORGANIZATION",
            bucket |-> "INFLUXDB_BUCKET"]

Alt == [hostname |-> "host", tls_enabled |-> "ssl"]

Text(from, option) ==
    OrElse(Get(from, EnvName[option]),
           OrElse(Get(from, option),
                  IF option \in DOMAIN Alt THEN Get(from, Alt[option])
                  ELSE Unset))

\* The attributes parse_config sets, as texts.
Options(from) == [option \in DOMAIN EnvName |-> Text(from, option)]

Parsed(text, table, default) ==
    IF text \in DOMAIN table THEN table[text] ELSE default

Unparsable(text, table) == Given(text) /\ text \notin DOMAIN table

(***************************************************************************)
(* The choice of the backend and the variables QuestDB has of its own      *)
(***************************************************************************)
Hosts == <<"QUESTDB_HOST", "QUESTDB_HOSTNAME">>

\* The later in the code first: where two names map to one, it wins.
questdb_mapping ==
    [INFLUXDB_HOSTNAME |-> Hosts,
     INFLUXDB_PORT |-> <<"QUESTDB_PORT">>,
     INFLUXDB_USERNAME |-> <<"QUESTDB_USERNAME">>,
     INFLUXDB_PASSWORD |-> <<"QUESTDB_PASSWORD">>,
     INFLUXDB_TLS_ENABLED |-> <<"QUESTDB_SSL", "QUESTDB_TLS_ENABLED">>,
     INFLUXDB_DATA_RETENTION_DAYS |-> <<"QUESTDB_DATA_RETENTION_DAYS">>,
     INFLUXDB_DOWNSAMPLING |-> <<"QUESTDB_DOWNSAMPLING">>,
     INFLUXDB_ALLOW_PLAINTEXT_CREDENTIALS |->
        <<"QUESTDB_ALLOW_PLAINTEXT_CREDENTIALS">>]

DBTypes == [influxdb_v1 |-> "1", influxdb_v2 |-> "2", questdb |-> "questdb"]

\* Faults of DocumentedPrecedence: a version that does not count as a choice.
ChosenByType(db_type, version)     == Given(db_type)
explicit_backend(db_type, version) == Given(db_type) \/ Given(version)

Backend(from) ==
    LET db_type == Get(from, "DB_TYPE")
        explicit_version == FirstGiven(Get(from, "INFLUXDB_VERSION"),
                                       Get(from, "version"))
        mapped == IF ~Given(db_type) THEN explicit_version
                  ELSE IF db_type \in DOMAIN DBTypes THEN DBTypes[db_type]
                  ELSE Unset
        host_configured == \E i \in DOMAIN Hosts : Given(Get(from, Hosts[i]))
        is_questdb == \/ mapped = "questdb"
                      \/ /\ host_configured
                         /\ ~explicit_backend(db_type, explicit_version)
    IN  [version |-> IF is_questdb THEN "questdb" ELSE mapped,
         is_questdb |-> is_questdb]

InvalidType(db_type) == Given(db_type) /\ db_type \notin DOMAIN DBTypes

\* _temporary_env(env_overrides): the variables as parse_config sees them.
Overridden(from) ==
    LET backend == Backend(from)
        override(name) ==
            IF name = "INFLUXDB_VERSION" THEN backend.version
            ELSE IF backend.is_questdb /\ name \in DOMAIN questdb_mapping
            THEN OrElse(Get(from, Head(questdb_mapping[name])),
                        Get(from, Last(questdb_mapping[name])))
            ELSE Unset
    IN  [name \in DOMAIN from \cup DOMAIN questdb_mapping
                  \cup {"INFLUXDB_VERSION"} |->
            OrElse(override(name), Get(from, name))]

(***************************************************************************)
(* InfluxDBConfig.parse_config: options is what ConfigBase has set, and    *)
(* the hostname may be a URL that has a port and TLS of its own.           *)
(***************************************************************************)
Version(options) == IF Given(options.version) THEN options.version ELSE "1"

Split(hostname) ==
    Parsed(hostname, UrlOf,
           [scheme |-> "", hostname |-> hostname, port |-> 0, path |-> FALSE])

IsUrl(url) == url.scheme \in {"http", "https"}

has_port_config(from, seen) ==
    IsSet(Get(from, "port")) \/ Given(Get(seen, "INFLUXDB_PORT"))

Port(options, url, configured) ==
    IF IsUrl(url) /\ url.port # 0 THEN url.port
    ELSE IF configured THEN Parsed(options.port, IntOf, 8086)
    ELSE IF IsUrl(url) THEN IF url.scheme = "https" THEN 443 ELSE 80
    ELSE IF Version(options) = "questdb" THEN 9000 ELSE 8086

tls_enabled(options, url, port) ==
    IF IsUrl(url) THEN url.scheme = "https"
    ELSE port = 443 \/ Parsed(options.tls_enabled, BoolOf, FALSE)

\* Credentials go over plain HTTP to another host only where that is allowed.
Exposed(options, hostname, tls) ==
    /\ ~tls
    /\ Given(hostname) /\ hostname \notin LocalHosts
    /\ \/ Given(options.username) \/ Given(options.password)
       \/ Version(options) # "questdb" /\ Given(options.token)
    /\ ~Parsed(options.allow_plaintext_credentials, BoolOf, FALSE)

mandatory_keys(version) ==
    CASE version = "1" -> {"hostname", "database"}
      [] version = "2" -> {"hostname", "token", "organization", "bucket"}
      [] OTHER -> {"hostname"}

\* Every check that sets parser_error, but those of DB_TYPE and of the port.
Unusable(from, options, url, version) ==
    \/ version \notin {"1", "2", "questdb"}
    \/ \E option \in {"port", "data_retention_days"} :
          Unparsable(options[option], IntOf)
    \/ \E option \in {"tls_enabled", "allow_plaintext_credentials"} :
          Unparsable(options[option], BoolOf)
    \/ options.hostname \in DOMAIN UrlOf /\ (url.path \/ ~IsUrl(url))
    \/ Parsed(options.data_retention_days, IntOf, 365) < 0
    \/ version = "questdb" /\ Given(Get(from, "QUESTDB_TOKEN"))
    \/ version = "questdb" /\ options.downsampling \notin Profiles \cup
                                                        {Unset, ""}
    \/ version # "2" /\ Given(options.username) # Given(options.password)
    \/ \E option \in mandatory_keys(version) : ~Given(options[option])

Ports == 1 .. 65535

parser_error(from, options, url, port, tls) ==
    \/ InvalidType(Get(from, "DB_TYPE"))
    \/ Unusable(from, options, url, Version(options))
    \/ port \notin Ports
    \/ Exposed(options, url.hostname, tls)

Validated(from, options, url, port, tls) ==
    [version |-> Version(options), hostname |-> url.hostname, port |-> port,
     tls_enabled |-> tls,
     parser_error |-> parser_error(from, options, url, port, tls)]

WithPort(from, options, url, port) ==
    Validated(from, options, url, port, tls_enabled(options, url, port))

WithUrl(from, options, url, configured) ==
    WithPort(from, options, url, Port(options, url, configured))

WithOptions(from, options, configured) ==
    WithUrl(from, options, Split(options.hostname), configured)

WithOverrides(from, seen) ==
    WithOptions(from, Options(seen), has_port_config(from, seen))

parse_config(from) == WithOverrides(from, Overridden(from))

(***************************************************************************)
(* The administrator                                                       *)
(***************************************************************************)
BackendInit == settings = [name \in DOMAIN Tried |-> Unset]

Edit(name, text) == settings' = [settings EXCEPT ![name] = text]

BackendNext == \E name \in DOMAIN Tried :
                   \E text \in Tried[name] : Edit(name, text)

BackendSpec == BackendInit /\ [][BackendNext]_settings

(***************************************************************************)
(* Properties                                                              *)
(***************************************************************************)
\* A configuration main() goes on with.
Accepted(from) == ~parse_config(from).parser_error

\* "Takes precedence over QUESTDB_HOSTNAME" (environment.md:12): what the
\* administrator chose, in the order of how explicit it is.
ChosenBackend(from) ==
    IF Given(Get(from, "DB_TYPE")) THEN DBTypes[Get(from, "DB_TYPE")]
    ELSE OrElse(FirstGiven(Get(from, "INFLUXDB_VERSION"), Get(from, "version")),
                IF \E i \in DOMAIN Hosts : Given(Get(from, Hosts[i]))
                THEN "questdb" ELSE "1")

IsQuestDBName(name) ==
    \/ name = "QUESTDB_TOKEN"
    \/ \E v \in DOMAIN questdb_mapping :
           name \in {Head(questdb_mapping[v]), Last(questdb_mapping[v])}

WithoutQuestDB(from) ==
    [name \in DOMAIN from |-> IF IsQuestDBName(name) THEN Unset
                              ELSE from[name]]

\* The host of the first source that has one.
DocumentedHost(from, version) ==
    OrElse(IF version = "questdb"
           THEN OrElse(Get(from, Hosts[1]), Get(from, Hosts[2])) ELSE Unset,
           OrElse(Get(from, "INFLUXDB_HOSTNAME"),
                  OrElse(Get(from, "hostname"), Get(from, "host"))))

\* An accepted configuration is the one the documents describe: the explicit
\* choice of a backend decides, QUESTDB_* variables left over from another
\* backend change nothing at all, and the host is the one of the first source
\* that has one.
Documented(config) ==
    /\ config.version = ChosenBackend(settings)
    /\ config.version # "questdb" =>
          config = parse_config(WithoutQuestDB(settings))
    /\ config.hostname =
           Split(DocumentedHost(settings, config.version)).hostname

DocumentedPrecedence ==
    Accepted(settings) => Documented(parse_config(settings))
=============================================================================
