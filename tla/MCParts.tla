------------------------------ MODULE MCParts ------------------------------
(***************************************************************************)
(* Instances for TLC of the parts that share no variable with the others:  *)
(* which services a box is asked for, what is read from a response, what   *)
(* the poller reports of the box's lines and the daemon of its own log,    *)
(* the lines a request is made of and where it goes, what a panel shows of *)
(* them later, and what an administrator does to the tables.  A behaviour  *)
(* moves one of them, so their states add up instead of multiplying.       *)
(***************************************************************************)
EXTENDS LogForwarding, MeasurementTracking, MCDiscovery, QuestDBAdmin,
        BackendConfig, LineBundling, RollupQueries, ValueExtraction

VARIABLE part

(***************************************************************************)
(* Measurements: names that differ in a dot only, times of one second and  *)
(* of one millisecond, every type of a value, and tags that claim the box. *)
(***************************************************************************)
Plain == [key |-> <<"a", ".", "b">>, data_type |-> "any",
          value |-> [type |-> "text", number |-> 0], box_tag |-> "box",
          additional_tags |-> <<>>, timestamp |-> 8,
          timestamp_precision |-> "s", measurement |-> "none"]

Number(type, n) == [type |-> type, number |-> n]

GivenInputs ==
    {Plain,
     [Plain EXCEPT !.timestamp = 11, !.value = Number("digits", 1)],
     [Plain EXCEPT !.key = <<"a", "_", "b">>, !.data_type = "bool",
                   !.value = Number("int", 9)],
     [Plain EXCEPT !.timestamp_precision = "ms", !.timestamp = 4,
                   !.additional_tags = [uid |-> "1"], !.data_type = "str"],
     [Plain EXCEPT !.timestamp = 9, !.additional_tags = [box |-> "other"],
                   !.key = <<"c">>],
     [Plain EXCEPT !.data_type = "int", !.value = Number("float", 2)],
     [Plain EXCEPT !.measurement = "hosts", !.data_type = "float",
                   !.value = Number("digits", 1)],
     [Plain EXCEPT !.data_type = "float", !.value = Number("nonfinite", 0)]}

LeastInt == -2

(***************************************************************************)
(* Settings: two families of variables, an ini file with an old name in    *)
(* it, an empty variable, a URL, an invalid type and half a login.         *)
(***************************************************************************)
Either(text) == {"unset", text}

SettingTexts ==
    [DB_TYPE |-> {"unset", "questdb", "influxdb_v1", "other"},
     INFLUXDB_VERSION |-> Either("1"),
     version |-> Either("questdb"),
     QUESTDB_HOSTNAME |-> {"unset", "quest", "https://quest"},
     QUESTDB_HOST |-> {"unset", "", "localhost"},
     INFLUXDB_HOSTNAME |-> Either("influx"),
     hostname |-> Either("file"),
     host |-> Either("oldfile"),
     QUESTDB_PORT |-> Either("443"),
     port |-> {"unset", "8087", "x"},
     QUESTDB_USERNAME |-> Either("user"),
     QUESTDB_PASSWORD |-> Either("secret"),
     ssl |-> Either("true"),
     database |-> {"db"}]

Numbers == [n \in {"443", "8087"} |-> IF n = "443" THEN 443 ELSE 8087]

Urls == [u \in {"https://quest"} |->
            [scheme |-> "https", hostname |-> "quest", port |-> 0,
             path |-> FALSE]]

Booleans == [b \in {"true", "false"} |-> b = "true"]

(***************************************************************************)
(* Responses: elements that can be read, that lack something and that are  *)
(* of another kind; a HAN-FUN device and its unit; a unit without device.  *)
(***************************************************************************)
Unit(name, fields) ==
    Dict([name |-> Txt(name), functionbitmask |-> List(<<"HAN-FUN-Unit">>)]
         @@ fields)

Responses ==
    [ha_fw_version |->
        {Dict([id |-> Txt("1"), functionbitmask |-> List(<<"HAN-FUN">>),
               fwversion |-> Txt("5")]),
         Unit("unit", [etsiunitinfo |-> Dict([etsideviceid |-> Txt("1")]),
                       fwversion |-> Txt("0")]),
         Unit("orphan", <<>>), None,
         Unit("odd", [etsiunitinfo |-> Dict([etsideviceid |-> Dict(<<>>)])]),
         Dict([name |-> Txt("plug"), fwversion |-> Txt("4")]),
         Dict([id |-> Txt("2")])},
     ha_temperature |->
        {Dict([name |-> Txt("a"), temperature |-> Dict(t)]) :
            t \in {[celsius |-> Num(210), offset |-> Num(5)],
                   [celsius |-> None, offset |-> Num(5)],
                   [celsius |-> Txt("x"), offset |-> Num(5)]}},
     ha_heating_tsoll |->
        {Dict([name |-> Txt("a"), hkr |-> Dict([tsoll |-> n])]) :
            n \in {Num(7), Num(17), Num(57), Num(253), Txt("x"), None}}
        \cup {Dict([name |-> Txt("b")])},
     ds_power_level |->
        {Dict([channelid |-> Num(1), powerlevel |-> Num(0)]),
         Dict([channel |-> Num(2), powerlevel |-> Txt("x")]),
         Dict([channelid |-> Num(0), frequency |-> Txt("f")]),
         Dict([powerlevel |-> Num(3)]), Txt("x")},
     vpn_user_connected |->
        {Dict([name |-> Txt(""), id |-> Num(4), connected |-> Txt("on")]),
         Dict([name |-> Txt("u"), connected |-> Txt("?")]), None,
         Dict([connected |-> Num(0)])},
     active_hosts_downstream |->
        {Dict([uid |-> Txt("u"), properties |->
                 List(<<Dict([txt |-> Txt("Mesh")]),
                        Dict([txt |-> <<"rate", Num(50)>>])>>)]),
         Dict([mac |-> Txt("m"), properties |->
                 List(<<None, Dict([txt |-> <<"rate", None>>])>>)]),
         Dict([name |-> Txt("n"), properties |-> Txt("none")]), Txt("x")},
     energy_consumption |->
        {Dict([name |-> Txt("total"), actperc |-> Num(0)]),
         Dict([name |-> Txt("cpu")]), Dict([lan |-> List(<<>>)]), Num(1)},
     log_entry |->
        {Dict([date |-> Num(1), msg |-> Txt("m")]),
         Dict([date |-> Txt("x"), msg |-> Txt("n")]),
         Dict([date |-> Num(2)]), List(<<Num(1)>>)},
     call_list_duration |->
        {Dict([datum |-> Num(1), dauer |-> Num(5)]),
         Dict([datum |-> Num(2), dauer |-> Txt("x")]),
         Dict([dauer |-> Num(5)])}]

(***************************************************************************)
(* Two boxes, a row without a gauge or without a counter, with another one *)
(* in its place or with none, a row of another service, and a counter that *)
(* starts again; two buckets make a sample.                                *)
(***************************************************************************)
Row(box, name, gauge, counter, beside_gauge, beside_counter) ==
    [box |-> box, name |-> name, gauge |-> gauge, counter |-> counter,
     beside_gauge |-> beside_gauge, beside_counter |-> beside_counter]

Written ==
    {Row("a", "none", Null, 2, TRUE, FALSE), Row("a", "none", 1, 5, FALSE, TRUE),
     Row("a", "none", 4, Null, FALSE, TRUE), Row("a", "n", 1, Null, FALSE, FALSE),
     Row("b", "none", Null, 9, FALSE, FALSE)}

\* The ranges of days an administrator may name.
FirstTwo == {1 .. 2}

(***************************************************************************)
(* One part at a time                                                      *)
(***************************************************************************)
line_vars  == <<version, batch>>
parts_vars == <<part, discovery_vars, extraction_vars, vars, log_vars, line_vars,
                settings, rollup_vars, admin_vars>>

PartsInit ==
    /\ part \in {"discovery", "extraction", "tracking", "log", "lines",
                 "backend", "rollups", "admin"}
    /\ DiscoveryInit /\ ExtractionInit
    /\ Init /\ LogInit /\ BundlingInit /\ BackendInit
    /\ RollupInit /\ AdminInit
    /\ part # "discovery" =>
           firmware = 0 /\ device = CHOOSE box \in Boxes : TRUE
    /\ part # "extraction" => metric = "log_entry"
    /\ part # "log" => ~config_due
    /\ part # "lines" => version = "1"
    /\ part # "rollups" => last_skips_null

PartsNext ==
    /\ UNCHANGED part
    /\ \/ /\ part = "discovery" /\ DiscoveryNext
          /\ UNCHANGED <<extraction_vars, vars, log_vars, line_vars,
                         settings, rollup_vars, admin_vars>>
       \/ /\ part = "extraction" /\ ExtractionNext
          /\ UNCHANGED <<discovery_vars, vars, log_vars, line_vars,
                         settings, rollup_vars, admin_vars>>
       \/ /\ part = "tracking" /\ Next
          /\ UNCHANGED <<discovery_vars, extraction_vars, log_vars, line_vars,
                         settings, rollup_vars, admin_vars>>
       \/ /\ part = "log" /\ LogNext
          /\ UNCHANGED <<discovery_vars, extraction_vars, vars, line_vars,
                         settings, rollup_vars, admin_vars>>
       \/ /\ part = "lines" /\ BundlingNext
          /\ UNCHANGED <<discovery_vars, extraction_vars, vars, log_vars,
                         settings, rollup_vars, admin_vars>>
       \/ /\ part = "backend" /\ BackendNext
          /\ UNCHANGED <<discovery_vars, extraction_vars, vars, log_vars,
                         line_vars, rollup_vars, admin_vars>>
       \/ /\ part = "rollups" /\ RollupNext
          /\ UNCHANGED <<discovery_vars, extraction_vars, vars, log_vars,
                         line_vars, settings, admin_vars>>
       \/ /\ part = "admin" /\ AdminNext
          /\ UNCHANGED <<discovery_vars, extraction_vars, vars, log_vars,
                         line_vars, settings, rollup_vars>>

PartsSpec == PartsInit /\ [][PartsNext]_parts_vars
=============================================================================
