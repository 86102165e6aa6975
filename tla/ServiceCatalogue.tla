-------------------------- MODULE ServiceCatalogue --------------------------
(***************************************************************************)
(* The services fritzfluxdb knows and what each reports, the link type of  *)
(* a box, and the table all of it is written to: the modules of            *)
(* app/classes/fritzbox/service_definitions, app/classes/fritzbox/model.py *)
(* and the column tables of app/classes/influxdb/handler.py.               *)
(*                                                                         *)
(* A service is a record; a metric is the column it is written to, its     *)
(* type, and its tags: a pair <<tag, text>> for a constant text, or        *)
(* <<tag, EachOwn>> where every element of the answer brings its own.      *)
(* Fritz!OS a.b is the number 100 * a + b; the box's version has been      *)
(* reduced to that form by the setter of FritzBoxConfig.fw_version.        *)
(***************************************************************************)
EXTENDS Naturals, FiniteSets, Sequences

EachOwn == "*"
Latest  == 10000                     \* os_max_versions is None
AnyLink == "any"                     \* link_type is None

Metrics(columns, type, tags) == [column : columns, type : {type}, tags : {tags}]

LuaService(name, from, upto, link, metrics) ==
    [handler |-> "Lua", name |-> name, os_min_versions |-> from,
     os_max_versions |-> upto, link_type |-> link, metrics |-> metrics]

TR069Service(name, link, metrics) ==
    [handler |-> "TR069", name |-> name, os_min_versions |-> 0,
     os_max_versions |-> Latest, link_type |-> link, metrics |-> metrics]

(***************************************************************************)
(* TR-069                                                                  *)
(***************************************************************************)
WLANConfiguration(radio) ==
    TR069Service(radio, AnyLink,
        Metrics({radio \o "_status", radio \o "_ssid",
                 radio \o "_802_11_standard"}, "str", {})
        \cup Metrics({radio \o "_channel", radio \o "_associations"}, "int", {}))

DSLInterface ==
    Metrics({"maxBitRate_downstream", "maxBitRate_upstream",
             "downstream_dsl_sync_max", "upstream_dsl_sync_max",
             "snr_downstream", "snr_upstream", "attenuation_downstream",
             "attenuation_upstream", "severely_errored_seconds",
             "errored_seconds", "crc_errors", "power_downstream",
             "power_upstream"}, "int", {})

Connection ==
    Metrics({"external_ip", "physical_connection_status",
             "last_connection_error"}, "str", {})
    \cup Metrics({"physical_linkuptime"}, "int", {})

WANPPPConnection ==
    TR069Service("WANPPPConnection:1", "DSL",
        Connection \cup Metrics({"last_auth_error", "remote_pop"}, "str", {}))

WANIPConnection == TR069Service("WANIPConnection:1", "Cable", Connection)

WANDSLInterfaceConfig == TR069Service("WANDSLInterfaceConfig", "DSL", DSLInterface)

DeviceInfo ==
    TR069Service("DeviceInfo", AnyLink,
        Metrics({"systemuptime"}, "int", {})
        \cup Metrics({"description", "serialnumber", "model",
                      "softwareversion"}, "str", {}))

OtherTR069 ==
    {TR069Service("WANCommonIFC", AnyLink,
         Metrics({"sendrate", "receiverate", "totalbytessent",
                  "totalbytesreceived", "downstreammax", "upstreammax"},
                 "int", {})
         \cup Metrics({"physicallinkstatus", "physicallinktype"}, "str", {})),
     TR069Service("WANIPConn", AnyLink,
         Metrics({"linkuptime", "ipv6_prefix_length"}, "int", {})
         \cup Metrics({"connection_status", "last_connection_error",
                       "external_ipv6", "ipv6_prefix"}, "str", {})),
     TR069Service("WANCommonInterfaceConfig:1", AnyLink,
         Metrics({"downstreamphysicalmax", "upstreamphysicalmax"}, "int", {})),
     TR069Service("LANEthernetInterfaceConfig:1", AnyLink,
         Metrics({"lan_totalbytesreceived", "lan_totalbytessent"}, "int", {})),
     TR069Service("UserInterface:1", AnyLink,
         Metrics({"upgrade_available"}, "bool", {})
         \cup Metrics({"update_state"}, "str", {})),
     TR069Service("LANHostConfigManagement", AnyLink,
         Metrics({"internal_dns_servers"}, "str", {})),
     TR069Service("X_AVM-DE_RemoteAccess", AnyLink,
         Metrics({"ddns_enabled"}, "bool", {})
         \cup Metrics({"ddns_provider_name", "ddns_domain", "ddns_status_ipv4",
                       "ddns_status_ipv6", "ddns_mode"}, "str", {})),
     TR069Service("X_AVM-DE_MyFritz", AnyLink,
         Metrics({"myfritz_host_name"}, "str", {}))}

tr069_services ==
    OtherTR069
    \cup {WANPPPConnection, WANIPConnection, WANDSLInterfaceConfig, DeviceInfo}
    \cup {WLANConfiguration(r) : r \in {"wlan1", "wlan2", "wlan3", "wlan4"}}

(***************************************************************************)
(* connection_info.py                                                      *)
(***************************************************************************)
DSLInfo ==
    LuaService("DSL Info", 729, Latest, "DSL",
        Metrics({"dsl_line_length"}, "int", {})
        \cup Metrics({"dsl_dslam_vendor", "dsl_dslam_sw_version",
                      "dsl_line_mode"}, "str", {}))

CableInfo ==
    LuaService("Cable Info", 729, Latest, "Cable",
        Metrics({"cable_num_ds_channels", "cable_num_us_channels"}, "int", {})
        \cup Metrics({"cable_cmts_vendor", "cable_modem_version",
                      "cable_line_mode"}, "str", {}))

\* channel_metric: the columns of one direction and one DOCSIS standard.
channel_metric(prefix, keys, type) ==
    Metrics({"cable_channel_" \o prefix \o "_" \o k : k \in keys}, type,
            {<<"id", EachOwn>>})

CableChannels757 ==
    LuaService("Cable Channel Info", 729, 757, "Cable",
        UNION {channel_metric(p, {"type", "power_level", "frequency"}, "str")
               \cup channel_metric(p, {"channel"}, "int") :
               p \in {"ds_docsis31", "ds_docsis30", "us_docsis31",
                      "us_docsis30"}}
        \cup channel_metric("ds_docsis30", {"latency", "mse"}, "float")
        \cup channel_metric("ds_docsis30", {"corrected_errors",
                                            "non_corrected_errors"}, "int")
        \cup channel_metric("us_docsis31", {"multiplex"}, "str")
        \cup channel_metric("us_docsis30", {"multiplex"}, "str"))

CableChannels758 ==
    LuaService("Cable Channel Info", 758, Latest, "Cable",
        UNION {channel_metric(p, {"power_level", "modulation", "frequency"},
                              "str") :
               p \in {"ds_docsis31", "ds_docsis30", "us_docsis31",
                      "us_docsis30"}}
        \cup channel_metric("ds_docsis31", {"plc", "mer", "fft"}, "str")
        \cup channel_metric("ds_docsis31", {"non_corrected_errors"}, "int")
        \cup channel_metric("ds_docsis30", {"corrected_errors",
                                            "non_corrected_errors"}, "int")
        \cup channel_metric("ds_docsis30", {"latency", "mse"}, "float")
        \cup channel_metric("us_docsis31", {"activesub"}, "int")
        \cup channel_metric("us_docsis31", {"fft"}, "str")
        \cup channel_metric("us_docsis30", {"multiplex"}, "str"))

(***************************************************************************)
(* vpn_data.py, logs.py: a service for each range of versions              *)
(***************************************************************************)
vpn_connection_metric(address_metrics, vpn_type) ==
    Metrics({"vpn_user_connected", "vpn_user_active"}, "bool",
            {<<"name", EachOwn>>, <<"vpn_type", vpn_type>>})
    \cup Metrics({"vpn_user_num_active"}, "int", {<<"vpn_type", vpn_type>>})
    \cup IF address_metrics
         THEN Metrics({"vpn_user_virtual_address", "vpn_user_remote_address"},
                      "str", {<<"name", EachOwn>>, <<"vpn_type", vpn_type>>})
         ELSE {}

VPNUsers738 ==
    LuaService("VPN Users", 729, 738, AnyLink, vpn_connection_metric(TRUE, "IPSec"))

VPNUsersIPSec ==
    LuaService("VPN Users - IPSec", 739, Latest, AnyLink,
               vpn_connection_metric(TRUE, "IPSec"))

VPNUsersWireGuard ==
    LuaService("VPN Users - WireGuard", 739, Latest, AnyLink,
               vpn_connection_metric(TRUE, "WireGuard"))

LogTypes == {"System", "Internet connection", "Telephony", "WLAN", "USB Devices"}

LogService(log_type, from, upto) ==
    LuaService(log_type \o " logs", from, upto, AnyLink,
               Metrics({"log_entry"}, "str", {<<"log_type", log_type>>}))

LogServices == {LogService(t, 729, 738) : t \in LogTypes}
               \cup {LogService(t, 739, Latest) : t \in LogTypes}

(***************************************************************************)
(* system_stats.py, telephone_list.py, network_hosts.py                    *)
(***************************************************************************)
SystemStats ==
    LuaService("System Stats", 729, Latest, AnyLink,
        Metrics({"cpu_temp", "cpu_utilization", "ram_usage_fixed",
                 "ram_usage_dynamic", "ram_usage_free"}, "int", {}))

EnergyStats ==
    LuaService("Energy Stats", 729, Latest, AnyLink,
        Metrics({"energy_consumption"}, "int", {<<"name", EachOwn>>}))

CallList ==
    LuaService("Phone call list", 729, Latest, AnyLink,
        Metrics({"call_list_type", "call_list_caller_name",
                 "call_list_caller_number", "call_list_caller_location",
                 "call_list_extension", "call_list_number_called"}, "str",
                {<<"uid", EachOwn>>})
        \cup Metrics({"call_list_duration"}, "int", {<<"uid", EachOwn>>}))

HostTags == {<<"uid", EachOwn>>, <<"name", EachOwn>>}

ActiveHosts ==
    LuaService("Active network hosts", 729, Latest, AnyLink,
        Metrics({"active_hosts_name", "active_hosts_mac", "active_hosts_type",
                 "active_hosts_parent", "active_hosts_port",
                 "active_hosts_ipv4"}, "str", {<<"uid", EachOwn>>})
        \cup Metrics({"active_hosts_ipv4_last_used", "active_hosts_downstream",
                      "active_hosts_upstream"}, "int", HostTags)
        \cup Metrics({"active_hosts_additional_text", "active_hosts_frequency"},
                     "str", HostTags)
        \cup Metrics({"active_hosts_is_mesh"}, "bool", HostTags)
        \cup Metrics({"num_active_host"}, "int", {}))

PassiveHosts ==
    LuaService("Passive network hosts", 729, Latest, AnyLink,
        Metrics({"passive_hosts_name", "passive_hosts_mac",
                 "passive_hosts_port", "passive_hosts_ipv4"}, "str",
                {<<"uid", EachOwn>>})
        \cup Metrics({"num_passive_host"}, "int", {}))

(***************************************************************************)
(* homeauto.py: every metric of a device is tagged with its name           *)
(***************************************************************************)
OfDevice(columns, type) == Metrics(columns, type, {<<"name", EachOwn>>})

DeviceBase ==
    OfDevice({"ha_fw_version", "ha_product_name", "ha_manufacturer",
              "ha_devicefunctions"}, "str")
    \cup OfDevice({"ha_device_present"}, "int")

DeviceMeters ==
    OfDevice({"ha_battery_percent", "ha_battery_low"}, "int")
    \cup OfDevice({"ha_temperature", "ha_temperature_celsius",
                   "ha_temperature_offset", "ha_powermeter_power",
                   "ha_powermeter_energy", "ha_powermeter_voltage"}, "float")

DeviceSwitches ==
    OfDevice({"ha_switch_state", "ha_switch_lock", "ha_switch_devicelock",
              "ha_simpleonoff_state", "ha_levelcontrol_level"}, "int")
    \cup OfDevice({"ha_switch_mode", "ha_hun_fun_interfaces",
                   "ha_hun_fun_unittype"}, "str")

DeviceColors ==
    OfDevice({"ha_colorcontrol_current_mode", "ha_colorcontrol_hue",
              "ha_colorcontrol_saturation", "ha_colorcontrol_temperature",
              "ha_alert"}, "int")

DeviceHeating ==
    OfDevice({"ha_heating_tist", "ha_heating_tsoll", "ha_heating_komfort",
              "ha_heating_absenk"}, "float")
    \cup OfDevice({"ha_heating_lock", "ha_heating_devicelock",
                   "ha_heating_errorcode"}, "int")

DeviceHeatingPlan ==
    OfDevice({"ha_heating_nextchange_tchange"}, "float")
    \cup OfDevice({"ha_heating_windowopenactiv",
                   "ha_heating_windowopenactiveendtime",
                   "ha_heating_boostactive", "ha_heating_boostactiveendtime",
                   "ha_heating_batterylow", "ha_heating_battery",
                   "ha_heating_nextchange_endperiod",
                   "ha_heating_summeractive", "ha_heating_holidayactive"},
                  "int")

HomeAutomation ==
    LuaService("Home Automation", 729, Latest, AnyLink,
        DeviceBase \cup DeviceMeters \cup DeviceSwitches \cup DeviceColors
        \cup DeviceHeating \cup DeviceHeatingPlan)

lua_services ==
    {DSLInfo, CableInfo, CableChannels757, CableChannels758, VPNUsers738,
     VPNUsersIPSec, VPNUsersWireGuard, SystemStats, EnergyStats, CallList,
     ActiveHosts, PassiveHosts, HomeAutomation} \cup LogServices

(***************************************************************************)
(* model.py: the link type of a box                                        *)
(***************************************************************************)
Unreported == "none"                 \* no model name, no access type

NoModemModels == {4020, 4040, 4050, 4060, 4630, 4690}
FiberModels   == {5490, 5491, 5530, 5590, 5690}
CableModels   == {6340, 6360, 6430, 6490, 6590, 6591, 6660, 6670, 6690}
MobileModels  == {6810, 6820, 6825, 6840, 6842, 6850, 6860, 6890}
DSLModels     == {3272, 3370, 3390, 3490, 7272, 7312, 7320, 7330, 7340, 7360,
                  7362, 7369, 7390, 7412, 7430, 7490, 7510, 7520, 7530, 7560,
                  7580, 7581, 7582, 7583, 7590, 7630, 7682, 7690}

\* A model is its number and what follows it: <<5690, "Pro">>.
MixedModel(model) == model = <<5690, "Pro">> \/ model[1] = 5550

ModelLinkType(model) ==
    CASE MixedModel(model)           -> "Other"
      [] model[1] \in NoModemModels  -> "NoModem"
      [] model[1] \in FiberModels    -> "Fiber"
      [] model[1] \in CableModels    -> "Cable"
      [] model[1] \in MobileModels   -> "Mobile"
      [] model[1] \in DSLModels      -> "DSL"
      [] OTHER                       -> "Other"

get_link_type(model, access_type) ==
    IF access_type \notin {Unreported, "Other"} THEN access_type
    ELSE IF model = Unreported THEN "Other" ELSE ModelLinkType(model)

(***************************************************************************)
(* influxdb/handler.py: the columns of the table and their classes         *)
(***************************************************************************)
TagColumns == {"box", "id", "log_type", "name", "uid", "vpn_type"}

InternalColumns == {"message", "fritzfluxdb_setting_timezone"}

questdb_type == [int |-> "LONG", float |-> "DOUBLE", bool |-> "BOOLEAN",
                 str |-> "VARCHAR"]

AllMetrics == UNION {s.metrics : s \in tr069_services \cup lua_services}

MetricColumns == {m.column : m \in AllMetrics}

\* Pairs of a column and its type: where two services disagree, two of them.
questdb_expected_columns ==
    {<<c, "SYMBOL">> : c \in TagColumns}
    \cup {<<c, "VARCHAR">> : c \in InternalColumns}
    \cup {<<m.column, questdb_type[m.type]>> : m \in AllMetrics}

EventMetrics == {"call_list_duration", "message"}

CounterMetrics ==
    {"cable_channel_ds_docsis30_corrected_errors",
     "cable_channel_ds_docsis30_non_corrected_errors",
     "cable_channel_ds_docsis31_non_corrected_errors", "crc_errors",
     "errored_seconds", "ha_powermeter_energy", "lan_totalbytesreceived",
     "lan_totalbytessent", "severely_errored_seconds", "totalbytesreceived",
     "totalbytessent"}

GaugeMetrics ==
    {"active_hosts_downstream", "active_hosts_upstream",
     "attenuation_downstream", "attenuation_upstream",
     "cable_channel_ds_docsis30_latency", "cable_channel_ds_docsis30_mse",
     "cable_num_ds_channels", "cable_num_us_channels", "cpu_temp",
     "cpu_utilization", "downstream_dsl_sync_max", "downstreammax",
     "downstreamphysicalmax", "dsl_line_length", "energy_consumption",
     "ha_battery_percent", "ha_heating_absenk", "ha_heating_battery",
     "ha_heating_komfort", "ha_heating_nextchange_tchange", "ha_heating_tist",
     "ha_heating_tsoll", "ha_levelcontrol_level", "ha_powermeter_power",
     "ha_powermeter_voltage", "ha_temperature", "ha_temperature_celsius",
     "ha_temperature_offset", "linkuptime", "maxBitRate_downstream",
     "maxBitRate_upstream", "num_active_host", "num_passive_host",
     "physical_linkuptime", "power_downstream", "power_upstream",
     "ram_usage_dynamic", "ram_usage_fixed", "ram_usage_free", "receiverate",
     "sendrate", "snr_downstream", "snr_upstream", "systemuptime",
     "upstream_dsl_sync_max", "upstreammax", "upstreamphysicalmax",
     "vpn_user_num_active"}
    \cup {"wlan1_associations", "wlan1_channel", "wlan2_associations",
          "wlan2_channel", "wlan3_associations", "wlan3_channel",
          "wlan4_associations", "wlan4_channel"}

StateMetrics ==
    {"active_hosts_ipv4_last_used", "active_hosts_is_mesh",
     "cable_channel_ds_docsis30_channel", "cable_channel_ds_docsis31_channel",
     "cable_channel_us_docsis30_channel", "cable_channel_us_docsis31_channel",
     "ddns_enabled", "ha_alert", "ha_battery_low",
     "ha_colorcontrol_current_mode", "ha_device_present",
     "ha_heating_batterylow", "ha_heating_boostactive",
     "ha_heating_boostactiveendtime", "ha_heating_devicelock",
     "ha_heating_errorcode", "ha_heating_holidayactive", "ha_heating_lock",
     "ha_heating_nextchange_endperiod", "ha_heating_summeractive",
     "ha_heating_windowopenactiv", "ha_heating_windowopenactiveendtime",
     "ha_simpleonoff_state", "ha_switch_devicelock", "ha_switch_lock",
     "ha_switch_state", "upgrade_available", "vpn_user_active",
     "vpn_user_connected"}

questdb_metric_class(column, sql_type) ==
    CASE column \in EventMetrics                        -> "event"
      [] column \in StateMetrics                        -> "state"
      [] sql_type = "BOOLEAN"                           -> "state"
      [] column \in CounterMetrics                      -> "counter"
      [] column \in GaugeMetrics                        -> "gauge"
      [] OTHER                                          -> "unknown"

RollupDimensions == {"box", "id", "name", "vpn_type"}

(***************************************************************************)
(* What the tables must agree on, and no type checker sees.                *)
(***************************************************************************)

\* Services that share a column agree on its type, so that the first of two
\* boxes to write decides nothing: QuestDB would refuse the lines of the other.
ASSUME ColumnsAgree ==
    \A c, d \in questdb_expected_columns : c[1] = d[1] => c = d

\* Every tag has a column of the table, and no metric has the name of one.
ASSUME TagsHaveColumns ==
    /\ \A m \in AllMetrics : {t[1] : t \in m.tags} \subseteq TagColumns
    /\ MetricColumns \cap (TagColumns \cup InternalColumns) = {}

\* A column is of one class, and what has a class is a column.
ASSUME ClassesAreDisjoint ==
    /\ GaugeMetrics \cap (CounterMetrics \cup StateMetrics \cup EventMetrics) = {}
    /\ CounterMetrics \cap (StateMetrics \cup EventMetrics) = {}
    /\ GaugeMetrics \cup CounterMetrics \cup StateMetrics \cup EventMetrics
           \subseteq MetricColumns \cup InternalColumns

\* Only numbers are summed up, and the last value of a counter is that of one
\* series: the rollup keeps every tag a counter has.
ASSUME RollupIsMeaningful ==
    \A m \in AllMetrics :
        /\ m.column \in GaugeMetrics \cup CounterMetrics =>
               m.type \in {"int", "float"}
        /\ m.column \in CounterMetrics =>
               {t[1] : t \in m.tags} \subseteq RollupDimensions

\* Services with a series in common are for different versions or links.
Apart(c, d) ==
    \/ c.os_max_versions < d.os_min_versions
    \/ d.os_max_versions < c.os_min_versions
    \/ c.link_type # d.link_type /\ AnyLink \notin {c.link_type, d.link_type}

\* From Fritz!OS 7.29 on each version and link has a service with some column
\* of a service that is for this link.
NoGap(services) ==
    \A c \in services :
        LET variants == {d \in services :
                /\ d.link_type \in {AnyLink, c.link_type}
                /\ {m.column : m \in d.metrics} \cap {m.column : m \in c.metrics}
                       # {}}
        IN  \A v \in 729 .. Latest : \E d \in variants :
                d.os_min_versions <= v /\ v <= d.os_max_versions

ASSUME VersionsFit ==
    /\ \A c, d \in lua_services :
           c # d /\ c.metrics \cap d.metrics # {} => Apart(c, d)
    /\ NoGap(lua_services)

\* The numbers no class covers: the rollup leaves them out.
ASSUME OnlyTheseUnclassified ==
    {c[1] : c \in {d \in questdb_expected_columns :
                       /\ d[2] \in {"LONG", "DOUBLE"}
                       /\ questdb_metric_class(d[1], d[2]) = "unknown"}} =
        {"cable_channel_us_docsis31_activesub", "ha_colorcontrol_hue",
         "ha_colorcontrol_saturation", "ha_colorcontrol_temperature",
         "ipv6_prefix_length"}
=============================================================================
