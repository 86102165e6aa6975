--------------------------- MODULE ValueExtraction ---------------------------
(***************************************************************************)
(* What becomes of a response of the Lua interface: extract_value of       *)
(* FritzBoxLuaHandler, grab of app/common.py, and the functions of         *)
(* app/classes/fritzbox/service_definitions that read one element of a     *)
(* list.  One metric stands for each way to read one; the catalogue of all *)
(* of them is ServiceCatalogue, what is done with repeated ones the        *)
(* subject of MeasurementTracking, and FritzMeasurement that of            *)
(* LineBundling.                                                           *)
(*                                                                         *)
(* A value is a tuple that begins with its kind.  A text that is a number  *)
(* is written as the number; a dict of connections as the list of its      *)
(* values.  Names in a response are lower case, without the @ of an XML    *)
(* attribute.                                                              *)
(***************************************************************************)
EXTENDS Integers, Sequences, SequencesExt, FiniteSets, FiniteSetsExt

CONSTANTS
    Elements,           \* for each metric, what a response may list
    MaxElements         \* bound on the elements of a response

VARIABLES
    metric,             \* a member of value_instances
    elements            \* what the response lists, in its order

extraction_vars == <<metric, elements>>

None    == <<"none">>
Raised  == <<"raised">>         \* an exception, caught by extract_value
Num(n)  == <<"number", n>>
Txt(t)  == <<"text", t>>
Dict(f) == <<"dict", f>>
List(s) == <<"list", s>>

Kind(v) == v[1]

\* `v or w'
Or(v, w) ==
    IF v \in {None, Num(0), Txt("")} \/ (Kind(v) \in {"dict", "list"} /\ v[2] = <<>>)
    THEN w ELSE v

\* int(); None and a text that is no number are TypeError and ValueError.
int(v) == IF Kind(v) = "number" THEN v ELSE Raised

str(v) == IF Kind(v) = "number" THEN <<"digits", v[2]>> ELSE v

\* data.get(key): only a dict has it.
get(v, key) ==
    IF Kind(v) # "dict" THEN Raised
    ELSE IF key \in DOMAIN v[2] THEN v[2][key] ELSE None

(***************************************************************************)
(* app/common.py                                                           *)
(***************************************************************************)
\* The indices a path names, from the end or from the start.
IndexOf(key, list) == CASE key = "-1" -> Len(list) [] key = "0" -> 1 [] OTHER -> 0

Step(v, key) ==
    CASE Kind(v) = "dict" -> get(v, key)
      [] Kind(v) = "list" -> IF IndexOf(key, v[2]) \in DOMAIN v[2]
                             THEN v[2][IndexOf(key, v[2])] ELSE None
      [] OTHER -> None

grab(structure, path, fallback) ==
    LET found == FoldLeft(Step, structure, path)
    IN  IF found = None THEN fallback ELSE found

parse_bool(v) ==
    CASE Kind(v) = "number" -> Num(IF v[2] = 0 THEN 0 ELSE 1)
      [] v \in {Txt("true"), Txt("on")} -> Num(1)
      [] v \in {Txt("false"), Txt("off")} -> Num(0)
      [] OTHER -> Raised

(***************************************************************************)
(* Home automation                                                         *)
(***************************************************************************)
HomeAutomationMetrics == {"ha_fw_version", "ha_temperature", "ha_heating_tsoll"}

force_int(data, path, default) ==
    IF int(grab(data, path, Num(default))) = Raised THEN Num(default)
    ELSE grab(data, path, Num(default))

\* In tenths of a degree, so that half a degree is a number; 253 and 254 are
\* the codes for off and on.
avm_temp_map(value, input_min, input_max, output_min, output_max) ==
    Num(IF value \in {253, 254} THEN 10 * value
        ELSE IF value < input_min THEN 10 * output_min
        ELSE IF value > input_max THEN 10 * output_max
        ELSE (10 * (value - input_min) * (output_max - output_min))
                 \div (input_max - input_min) + 10 * output_min)

get_ha_temperature(data) ==
    LET celsius == int(grab(data, <<"temperature", "celsius">>, None))
        offset  == int(grab(data, <<"temperature", "offset">>, None))
    IN  IF Raised \in {celsius, offset} THEN Raised
        ELSE Num(celsius[2] + offset[2])

\* The classes of a device that decide something: bits 0 and 13 of its mask.
decode_function_bitmask(mask) == IF Kind(mask) = "list" THEN mask[2] ELSE <<>>

Is(device, class) ==
    /\ Kind(device) = "dict"
    /\ Contains(decode_function_bitmask(get(device, "functionbitmask")), class)

Parent(device) == grab(device, <<"etsiunitinfo", "etsideviceid">>, None)

WithId(devices, id) == {i \in DOMAIN devices : get(devices[i], "id") = id}

\* A mutant of devices_by_id: only what was listed before is looked at.
devices_so_far(devices, device) ==
    SubSeq(devices, 1, SelectInSeq(devices, LAMBDA d : d = device) - 1)

devices_by_id(devices, device) == devices

\* Of several devices with one id the last is kept.
DeviceOf(devices, id) ==
    IF WithId(devices, id) = {} THEN Dict(<<>>)
    ELSE devices[Max(WithId(devices, id))]

WithFirmware(device, parent) ==
    IF get(parent, "fwversion") = None THEN device
    ELSE Dict([key \in DOMAIN device[2] \cup {"fwversion"} |->
                  IF key = "fwversion" THEN get(parent, key)
                  ELSE device[2][key]])

Reformatted(devices, device) ==
    IF Is(device, "HAN-FUN-Unit")
    THEN WithFirmware(device,
                      DeviceOf(devices_by_id(devices, device), Parent(device)))
    ELSE device

\* A list of one device that is no dict is an empty list.
Kept(device) ==
    /\ Kind(device) = "dict"
    /\ ~Is(device, "HAN-FUN")
    /\ Is(device, "HAN-FUN-Unit") => Parent(device) # None

ReformatAll(devices) ==
    [i \in DOMAIN devices |->
        IF Kept(devices[i]) THEN <<Reformatted(devices, devices[i])>> ELSE <<>>]

reformat_homeauto_device_list(devices) == FlattenSeq(ReformatAll(devices))

\* device.get() fails for a device that is no dict, as an empty element is, and
\* devices_by_id.get() for an id that cannot be hashed.
Unreadable(devices, device) ==
    \/ Kind(device) # "dict" /\ Len(devices) > 1
    \/ /\ Is(device, "HAN-FUN-Unit") /\ Kept(device)
       /\ Kind(Parent(device)) \in {"dict", "list"}

\* etsideviceid is the id of a HAN-FUN device, and of nothing else: a unit's
\* device is looked up by its id alone.
ASSUME ParentsAreDevices ==
    \A m \in HomeAutomationMetrics \cap DOMAIN Elements : \A d, e \in Elements[m] :
        Is(e, "HAN-FUN-Unit") /\ Kept(e) /\ get(d, "id") = Parent(e)
            => Is(d, "HAN-FUN")

(***************************************************************************)
(* The other functions for one element                                     *)
(***************************************************************************)
NameOf(data) == [name |-> get(data, "name")]

channel_id_tag(data) ==
    LET id == Or(Or(get(data, "channelid"), get(data, "channel")),
                 get(data, "frequency"))
    IN  [id |-> IF id \in {Raised, None, Txt("")} THEN Txt("unknown")
                ELSE str(id)]

host_uid_name_tag(data) ==
    IF Kind(data) # "dict" THEN [uid |-> Txt("unknown")]
    ELSE [uid  |-> str(Or(Or(get(data, "uid"), get(data, "mac")),
                          Txt("unknown"))),
          name |-> str(Or(get(data, "name"), Txt("")))]

vpn_user_tags(data) ==
    IF Kind(data) # "dict" THEN [name |-> Raised]
    ELSE [name |-> str(Or(Or(get(data, "name"), get(data, "id")),
                          Txt("unknown")))]

Texts(data) ==
    LET properties == get(data, "properties")
        withText(p) == Kind(p) = "dict" /\ Kind(get(p, "txt")) \in {"text", "rate"}
    IN  IF Kind(properties) # "list" THEN <<>>
        ELSE [i \in DOMAIN SelectSeq(properties[2], withText) |->
                 get(SelectSeq(properties[2], withText)[i], "txt")]

\* A text that names a rate is <<"rate", downstream>>; one with neither GHz
\* nor bit in it is passed over.
active_hosts_downstream(data) ==
    LET rates == SelectSeq(Texts(data), LAMBDA t : Kind(t) = "rate")
    IN  IF Kind(data) # "dict" \/ rates = <<>> THEN Num(0)
        ELSE IF Kind(rates[1][2]) = "number" THEN rates[1][2] ELSE Num(0)

energy_consumption_value(data) ==
    IF get(data, "actperc") = None THEN Raised ELSE get(data, "actperc")

\* The body of channel_metric: missing is an error, 0 is a level.
channel_value(data) ==
    IF get(data, "powerlevel") = None THEN Raised ELSE get(data, "powerlevel")

parse_modern_log_message(data) ==
    IF get(data, "msg") = None THEN Raised ELSE str(get(data, "msg"))

\* date and time are one here; strptime() accepts the numbers.
parse_modern_log_timestamp(data) == int(Or(get(data, "date"), None))

\* An entry of the call list in minutes, 0 if that cannot be read.
get_call_duration(field) == IF int(field) = Raised THEN Num(0) ELSE field

(***************************************************************************)
(* response_parser and extract_value                                       *)
(***************************************************************************)
\* request() catches what the parser of a response raises, and has nothing then:
\* one unreadable device costs all of them, as one call without a date makes
\* CallLog give up on the whole list.
response_parser(m, list) ==
    CASE m \in HomeAutomationMetrics ->
            IF \E i \in DOMAIN list : Unreadable(list, list[i])
            THEN Raised ELSE List(reformat_homeauto_device_list(list))
      [] m = "call_list_duration" ->
            IF \E i \in DOMAIN list : int(get(list[i], "datum")) = Raised
            THEN Raised ELSE List(list)
      [] OTHER -> List(list)

\* A filter that fails excludes as well.
exclude_filter_function(m, data) ==
    CASE m = "ha_temperature" ->
            \/ grab(data, <<"temperature", "celsius">>, None) = None
            \/ grab(data, <<"temperature", "offset">>, None) = None
      [] m = "ha_heating_tsoll" ->
            ~(Kind(data) = "dict" /\ "hkr" \in DOMAIN data[2])
      [] m = "energy_consumption" ->
            Kind(data) = "dict" /\ "lan" \in DOMAIN data[2]
      [] OTHER -> FALSE

\* value_function, or the data_path of the element with its fallback.
Value(m, data) ==
    CASE m = "ha_fw_version" -> grab(data, <<"fwversion">>, Txt(""))
      [] m = "ha_temperature" -> get_ha_temperature(data)
      [] m = "ha_heating_tsoll" ->
            avm_temp_map(force_int(data, <<"hkr", "tsoll">>, 253)[2], 16, 56, 8, 28)
      [] m = "ds_power_level" -> channel_value(data)
      [] m = "vpn_user_connected" -> parse_bool(get(data, "connected"))
      [] m = "active_hosts_downstream" -> active_hosts_downstream(data)
      [] m = "energy_consumption" -> energy_consumption_value(data)
      [] m = "log_entry" -> parse_modern_log_message(data)
      [] m = "call_list_duration" -> get_call_duration(get(data, "dauer"))

tags_function(m, data) ==
    CASE m \in HomeAutomationMetrics \cup {"energy_consumption"} -> NameOf(data)
      [] m = "ds_power_level" -> channel_id_tag(data)
      [] m = "vpn_user_connected" -> vpn_user_tags(data)
      [] m = "active_hosts_downstream" -> host_uid_name_tag(data)
      [] m = "log_entry" -> <<>>
      [] m = "call_list_duration" -> [uid |-> data]

timestamp_function(m, data) ==
    CASE m = "log_entry" -> parse_modern_log_timestamp(data)
      [] m = "call_list_duration" -> get(data, "datum")
      [] OTHER -> Num(0)

\* metric_value as the data_type of the metric.
Typed(m, v) ==
    CASE m \in {"ha_fw_version", "log_entry"} -> str(v)
      [] m = "vpn_user_connected" -> parse_bool(v)
      [] OTHER -> int(v)

Measured(value, tags, time) ==
    IF \/ {value, time} \cap {None, Raised} # {}
       \/ \E key \in DOMAIN tags : tags[key] = Raised
    THEN <<>>
    ELSE <<[value |-> value, tags |-> tags, time |-> time]>>

extract_next(m, data) ==
    IF exclude_filter_function(m, data) THEN <<>>
    ELSE Measured(IF Value(m, data) = None THEN None ELSE Typed(m, Value(m, data)),
                  tags_function(m, data), timestamp_function(m, data))

\* A metric of type list (or dict) whose elements are read by `next'.
extract_elements(m, value) ==
    IF Kind(value) # "list" THEN <<>>
    ELSE FlattenSeq([i \in DOMAIN value[2] |-> extract_next(m, value[2][i])])

query_service_data(m, list) == extract_elements(m, response_parser(m, list))

(***************************************************************************)
(* Responses                                                               *)
(***************************************************************************)
ExtractionInit == metric \in DOMAIN Elements /\ elements = <<>>

Lists(element) ==
    /\ Len(elements) < MaxElements
    /\ elements' = Append(elements, element)
    /\ UNCHANGED metric

ExtractionNext == \E element \in Elements[metric] : Lists(element)

ExtractionSpec == ExtractionInit /\ [][ExtractionNext]_extraction_vars

(***************************************************************************)
(* Properties                                                              *)
(***************************************************************************)
\* The unit of a HAN-FUN device is read with the device it belongs to.
IsParentOf(d, element) ==
    /\ metric \in HomeAutomationMetrics
    /\ Is(element, "HAN-FUN-Unit") /\ ~Is(element, "HAN-FUN")
    /\ Is(d, "HAN-FUN") /\ get(d, "id") = Parent(element)

ParentsOf(element) ==
    FlattenSeq([i \in DOMAIN elements |->
                   IF IsParentOf(elements[i], element) THEN <<elements[i]>>
                   ELSE <<>>])

Family(element) == Append(ParentsOf(element), element)

\* What a response that can be parsed yields is what each of its elements would
\* yield alone, in their order: an element that lacks something, a filter or a
\* function that fails, costs only itself, wherever in the list a device and its
\* units are.
OnlyItsOwn ==
    Kind(response_parser(metric, elements)) = "list" =>
        query_service_data(metric, elements) =
            FlattenSeq([i \in DOMAIN elements |->
                           query_service_data(metric, Family(elements[i]))])
=============================================================================
