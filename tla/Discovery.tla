----------------------------- MODULE Discovery ------------------------------
(***************************************************************************)
(* Which of the services of ServiceCatalogue a box is asked: connect of    *)
(* FritzBoxHandler, main_async and the discovery of query_service_data in  *)
(* app/classes/fritzbox/handler.py.                                        *)
(*                                                                         *)
(* The version and the link type of the box are read when the process      *)
(* connects.  The first turn of each handler then decides service by       *)
(* service, in worker threads, which of them are asked from there on; the  *)
(* configuration is shared, and DeviceInfo refreshes the version in it.    *)
(* How a service is asked, and when again, is the subject of               *)
(* ServicePolling.                                                         *)
(***************************************************************************)
EXTENDS ServiceCatalogue

CONSTANTS
    Services,           \* names of the services that are looked at
    Definition,         \* the member of the catalogue each of them is
    Boxes,              \* model, access_type and offers: TR-069 services
    Firmwares,          \* versions a box may run, 0 if it cannot be parsed
    MaxUpdates          \* bound on the updates of a box

ASSUME DiscoveryAssumption ==
    /\ Definition \in [Services -> tr069_services \cup lua_services]
    /\ \A s, t \in Services : Definition[s] = Definition[t] => s = t
    /\ NoGap({Definition[s] : s \in Services} \cap lua_services)
    /\ Firmwares \subseteq 0 .. Latest
    /\ MaxUpdates \in Nat

VARIABLES
    device,             \* a member of Boxes
    firmware,           \* what it runs
    updates,            \* how often that changed
    running,            \* main_async is past connect
    config,             \* fw_version and link_type of FritzBoxConfig
    unchecked,          \* services the discovery has still to ask
    available,          \* services not disabled
    versions            \* the versions the discovery has compared with

discovery_vars ==
    <<device, firmware, updates, running, config, unchecked, available, versions>>

Lua   == {s \in Services : Definition[s].handler = "Lua"}
TR069 == Services \ Lua

DiscoveryInit ==
    /\ device \in Boxes
    /\ firmware \in Firmwares
    /\ updates = 0
    /\ running = FALSE
    /\ config = [fw_version |-> 0, link_type |-> Unreported]
    /\ unchecked = {}
    /\ available = {}
    /\ versions = {}

LinkType == get_link_type(device.model, device.access_type)

(***************************************************************************)
(* The process.  A connect that fails ends it with status 1, having        *)
(* changed nothing; the request for the link type alone may fail.          *)
(***************************************************************************)
Connect(link_type) ==
    /\ ~running
    /\ running' = TRUE
    /\ config' = [fw_version |-> firmware, link_type |-> link_type]
    /\ unchecked' = IF firmware \div 100 >= 7 THEN Services ELSE TR069
    /\ available' = unchecked'
    /\ UNCHANGED <<device, firmware, updates, versions>>

Restart ==
    /\ running
    /\ running' = FALSE
    /\ config' = [fw_version |-> 0, link_type |-> Unreported]
    /\ unchecked' = {}
    /\ available' = {}
    /\ versions' = {}
    /\ UNCHANGED <<device, firmware, updates>>

(***************************************************************************)
(* The discovery, in any order: four threads at a time for each handler.   *)
(***************************************************************************)
\* A mutant of os_version_match: the upper bound is left out.
MatchesOpenEnded(s, version) ==
    version # 0 /\ Definition[s].os_min_versions <= version

os_version_match(s, version) ==
    /\ version # 0
    /\ Definition[s].os_min_versions <= version
    /\ version <= Definition[s].os_max_versions

ForThisLink(s) == Definition[s].link_type \in {AnyLink, config.link_type}

\* The request that follows decides nothing: a service stays if it fails.
CheckLua(s) ==
    /\ running
    /\ s \in unchecked \cap Lua
    /\ unchecked' = unchecked \ {s}
    /\ available' = IF os_version_match(s, config.fw_version) /\ ForThisLink(s)
                    THEN available ELSE available \ {s}
    /\ versions' = versions \cup {config.fw_version}
    /\ UNCHANGED <<device, firmware, updates, running, config>>

\* special case: update firmware version when requested
Refreshed(s) ==
    IF Definition[s] = DeviceInfo /\ firmware # 0
    THEN [config EXCEPT !.fw_version = firmware] ELSE config

CheckTR069(s, answered) ==
    /\ running
    /\ s \in unchecked \cap TR069
    /\ unchecked' = unchecked \ {s}
    /\ available' = IF answered /\ s \notin device.offers
                    THEN available \ {s} ELSE available
    /\ config' = IF answered THEN Refreshed(s) ELSE config
    /\ UNCHANGED <<device, firmware, updates, running, versions>>

\* A later turn of the TR-069 handler: of all it asks, DeviceInfo matters here.
Poll ==
    /\ running
    /\ unchecked \cap TR069 = {}
    /\ \E s \in available : Definition[s] = DeviceInfo /\ config' = Refreshed(s)
    /\ UNCHANGED <<device, firmware, updates, running, unchecked, available,
                   versions>>

\* The box is updated, or set back, at any time.
Update ==
    /\ updates < MaxUpdates
    /\ firmware' \in Firmwares \ {firmware}
    /\ updates' = updates + 1
    /\ UNCHANGED <<device, running, config, unchecked, available, versions>>

DiscoveryNext ==
    \/ Connect(LinkType) \/ Connect(Unreported)
    \/ Restart \/ Poll \/ Update
    \/ \E s \in Services :
           CheckLua(s) \/ \E answered \in BOOLEAN : CheckTR069(s, answered)

DiscoverySpec == DiscoveryInit /\ [][DiscoveryNext]_discovery_vars

(***************************************************************************)
(* Properties                                                              *)
(***************************************************************************)
Asked == available \ unchecked

SharesSeries ==
    [p \in Services \X Services |->
        Definition[p[1]].metrics \cap Definition[p[2]].metrics # {}]

Columns(s) == {m.column : m \in Definition[s].metrics}

SharesColumns ==
    [p \in Services \X Services |-> Columns(p[1]) \cap Columns(p[2]) # {}]

\* The services of one purpose for different versions of Fritz!OS: once the
\* discovery is over, no series of the table is written by two of them, and of
\* those the link type allows one is asked, from Fritz!OS 7.29 on.  That takes
\* tables without overlap or gap, and a version that was the same for every
\* comparison: an update that DeviceInfo notices in between leaves, until the
\* next restart, a purpose with two services or with none.
OneVariant ==
    (running /\ unchecked \cap Lua = {} /\ Cardinality(versions) <= 1) =>
        /\ \A s, t \in Asked \cap Lua : s # t => ~SharesSeries[<<s, t>>]
        /\ \A s \in Lua :
               (ForThisLink(s) /\ \E v \in versions : v >= 729) =>
                   \E t \in Asked \cap Lua : SharesColumns[<<s, t>>]
=============================================================================
