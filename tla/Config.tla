------------------------------- MODULE Config -------------------------------
(***************************************************************************)
(* How the server comes to its settings (config.rs): defaults, a file over *)
(* them, the environment over the file - as far as a variable's name finds *)
(* the way to its field - and what makes the load fail.                    *)
(*                                                                         *)
(* A source is a partial function from keys to values; the key of the      *)
(* variable CTC_HOMEY_POLL_INTERVAL_SECS is homey.poll_interval_secs.      *)
(* Settings nothing branches on are left out.                              *)
(***************************************************************************)
EXTENDS Integers, TLC

CONSTANTS
    Absent,    \* a setting without a value
    Garbled,   \* a text that does not parse to the type of its field
    TimeZones  \* the IANA names

ServerDefaults == "server.host" :> "0.0.0.0" @@ "server.port" :> 3000

SerialDefaults ==
    "serial.default_port" :> "/dev/ttyAMA4" @@ "serial.baud_rate" :> 9600 @@
    "serial.data_bits" :> 8 @@ "serial.parity" :> "even" @@ "serial.stop_bits" :> 1 @@
    "serial.flow_control" :> "hardware" @@ "serial.timeout_secs" :> 1

ModbusDefaults ==
    "modbus.slave_id" :> 1 @@ "modbus.channel_buffer_size" :> 32 @@
    "modbus.max_retries" :> 2 @@ "modbus.request_timeout_secs" :> 10

TemperatureDefaults ==
    "temperature_validation.min" :> 5 @@ "temperature_validation.max" :> 30

GpioDefaults == "gpio.enabled" :> TRUE @@ "gpio.active_low" :> FALSE

TibberDefaults == "tibber.enabled" :> FALSE @@ "tibber.api.token" :> Absent

PriceDefaults ==
    "price.enabled" :> TRUE @@ "price.zone" :> "SE3" @@ "price.fetch_hour_local" :> 14

StatsDefaults ==
    "heatpump_stats.enabled" :> TRUE @@ "heatpump_stats.poll_interval_secs" :> 10 @@
    "heatpump_stats.persist_path" :> Absent

SmartGridDefaults ==
    "smartgrid.auto_resume_enabled" :> TRUE @@
    "smartgrid.auto_resume_window_hours" :> 12 @@
    "smartgrid.auto_resume_min_duration_minutes" :> 30

HomeyDefaults ==
    "homey.enabled" :> FALSE @@ "homey.url" :> Absent @@ "homey.token" :> Absent @@
    "homey.pump_device_id" :> Absent @@ "homey.poll_interval_secs" :> 60

DhwDefaults ==
    "dhw.shower_duration_minutes" :> 30 @@ "dhw.bath_max_hours" :> 2 @@
    "dhw.persist_path" :> Absent

StorageDefaults == "storage.db_path" :> "./data/ctc.redb"

Defaults ==
    ServerDefaults @@ SerialDefaults @@ ModbusDefaults @@ TemperatureDefaults @@
    GpioDefaults @@ TibberDefaults @@ PriceDefaults @@ StatsDefaults @@
    SmartGridDefaults @@ HomeyDefaults @@ DhwDefaults @@ StorageDefaults @@
    "tz" :> "Europe/Stockholm"

Keys == DOMAIN Defaults

\* Environment::separator("_") turns every "_" of a variable into a level, so
\* that it finds the fields whose section and name are single words.
Plain ==
    {"server.host", "server.port", "serial.parity", "gpio.enabled", "tibber.enabled",
     "tibber.api.token", "price.enabled", "price.zone", "homey.enabled", "homey.url",
     "homey.token", "tz"}

\* The table of explicit overrides.
Named ==
    {"storage.db_path", "heatpump_stats.persist_path", "serial.default_port",
     "serial.baud_rate", "serial.data_bits", "serial.stop_bits", "serial.flow_control",
     "serial.timeout_secs", "modbus.channel_buffer_size", "homey.enabled", "homey.url",
     "homey.token", "homey.pump_device_id", "homey.poll_interval_secs"}

Reached(env) == DOMAIN env \cap (Plain \cup Named)

\* Any other variable lands at a path of its own making, which the sections
\* ignore - except dhw, which denies unknown fields.
Misplaced(env) == (DOMAIN env \ Reached(env)) \cap DOMAIN DhwDefaults

Sourced(given) ==
    [k \in Keys |-> IF k \in Reached(given.env) THEN given.env[k]
                    ELSE IF k \in DOMAIN given.file THEN given.file[k]
                    ELSE Defaults[k]]

Clamp(n, least, most) == IF n < least THEN least ELSE IF n > most THEN most ELSE n

\* The settings in force; the branch that reads CTC_DHW_PERSIST_PATH comes
\* after the load that the same variable has made fail.
Settings(given) ==
    LET s == Sourced(given)
    IN  [s EXCEPT
           !["smartgrid.auto_resume_window_hours"] = Clamp(@, 1, 48),
           !["smartgrid.auto_resume_min_duration_minutes"] = Clamp(@, 15, 240)]

HomeyIncomplete(s) ==
    /\ s["homey.enabled"]
    /\ Absent \in {s["homey.url"], s["homey.token"], s["homey.pump_device_id"]}

\* What Config::load refuses.
LoadFails(given) ==
    LET s == Sourced(given)
    IN  \/ \E k \in Keys : s[k] = Garbled
        \/ Misplaced(given.env) # {}
        \/ s["price.fetch_hour_local"] > 23
        \/ s["tz"] \notin TimeZones
        \/ HomeyIncomplete(s)

ParityFails(s) == s["serial.parity"] \notin {"none", "even", "odd"}

DataBitsFail(s) == s["serial.data_bits"] \notin 5 .. 8

StopBitsFail(s) == s["serial.stop_bits"] \notin 1 .. 2

FlowControlFails(s) == s["serial.flow_control"] \notin {"none", "software", "hardware"}

\* What the builder of the Modbus actor refuses of the rest.
SerialFails(s) ==
    ParityFails(s) \/ DataBitsFail(s) \/ StopBitsFail(s) \/ FlowControlFails(s)
=============================================================================
