----------------------------- MODULE MCHttpApi -----------------------------
(* A small instance of HttpApi for TLC.                                      *)
EXTENDS HttpApi

CONSTANTS c1, c2, room, set, hid, count, other

MCRequests == {c1, c2}
MCParams == {room, set, hid, count, other}
MCAccess == [p \in MCParams |-> IF p \in {set, hid} THEN "RW" ELSE "R"]
MCHidden == {hid}
MCBounds == [p \in MCParams |-> [min |-> 0, max |-> 6, step |-> 1]]
MCCatalogue == MCParams \ {other}
MCConditional == {set, hid}
MCPolled == {room}
MCTimeZones == {"Europe/Stockholm"}

MCAsks ==
    [op : {"read"}, param : MCParams, value : {0}] \cup
    [op : {"visibility", "stats"}, param : {set, hid}, value : {0}] \cup
    [op : {"write"}, param : {room, set, hid}, value : {1, 2}] \cup
    [op : {"write"}, param : {set}, value : {6}]

NoEnv == [k \in {} |-> Absent]

\* A Homey with all it needs.
Homey ==
    "homey.enabled" :> TRUE @@ "homey.url" :> "http://homey" @@
    "homey.token" :> "secret" @@ "homey.pump_device_id" :> "pump"

Start(env, file, broken) ==
    [env |-> env, file |-> file, broken |-> broken, powersave |-> FALSE]

MCGivens ==
    {Start(Homey, NoEnv, {}),
     [Start(NoEnv, NoEnv, {}) EXCEPT !.powersave = TRUE],
     Start(Homey, NoEnv, {"gpio"}),
     Start("homey.poll_interval_secs" :> 0, Homey, {}),
     Start("dhw.persist_path" :> "/app/data/dhw_state.json", Homey, {})}

\* Starts that are refused.
MCRefusedGivens ==
    {Start(NoEnv, "price.fetch_hour_local" :> 24, {}),
     Start("homey.enabled" :> TRUE, NoEnv, {}),
     Start("serial.parity" :> "mark", NoEnv, {}),
     Start(NoEnv, NoEnv, {"store"})}

MCAllGivens == MCGivens \cup MCRefusedGivens

\* Variables that do not do what they say.
MCIgnoredGivens ==
    {Start("heatpump_stats.enabled" :> FALSE, NoEnv, {}),
     Start("dhw.persist_path" :> "/app/data/dhw_state.json", NoEnv, {})}

MCPushOnly == {Start("homey.poll_interval_secs" :> 0, Homey, {})}

Route(name) == [route |-> name]
OfParam(name, p) == [route |-> name, param |-> p, custom |-> FALSE]
WriteTo(p, v) == [route |-> "postCtc", param |-> p, value |-> v]
Mode(mode, at) == [route |-> "setSmartgrid", mode |-> mode, schedule |-> TRUE, at |-> at]
Boost(preset, hours) == [route |-> "startBoost", preset |-> preset, hours |-> hours]

MCReads ==
    {OfParam("getCtc", room), OfParam("getCtc", hid), OfParam("getCtc", other),
     [OfParam("getCtc", other) EXCEPT !.custom = TRUE],
     OfParam("temperature", room), Route("setpoint"),
     OfParam("visibility", hid), Route("allVisibility"),
     OfParam("paramVisibility", other), OfParam("paramVisibility", set),
     Route("alarmStatus"), Route("modbusStats"),
     Route("getPowersave"), Route("getSmartgrid"), Route("dhwState"),
     Route("pump"), Route("prices"), Route("memory")}

MCChanges ==
    {WriteTo(room, 1), WriteTo(set, 2), WriteTo(hid, 1), WriteTo(other, 1),
     WriteTo(set, Absent),
     [route |-> "setSetpoint", value |-> 4], [route |-> "setSetpoint", value |-> 6],
     [route |-> "setPowersave", active |-> TRUE, schedule |-> FALSE],
     Mode("blocking", Absent), Mode("lowprice", "garbled"), Mode("warp", Absent),
     Route("cancelResume"),
     [route |-> "setComfort", level |-> "komfort"],
     [route |-> "setComfort", level |-> "manuell"],
     Boost("shower", Absent), Boost("bath", 2), Boost("bath", 9), Boost("bath", Absent),
     Route("cancelBoost")}

\* One request asks for anything, the other meets it at the actors.
MCMeets == {Mode("blocking", Absent), Boost("bath", 2), Route("cancelBoost")}

MCRequested == c1 :> (MCReads \cup MCChanges) @@ c2 :> MCMeets
=============================================================================
