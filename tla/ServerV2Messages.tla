-------------------------- MODULE ServerV2Messages --------------------------
(***************************************************************************)
(* The status messages of the server v2 channel,                           *)
(* components/ovms_server_v2/src/ovms_server_v2.cpp: the metrics each one  *)
(* shows, those whose modified bit decides whether it is sent, and those   *)
(* whose change is to be sent in it at once.  Metrics have their names of  *)
(* StandardMetrics without the prefix ms_v_ (or ms_).  The messages for    *)
(* groups and capabilities are empty functions in the code.                *)
(***************************************************************************)
EXTENDS Integers, FiniteSets

(* TransmitMsgStat, case by case of its list of IsModifiedAndClear.        *)
Stat ==
  {"bat_soc", "bat_range_ideal", "bat_range_est", "bat_cac", "bat_range_full",
   "bat_power", "bat_voltage", "bat_soh", "bat_current", "bat_range_speed",
   "charge_voltage", "charge_current", "charge_state", "charge_substate",
   "charge_mode", "charge_climit", "charge_kwh", "charge_timermode",
   "charge_timerstart", "charge_duration_full", "charge_duration_range",
   "charge_duration_soc", "charge_inprogress", "charge_limit_range",
   "charge_limit_soc", "charge_power", "charge_efficiency", "env_cooling"}

(* TransmitMsgGen.                                                         *)
Gen ==
  {"gen_inprogress", "gen_pilot", "gen_voltage", "gen_current", "gen_power",
   "gen_efficiency", "gen_type", "gen_state", "gen_substate", "gen_mode",
   "gen_climit", "gen_limit_range", "gen_limit_soc", "gen_kwh",
   "gen_kwh_grid", "gen_kwh_grid_total", "gen_time", "gen_timermode",
   "gen_timerstart", "gen_duration_empty", "gen_duration_range",
   "gen_duration_soc", "gen_temp"}

(* TransmitMsgGPS.                                                         *)
GPS ==
  {"pos_latitude", "pos_longitude", "pos_direction", "pos_altitude",
   "pos_gpslock", "pos_gpsmode", "pos_gpshdop", "pos_satcount",
   "pos_gpsspeed", "pos_speed", "env_drivemode", "bat_power",
   "bat_energy_used", "bat_energy_recd", "inv_power", "inv_efficiency"}

(* TransmitMsgTPMS, which sends a message "Y" and a message "W".           *)
TPMS == {"tpms_pressure", "tpms_temp", "tpms_health", "tpms_alert"}

(* TransmitMsgFirmware.                                                    *)
Firmware ==
  {"m_version", "vin", "m_net_sq", "type", "m_net_provider",
   "env_service_range", "env_service_time"}

(* Doors1 to Doors5, the bytes of flags of the environment message.        *)
Doors ==
  {"door_fl", "door_fr", "door_chargeport", "charge_pilot",
   "charge_inprogress", "env_handbrake", "env_on", "env_locked", "env_valet",
   "env_headlights", "door_hood", "door_trunk", "env_awake", "env_cooling",
   "env_ctrl_login", "env_ctrl_config", "env_alarm", "door_rl", "door_rr",
   "env_charging12v", "env_aux12v", "env_hvac"}

(* TransmitMsgEnvironment.                                                 *)
Environment ==
  Doors \cup {"inv_temp", "mot_temp", "bat_temp", "env_temp", "charge_temp",
              "env_cabintemp", "bat_12v_voltage"}

(* The metrics whose bits the messages test and clear.                     *)
Tested == [stat |-> Stat, gen |-> Gen, environment |-> Environment,
           gps |-> GPS, tpms |-> TPMS, firmware |-> Firmware]

Messages == DOMAIN Tested

(* Some are shown in a message that does not test their bit.               *)
Untested == [stat |-> {"charge_time"}, gen |-> {},
             environment |-> {"pos_trip", "pos_odometer", "pos_speed",
                              "env_parktime", "bat_12v_voltage_ref",
                              "bat_12v_current"},
             gps |-> {"pos_trip"}, tpms |-> {}, firmware |-> {}]

Shown == [msg \in Messages |-> Tested[msg] \cup Untested[msg]]

(* MetricModified: the changes that flag a message, in its order of tests. *)
Important ==
  [stat |-> {"charge_climit", "charge_limit_range", "charge_limit_soc",
             "charge_state", "charge_substate", "charge_mode",
             "charge_inprogress", "env_cooling", "bat_cac", "bat_soh"},
   environment |-> Doors \ {"env_headlights", "env_ctrl_login",
                            "env_ctrl_config"},
   gps  |-> {"env_drivemode", "pos_gpslock", "pos_gpsmode"},
   tpms |-> {"tpms_alert"},
   gen  |-> {"gen_climit", "gen_limit_range", "gen_limit_soc", "gen_state",
             "gen_substate", "gen_mode", "gen_inprogress"},
   firmware |-> {}]

(* Ticker1: the order of a periodic transmission, and that of the flags.   *)
Periodic == <<"stat", "environment", "gps", "tpms", "firmware", "gen">>
Flagged  == <<"stat", "gen", "environment", "gps", "tpms", "firmware">>

(* Sent in a periodic transmission whatever has changed, and those called  *)
(* only under a condition: the generator gives current.                    *)
Always    == {"stat", "environment", "gen"}
Sometimes == {"gen"}

-----------------------------------------------------------------------------
(* A flag is never useless: the message flagged tests the metric's bit.    *)
ASSUME FlagsAreTested == \A msg \in Messages : Important[msg] \subseteq Tested[msg]

(* Metrics whose bit several messages test, though it is cleared by the    *)
(* first: these, and no others.                                            *)
ASSUME SharedBits ==
  {m \in UNION {Tested[msg] : msg \in Messages} :
     Cardinality({msg \in Messages : m \in Tested[msg]}) > 1}
    = {"charge_inprogress", "env_cooling", "bat_power"}
=============================================================================
