----------------------------- MODULE SettingTables -----------------------------
(***************************************************************************)
(* Where a serial reader keeps its parameters.  TMR_SR_paramSet and        *)
(* TMR_SR_paramGet are two switches over the same keys, written apart: a   *)
(* row of Set or Get says how the key's case deals with a value, in which  *)
(* field of the reader structure it is kept and which item of the module   *)
(* it is written to or read from.  An item is named by opcode and option.  *)
(* Items, Codes and Readings are the command functions of                  *)
(* serial_reader_l3.c: what goes over the line for a value and what an     *)
(* answer is turned into.  Values and codes are names, one for each that   *)
(* the code treats differently; "a" and "b" stand for any two.             *)
(***************************************************************************)
EXTENDS Naturals, Tables

M6eClass == {"M6e", "Micro", "Nano"}
Models == M6eClass \cup {"M5e"}

NoItem == <<"none", "none">>
Config(item) == <<"READER_OPTIONAL_PARAMS", item>>
Gen2(item) == <<"PROTOCOL_PARAM GEN2", item>>
ISO(item) == <<"PROTOCOL_PARAM ISO180006B", item>>
Ports(value) == <<"ANTENNA_PORT 4", value>>

(* The items that the set commands of serial_reader_l3.c write ...         *)
Written ==
  [TxRxPorts |-> <<"ANTENNA_PORT", "0">>,
   ReadTxPower |-> <<"READ_TX_POWER", "0">>,
   WriteTxPower |-> <<"WRITE_TX_POWER", "0">>,
   FrequencyHopTable |-> <<"FREQ_HOP_TABLE", "0">>,
   FrequencyHopTime |-> <<"FREQ_HOP_TABLE", "1">>,
   Region |-> <<"REGION", "0">>,
   RegionLbt |-> <<"REGION", "LBT">>,
   PowerMode |-> <<"POWER_MODE", "0">>,
   UserMode |-> <<"USER_MODE", "0">>,
   Protocol |-> <<"TAG_PROTOCOL", "0">>,
   GPIODirection |-> <<"USER_GPIO_OUTPUTS", "1">>]

(* ... and those that the get commands read.                               *)
Read ==
  [ReadTxPower |-> <<"READ_TX_POWER", "0">>,
   Limits |-> <<"READ_TX_POWER", "1">>,
   WriteTxPower |-> <<"WRITE_TX_POWER", "0">>,
   AntennaDetect |-> <<"ANTENNA_PORT", "5">>,
   AntennaReturnLoss |-> <<"ANTENNA_PORT", "6">>,
   FrequencyHopTable |-> <<"FREQ_HOP_TABLE", "0">>,
   FrequencyHopTime |-> <<"FREQ_HOP_TABLE", "1">>,
   GPIODirection |-> <<"USER_GPIO_OUTPUTS", "1">>,
   CurrentProtocol |-> <<"TAG_PROTOCOL", "0">>,
   Region |-> <<"REGION", "0">>,
   RegionLbt |-> <<"REGION", "LBT">>,
   PowerMode |-> <<"POWER_MODE", "0">>,
   UserMode |-> <<"USER_MODE", "0">>]

WriteTimeOut(part) == <<"PROTOCOL_PARAM GEN2 3F", part>>
Statistics(kind) == <<"READER_STATS", kind>>
Module(command) == <<command, "0">>

-------------------------------------------------------------------------------
(* Values on the line.                                                     *)

Plain == [v \in {"a", "b"} |-> v]
(* Seeded: the two values of a flag are exchanged. *)
FlagSeeded(true, false) == [v \in {"true", "false"} |-> IF v = "true" THEN false ELSE true]

Flag(true, false) == [v \in {"true", "false"} |-> IF v = "true" THEN true ELSE false]
(* What a flag that is sent so is read as.                                 *)
FlagRead(true, false) == [c \in {true, false} |-> IF c = true THEN "true" ELSE "false"]

(* TMR_SR_cmdSetReaderConfiguration, and paramSet's 0 for a default time.  *)
ConfigCodes(item, m) ==
  CASE item = "ANTENNA_CONTROL_GPIO" ->
         [v \in {"{}", "{1}", "{1,3}", "{1,2,3}"} |->
            CASE v = "{}" -> "0" [] v = "{1}" -> "1" [] v = "{1,3}" -> "5" [] OTHER -> "7"]
    [] item = "TRIGGER_READ_GPIO" ->
         [v \in {"{}", "{1}", "{2}", "{1,2}"} |->
            CASE v = "{}" -> "0" [] v = "{1}" -> "1" [] v = "{2}" -> "2" [] OTHER -> "3"]
    [] item \in {"UNIQUE_BY_ANTENNA", "UNIQUE_BY_DATA", "UNIQUE_BY_PROTOCOL"} ->
         Flag("0", "1")
    [] item = "TRANSMIT_POWER_SAVE" ->
         IF m = "Micro" THEN Flag("2", "1") ELSE Flag("1", "0")
    [] item \in {"EXTENDED_EPC", "SAFETY_ANTENNA_CHECK", "RECORD_HIGHEST_RSSI",
                 "RSSI_IN_DBM", "SELF_JAMMER_CANCELLATION", "ENABLE_READ_FILTER"} ->
         Flag("1", "0")
    [] item = "READ_FILTER_TIMEOUT" ->
         [v \in {"-1", "0", "a"} |-> IF v = "a" THEN "a" ELSE "0"]

(* TMR_SR_cmdSetProtocolConfiguration.                                     *)
Gen2Codes(item) ==
  CASE item \in {"SESSION", "TAGENCODING", "TARI", "BAP"} -> Plain
    [] item = "LINKFREQUENCY" ->
         [v \in {"40", "250", "320", "400", "640"} |->
            CASE v = "40" -> "3" [] v = "250" -> "0" [] v = "640" -> "4" [] OTHER -> "2"]
    [] item = "TARGET" ->
         [v \in {"A", "B", "AB", "BA"} |->
            CASE v = "A" -> "0100" [] v = "B" -> "0101" [] v = "AB" -> "0000" [] OTHER -> "0001"]
    [] item = "Q" -> [v \in {"dynamic", "static"} |-> IF v = "dynamic" THEN "0" ELSE "1"]

ISOCodes(item) ==
  CASE item = "LINKFREQUENCY"    -> [v \in {"40", "160"} |-> IF v = "40" THEN "1" ELSE "0"]
    [] item = "MODULATION_DEPTH" ->
         [v \in {"99percent", "11percent"} |-> IF v = "99percent" THEN "0" ELSE "1"]
    [] item = "DELIMITER"        -> [v \in {"1", "4"} |-> v]

(* Of a region's number one byte is sent: -1, no region at all, goes out   *)
(* as the open region, here "b".                                           *)
Codes(item, m) ==
  CASE item[1] = "READER_OPTIONAL_PARAMS"    -> ConfigCodes(item[2], m)
    [] item[1] = "PROTOCOL_PARAM GEN2"       -> Gen2Codes(item[2])
    [] item[1] = "PROTOCOL_PARAM ISO180006B" -> ISOCodes(item[2])
    [] item[1] = "ANTENNA_PORT 4" -> [v \in {"a", "0", "-32768"} |-> v]
    [] item[1] = "PROTOCOL_PARAM GEN2 3F" ->
         IF item[2] = "EARLY_EXIT" THEN Flag("0", "1") ELSE Plain
    [] item[1] = "REGION" ->
         IF item[2] = "LBT" THEN Flag("1", "0")
         ELSE [v \in {"a", "b", "unlisted"} |-> IF v = "a" THEN "a" ELSE "b"]
    [] OTHER -> Plain

(* TMR_SR_cmdGetReaderConfiguration.                                       *)
ConfigReadings(item, m) ==
  CASE item = "ANTENNA_CONTROL_GPIO" ->
         [c \in {"0", "1", "5", "7"} |->
            CASE c = "0" -> "{}" [] c = "7" -> "{1,2,3}" [] OTHER -> "{1,3}"]
    [] item = "TRIGGER_READ_GPIO" ->
         [c \in {"0", "1", "2", "3"} |->
            CASE c = "1" -> "{1}" [] c = "2" -> "{2}" [] c = "3" -> "{1,2}" [] OTHER -> "{}"]
    [] item \in {"UNIQUE_BY_ANTENNA", "UNIQUE_BY_DATA", "UNIQUE_BY_PROTOCOL"} ->
         FlagRead("0", "1")
    [] item = "TRANSMIT_POWER_SAVE" ->
         IF m = "Micro" THEN [c \in {"0", "1", "2"} |-> IF c = "2" THEN "true" ELSE "false"]
                        ELSE FlagRead("1", "0")
    [] item \in {"EXTENDED_EPC", "SAFETY_ANTENNA_CHECK", "RECORD_HIGHEST_RSSI",
                 "RSSI_IN_DBM", "SELF_JAMMER_CANCELLATION", "ENABLE_READ_FILTER"} ->
         FlagRead("1", "0")
    [] item \in {"READ_FILTER_TIMEOUT", "PRODUCT_GROUP_ID", "PRODUCT_ID"} ->
         [c \in {"0", "a"} |-> c]

(* TMR_SR_cmdGetProtocolConfiguration: the link frequency stays a code.    *)
Gen2Readings(item) ==
  CASE item \in {"SESSION", "TAGENCODING", "TARI", "BAP", "PROTOCOLEXTENSION"} -> Plain
    [] item = "LINKFREQUENCY" -> [c \in {"0", "2", "3", "4"} |-> c]
    [] item = "TARGET" ->
         [c \in {"0100", "0101", "0000", "0001"} |->
            CASE c = "0100" -> "A" [] c = "0101" -> "B" [] c = "0000" -> "AB" [] OTHER -> "BA"]
    [] item = "Q" -> [c \in {"0", "1"} |-> IF c = "0" THEN "dynamic" ELSE "static"]

ISOReadings(item) ==
  CASE item = "LINKFREQUENCY"    -> [c \in {"0", "1"} |-> IF c = "1" THEN "40" ELSE "160"]
    [] item = "MODULATION_DEPTH" ->
         [c \in {"0", "1"} |-> IF c = "0" THEN "99percent" ELSE "11percent"]
    [] item = "DELIMITER"        -> [c \in {"1", "4"} |-> c]

(* getPortValues leaves a port out whose value is zero, and on a Micro or  *)
(* a Nano also one with the lowest value.                                  *)
PortReadings(m) ==
  [c \in {"a", "0", "-32768"} |->
     IF c = "0" \/ (c = "-32768" /\ m \in {"Micro", "Nano"}) THEN "unlisted" ELSE c]

Readings(item, m) ==
  CASE item[1] = "READER_OPTIONAL_PARAMS"    -> ConfigReadings(item[2], m)
    [] item[1] = "PROTOCOL_PARAM GEN2"       -> Gen2Readings(item[2])
    [] item[1] = "PROTOCOL_PARAM ISO180006B" -> ISOReadings(item[2])
    [] item[1] = "ANTENNA_PORT 4" -> PortReadings(m)
    [] item[1] = "PROTOCOL_PARAM GEN2 3F" ->
         IF item[2] = "EARLY_EXIT" THEN FlagRead("0", "1") ELSE Plain
    [] item[1] = "REGION" ->
         IF item[2] = "LBT" THEN FlagRead("1", "0") ELSE Plain
    [] OTHER -> Plain

-------------------------------------------------------------------------------
(* The rows.                                                               *)

Row(how, field, item, models) ==
  [how |-> how, field |-> field, item |-> item, models |-> models,
   checked |-> FALSE, elsewhere |-> "NOT_FOUND"]
Checked(row) == [row EXCEPT !.checked = TRUE]
Only(models, row) == [row EXCEPT !.models = models]
Elsewhere(status, row) == [row EXCEPT !.elsewhere = status]

Keeps(field) == Row("keep", field, NoItem, Models)
Sends(item) == Row("send", "none", item, Models)
(* Seeded: the value is kept before the module has accepted it. *)
SendsKeepsSeeded(item, field, models) == Row("keep send", field, item, models)

SendsKeeps(item, field, models) == Row("send keep", field, item, models)
KeepsSends(field, item) == Row("keep send", field, item, Models)
Asks(item) == Row("ask", "none", item, Models)
Merges(item) == Row("merge", "none", item, Models)
Fails(status) == Row(status, "none", NoItem, Models)

(* TMR_SR_paramSet, case by case.                                          *)
SetA ==
  [ REGION_ID |-> Row("keep send connected", "regionId", Written.Region, Models),
    STATUS_ENABLE_ANTENNAREPORT |-> Keeps("streamStats ANTENNA"),
    STATUS_ENABLE_FREQUENCYREPORT |-> Keeps("streamStats FREQUENCY"),
    STATUS_ENABLE_TEMPERATUREREPORT |-> Keeps("streamStats TEMPERATURE"),
    BAUDRATE |-> Row("rate", "baudRate", NoItem, Models),
    PROBEBAUDRATES |-> Checked(Keeps("probeBaudRates")),
    COMMANDTIMEOUT |-> Checked(Keeps("commandTimeout")),
    TRANSPORTTIMEOUT |-> Checked(Keeps("transportTimeout")) ]

SetProduct ==
  Each({"URI", "PRODUCT_GROUP_ID", "PRODUCT_GROUP", "PRODUCT_ID",
        "TAGREADATA_TAGOPSUCCESSCOUNT", "TAGREADATA_TAGOPFAILURECOUNT"},
       Fails("READONLY"))

SetB ==
  [ RADIO_ENABLEPOWERSAVE |-> Sends(Config("TRANSMIT_POWER_SAVE")),
    RADIO_ENABLESJC |-> Sends(Config("SELF_JAMMER_CANCELLATION")),
    TAGREADDATA_UNIQUEBYPROTOCOL |->
       Row("send", "none", Config("UNIQUE_BY_PROTOCOL"), M6eClass),
    TAGREADDATA_READFILTERTIMEOUT |->
       SendsKeeps(Config("READ_FILTER_TIMEOUT"), "readFilterTimeout", M6eClass),
    TAGREADDATA_ENABLEREADFILTER |->
       Elsewhere("READONLY",
                 SendsKeeps(Config("ENABLE_READ_FILTER"), "enableReadFiltering", M6eClass)),
    RADIO_READPOWER |-> Checked(Sends(Written.ReadTxPower)),
    RADIO_WRITEPOWER |-> Checked(Sends(Written.WriteTxPower)),
    RADIO_PORTREADPOWERLIST |-> Checked(Merges(Ports("0"))),
    RADIO_PORTWRITEPOWERLIST |-> Checked(Merges(Ports("1"))),
    ANTENNA_SETTLINGTIMELIST |-> Checked(Merges(Ports("2"))),
    ANTENNA_CHECKPORT |-> Sends(Config("SAFETY_ANTENNA_CHECK")),
    TAGREADDATA_RECORDHIGHESTRSSI |-> Sends(Config("RECORD_HIGHEST_RSSI")),
    TAGREADDATA_REPORTRSSIINDBM |-> Sends(Config("RSSI_IN_DBM")),
    TAGREADDATA_UNIQUEBYANTENNA |-> Sends(Config("UNIQUE_BY_ANTENNA")),
    TAGREADDATA_UNIQUEBYDATA |-> Sends(Config("UNIQUE_BY_DATA")) ]

SetC ==
  [ ANTENNA_PORTSWITCHGPOS |->
       Row("keep send map", "portmask", Config("ANTENNA_CONTROL_GPIO"), Models),
    TRIGGER_READ_GPI |-> Sends(Config("TRIGGER_READ_GPIO")),
    ANTENNA_TXRXMAP |-> Checked(Keeps("txRxMap")),
    REGION_HOPTABLE |-> Checked(Sends(Written.FrequencyHopTable)),
    REGION_HOPTIME |-> Sends(Written.FrequencyHopTime),
    REGION_LBT_ENABLE |-> Row("lbt", "none", Written.RegionLbt, Models) ]

SetD ==
  [ TAGOP_ANTENNA |-> Checked(KeepsSends("antenna", Written.TxRxPorts)),
    TAGOP_PROTOCOL |->
       Checked(Row("keep send connected", "protocol", Written.Protocol, Models)),
    READ_PLAN |-> Checked(Keeps("readPlan")) ]

SetsPins == Elsewhere("READONLY", Row("pins", "none", Written.GPIODirection, M6eClass))

SetE ==
  [ POWERMODE |-> Row("send keep connected", "powerMode", Written.PowerMode, Models),
    USERMODE |-> Sends(Written.UserMode),
    GPIO_INPUTLIST |-> SetsPins,
    GPIO_OUTPUTLIST |-> SetsPins ]
  ++ Each({"RADIO_POWERMAX", "RADIO_POWERMIN", "REGION_SUPPORTEDREGIONS",
           "ANTENNA_PORTLIST", "ANTENNA_CONNECTEDPORTLIST",
           "VERSION_SUPPORTEDPROTOCOLS", "RADIO_TEMPERATURE", "VERSION_HARDWARE",
           "VERSION_MODEL", "VERSION_SOFTWARE", "ANTENNA_RETURNLOSS",
           "GEN2_PROTOCOLEXTENSION"}, Fails("READONLY"))

SetF ==
  [ GEN2_Q |-> Checked(Sends(Gen2("Q"))),
    GEN2_TAGENCODING |-> Sends(Gen2("TAGENCODING")),
    GEN2_SESSION |-> Sends(Gen2("SESSION")),
    GEN2_TARGET |-> Checked(Sends(Gen2("TARGET"))),
    GEN2_BLF |-> Checked(Sends(Gen2("LINKFREQUENCY"))),
    GEN2_TARI |-> Sends(Gen2("TARI")),
    GEN2_WRITEMODE |-> Keeps("writeMode"),
    ISO180006B_BLF |-> Checked(Sends(ISO("LINKFREQUENCY"))),
    ISO180006B_MODULATION_DEPTH |-> Checked(Sends(ISO("MODULATION_DEPTH"))),
    ISO180006B_DELIMITER |-> Checked(Sends(ISO("DELIMITER"))),
    GEN2_ACCESSPASSWORD |-> Keeps("gen2AccessPassword") ]

SetG ==
  [ READER_STATISTICS |-> Row("reset", "none", Statistics("RESET"), Models),
    READER_STATS |-> Row("reset", "none", Statistics("RESET"), {"M6e", "Micro", "Nano"}),
    READER_STATS_ENABLE |->
       Elsewhere("UNSUPPORTED", Only(M6eClass, Keeps("statsFlag"))),
    READER_WRITE_REPLY_TIMEOUT |-> Checked(Merges(WriteTimeOut("TIMEOUT"))),
    READER_WRITE_EARLY_EXIT |-> Merges(WriteTimeOut("EARLY_EXIT")),
    METADATAFLAG |-> Checked(Keeps("userMetadataFlag")) ]

(* The cases of the second switch that are more than one command.          *)
SetExtendedEPC ==
  [ EXTENDEDEPC |->
       Elsewhere("UNSUPPORTED", SendsKeeps(Config("EXTENDED_EPC"), "extendedEPC", {"M5e"})) ]

SetBap ==
  [ GEN2_BAP |-> Checked(Row("bap", "isBapEnabled", Gen2("BAP"), Models)) ]

(* TMR_paramSet keeps the times of asynchronous reads itself.              *)
SetTimes ==
  [ READ_ASYNCONTIME |-> Keeps("asyncOnTime"),
    READ_ASYNCOFFTIME |-> Keeps("asyncOffTime") ]

Set == SetA ++ SetProduct ++ SetB ++ SetC ++ SetD ++ SetE ++ SetF ++ SetG
         ++ SetExtendedEPC ++ SetBap ++ SetTimes

(* TMR_SR_paramGet, case by case.                                          *)
GetA ==
  [ BAUDRATE |-> Keeps("baudRate"),
    PROBEBAUDRATES |-> Row("shorten", "probeBaudRates", NoItem, Models),
    URI |-> Keeps("uri"),
    COMMANDTIMEOUT |-> Keeps("commandTimeout"),
    TRANSPORTTIMEOUT |-> Keeps("transportTimeout"),
    REGION_ID |-> Row("ask if none", "regionId", Read.Region, Models),
    RADIO_ENABLEPOWERSAVE |-> Asks(Config("TRANSMIT_POWER_SAVE")),
    RADIO_ENABLESJC |-> Asks(Config("SELF_JAMMER_CANCELLATION")),
    TAGREADDATA_READFILTERTIMEOUT |-> Row("keep", "readFilterTimeout", NoItem, M6eClass),
    TAGREADDATA_ENABLEREADFILTER |-> Keeps("enableReadFiltering"),
    EXTENDEDEPC |->
       Elsewhere("UNSUPPORTED", Only({"M5e"}, Asks(Config("EXTENDED_EPC")))) ]

GetB ==
  [ RADIO_READPOWER |-> Asks(Read.ReadTxPower),
    RADIO_WRITEPOWER |-> Asks(Read.WriteTxPower),
    ANTENNA_CHECKPORT |-> Asks(Config("SAFETY_ANTENNA_CHECK")),
    TAGREADDATA_RECORDHIGHESTRSSI |-> Asks(Config("RECORD_HIGHEST_RSSI")),
    TAGREADDATA_REPORTRSSIINDBM |-> Asks(Config("RSSI_IN_DBM")),
    TAGREADDATA_UNIQUEBYANTENNA |-> Asks(Config("UNIQUE_BY_ANTENNA")),
    TAGREADDATA_UNIQUEBYDATA |-> Asks(Config("UNIQUE_BY_DATA")),
    TAGREADDATA_UNIQUEBYPROTOCOL |->
       Only(M6eClass, Asks(Config("UNIQUE_BY_PROTOCOL"))),
    PRODUCT_GROUP_ID |-> Asks(Config("PRODUCT_GROUP_ID")),
    PRODUCT_ID |-> Asks(Config("PRODUCT_ID")),
    STATUS_ENABLE_ANTENNAREPORT |-> Keeps("streamStats ANTENNA"),
    STATUS_ENABLE_FREQUENCYREPORT |-> Keeps("streamStats FREQUENCY"),
    STATUS_ENABLE_TEMPERATUREREPORT |-> Keeps("streamStats TEMPERATURE"),
    RADIO_POWERMAX |-> Asks(Read.Limits),
    RADIO_POWERMIN |-> Asks(Read.Limits) ]

AsksPins == Elsewhere("ok", Only(M6eClass, Asks(Read.GPIODirection)))

GetC ==
  [ ANTENNA_PORTSWITCHGPOS |->
       Row("ask keep", "portmask", Config("ANTENNA_CONTROL_GPIO"), Models),
    TRIGGER_READ_GPI |-> Asks(Config("TRIGGER_READ_GPIO")),
    ANTENNA_SETTLINGTIMELIST |-> Asks(Ports("2")),
    RADIO_PORTREADPOWERLIST |-> Asks(Ports("0")),
    RADIO_PORTWRITEPOWERLIST |-> Asks(Ports("1")),
    ANTENNA_RETURNLOSS |-> Asks(Read.AntennaReturnLoss),
    GPIO_INPUTLIST |-> AsksPins,
    GPIO_OUTPUTLIST |-> AsksPins ]

GetD ==
  [ ANTENNA_PORTLIST |-> Keeps("txRxMap"),
    ANTENNA_CONNECTEDPORTLIST |-> Asks(Read.AntennaDetect),
    ANTENNA_TXRXMAP |-> Keeps("txRxMap"),
    REGION_HOPTABLE |-> Asks(Read.FrequencyHopTable),
    REGION_HOPTIME |-> Asks(Read.FrequencyHopTime),
    REGION_LBT_ENABLE |-> Row("ask or false", "none", Read.RegionLbt, Models),
    TAGOP_ANTENNA |-> Keeps("antenna"),
    TAGOP_PROTOCOL |-> Keeps("protocol") ]

GetE ==
  [ POWERMODE |-> Row("ask keep connected", "powerMode", Read.PowerMode, Models),
    USERMODE |-> Asks(Read.UserMode),
    GEN2_Q |-> Asks(Gen2("Q")),
    GEN2_TAGENCODING |-> Asks(Gen2("TAGENCODING")),
    GEN2_SESSION |-> Asks(Gen2("SESSION")),
    GEN2_TARGET |-> Asks(Gen2("TARGET")),
    GEN2_BLF |-> Asks(Gen2("LINKFREQUENCY")),
    GEN2_TARI |-> Asks(Gen2("TARI")),
    GEN2_BAP |-> Asks(Gen2("BAP")),
    GEN2_WRITEMODE |-> Keeps("writeMode"),
    GEN2_PROTOCOLEXTENSION |-> Asks(Gen2("PROTOCOLEXTENSION")),
    ISO180006B_BLF |-> Asks(ISO("LINKFREQUENCY")),
    ISO180006B_MODULATION_DEPTH |-> Asks(ISO("MODULATION_DEPTH")),
    ISO180006B_DELIMITER |-> Asks(ISO("DELIMITER")),
    GEN2_ACCESSPASSWORD |-> Keeps("gen2AccessPassword") ]

GetF ==
  [ REGION_SUPPORTEDREGIONS |-> Asks(Module("AVAILABLE_REGIONS")),
    VERSION_SUPPORTEDPROTOCOLS |-> Asks(Module("AVAILABLE_PROTOCOLS")),
    RADIO_TEMPERATURE |-> Asks(Module("TEMPERATURE")),
    VERSION_HARDWARE |-> Asks(Module("HW_VERSION")),
    VERSION_SERIAL |-> Asks(Module("HW_VERSION")),
    VERSION_MODEL |-> Keeps("versionInfo"),
    VERSION_SOFTWARE |-> Keeps("versionInfo") ]

GetG ==
  [ READER_STATS |->
       Elsewhere("UNSUPPORTED", Only(M6eClass, Asks(Statistics("PER_PORT")))),
    READER_STATS_ENABLE |->
       Elsewhere("UNSUPPORTED", Only(M6eClass, Keeps("statsFlag"))),
    READER_STATISTICS |-> Asks(Statistics("PER_PORT")),
    PRODUCT_GROUP |-> Keeps("productId"),
    READER_WRITE_REPLY_TIMEOUT |-> Asks(WriteTimeOut("TIMEOUT")),
    READER_WRITE_EARLY_EXIT |-> Asks(WriteTimeOut("EARLY_EXIT")),
    METADATAFLAG |-> Keeps("userMetadataFlag"),
    LICENSE_KEY |-> Fails("UNSUPPORTED"),
    USER_CONFIG |-> Fails("UNSUPPORTED"),
    TAGREADATA_TAGOPSUCCESSCOUNT |-> Keeps("counts"),
    TAGREADATA_TAGOPFAILURECOUNT |-> Keeps("counts") ]

(* TMR_paramGet answers these itself.                                      *)
GetTimes ==
  [ READ_ASYNCONTIME |-> Keeps("asyncOnTime"),
    READ_ASYNCOFFTIME |-> Keeps("asyncOffTime"),
    READ_PLAN |-> Keeps("readPlan") ]

Get == GetA ++ GetB ++ GetC ++ GetD ++ GetE ++ GetF ++ GetG ++ GetTimes

(* The parameters that TMR_SR_boot takes for granted; M6e's alone second.  *)
Present ==
  {"BAUDRATE", "PROBEBAUDRATES", "COMMANDTIMEOUT", "TRANSPORTTIMEOUT", "POWERMODE",
   "USERMODE", "ANTENNA_CHECKPORT", "ANTENNA_PORTLIST", "ANTENNA_CONNECTEDPORTLIST",
   "ANTENNA_PORTSWITCHGPOS", "ANTENNA_SETTLINGTIMELIST", "ANTENNA_RETURNLOSS",
   "ANTENNA_TXRXMAP", "GPIO_INPUTLIST", "GPIO_OUTPUTLIST", "GEN2_ACCESSPASSWORD",
   "GEN2_Q", "GEN2_BAP", "GEN2_TAGENCODING", "GEN2_SESSION", "GEN2_TARGET",
   "GEN2_PROTOCOLEXTENSION", "READ_ASYNCOFFTIME", "READ_ASYNCONTIME", "READ_PLAN",
   "RADIO_ENABLEPOWERSAVE", "RADIO_POWERMAX", "RADIO_POWERMIN",
   "RADIO_PORTREADPOWERLIST", "RADIO_PORTWRITEPOWERLIST", "RADIO_READPOWER",
   "RADIO_WRITEPOWER", "RADIO_TEMPERATURE", "TAGREADDATA_RECORDHIGHESTRSSI",
   "TAGREADDATA_REPORTRSSIINDBM", "TAGREADDATA_UNIQUEBYANTENNA",
   "TAGREADDATA_UNIQUEBYDATA", "TAGOP_ANTENNA", "TAGOP_PROTOCOL",
   "VERSION_HARDWARE", "VERSION_MODEL", "VERSION_SOFTWARE", "VERSION_SERIAL",
   "VERSION_SUPPORTEDPROTOCOLS", "REGION_ID", "REGION_SUPPORTEDREGIONS",
   "REGION_HOPTABLE", "REGION_HOPTIME", "REGION_LBT_ENABLE", "EXTENDEDEPC",
   "READER_STATS", "READER_STATISTICS", "URI", "PRODUCT_GROUP_ID",
   "PRODUCT_GROUP", "PRODUCT_ID", "TAGREADATA_TAGOPSUCCESSCOUNT",
   "TAGREADATA_TAGOPFAILURECOUNT", "TAGREADDATA_ENABLEREADFILTER",
   "READER_WRITE_REPLY_TIMEOUT", "READER_WRITE_EARLY_EXIT",
   "ISO180006B_DELIMITER", "ISO180006B_MODULATION_DEPTH", "READER_STATS_ENABLE",
   "TRIGGER_READ_GPI"}

PresentM6e ==
  {"LICENSE_KEY", "USER_CONFIG", "RADIO_ENABLESJC", "TAGREADDATA_READFILTERTIMEOUT",
   "TAGREADDATA_UNIQUEBYPROTOCOL"}

Keys == DOMAIN Set \cup DOMAIN Get
=============================================================================
