------------------------------ MODULE ConfigText ------------------------------
(***************************************************************************)
(* The text of a saved configuration: what getSetOneParam writes for a     *)
(* parameter's value, and what it makes of a text it is given.  Numbers,   *)
(* lists and hexadecimal words are read back by the scanner that matches   *)
(* the format they were printed with; names go through a table in one      *)
(* direction and are searched in it, beginnings included, in the other.    *)
(* A text is a record; "unreadable" stands for all that no scanner takes.  *)
(***************************************************************************)
EXTENDS Naturals, Sequences, FiniteSets, TLC

(* isParamWritable: left out of a configuration, read only or not.         *)
NotSaved ==
  {"URI", "PRODUCT_GROUP_ID", "PRODUCT_GROUP", "PRODUCT_ID",
   "TAGREADATA_TAGOPSUCCESSCOUNT", "TAGREADATA_TAGOPFAILURECOUNT",
   "RADIO_POWERMAX", "RADIO_POWERMIN", "REGION_SUPPORTEDREGIONS",
   "ANTENNA_PORTLIST", "ANTENNA_CONNECTEDPORTLIST", "VERSION_SUPPORTEDPROTOCOLS",
   "RADIO_TEMPERATURE", "VERSION_HARDWARE", "VERSION_MODEL", "VERSION_SOFTWARE",
   "VERSION_SERIAL", "ANTENNA_RETURNLOSS", "CURRENTTIME",
   "LICENSE_KEY", "READER_STATS", "USER_CONFIG", "READER_STATISTICS",
   "REGION_LBT_ENABLE", "RADIO_ENABLEPOWERSAVE", "GEN2_BAP",
   "ISO180006B_MODULATION_DEPTH", "ISO180006B_DELIMITER", "ISO180006B_BLF",
   "RADIO_ENABLESJC", "USERMODE", "GEN2_WRITEMODE", "READER_WRITE_EARLY_EXIT",
   "READER_WRITE_REPLY_TIMEOUT", "READER_DESCRIPTION", "READER_HOSTNAME",
   "EXTENDEDEPC", "TAGOP_ANTENNA"}

-------------------------------------------------------------------------------
(* Names.                                                                  *)

regions == <<"UNSPEC", "NA", "EU", "KR", "IN", "JP", "PRC", "EU2", "EU3", "KR2",
             "PRC2", "AU", "NZ", "NA2", "NA3", "IS">>
powerModes == <<"FULL", "MINSAVE", "MEDSAVE", "MAXSAVE", "SLEEP">>
tagEncodingNames == <<"FM0", "M2", "M4", "M8">>
sessionNames == <<"S0", "S1", "S2", "S3">>
targetNames == <<"A", "B", "AB", "BA">>
tariNames == <<"TARI_25US", "TARI_12_5US", "TARI_6_25US">>
gen2LinkFrequencyNames ==
  <<"LINK250KHZ", "LINK300KHZ", "LINK320KHZ", "LINK40KHZ", "LINK640KHZ">>
gen2ProtocolExtensionNames == <<"LICENSE_NONE", "LICENSE_IAV_DENATRAN">>
protocolNames == <<"", "", "", "ISO180006B", "", "GEN2", "ISO180006B_UCODE", "IPX64",
                   "IPX256">>
bankNames == <<"Reserved", "EPC", "TID", "User">>

(* A name written in full, or the beginning that some names share.         *)
Whole(name) == [whole |-> name, begins |-> {name}]
Beginning(names) == [whole |-> "", begins |-> names]
Unreadable == [whole |-> "unreadable", begins |-> {}]

NotListed == 99

(* listname: names are counted from 0.                                     *)
listname(list, id) ==
  IF id < Len(list) /\ list[id + 1] # "" THEN list[id + 1] ELSE "Unknown"

(* listid: the name itself, or the only one that begins with the text.     *)
listid(list, text) ==
  LET Starting == {i \in 1..Len(list) : list[i] # "" /\ list[i] \in text.begins}
  IN  IF text.whole # "" /\ \E i \in 1..Len(list) : list[i] = text.whole
      THEN (CHOOSE i \in 1..Len(list) : list[i] = text.whole) - 1
      ELSE IF Cardinality(Starting) = 1 THEN (CHOOSE i \in Starting : TRUE) - 1
      ELSE NotListed

OPEN == 255
regionName(region) == IF region = OPEN THEN "OPEN" ELSE listname(regions, region)

(* Seeded: the region that is not in the table is forgotten.               *)
regionIDSeeded(text) == listid(regions, text)

regionID(text) == IF text.whole = "OPEN" THEN OPEN ELSE listid(regions, text)

-------------------------------------------------------------------------------
(* Read plans.  A filter is none, a tag's EPC, a Gen2 or an ISO select; a  *)
(* tag operation is none, a Gen2 ReadData or any other.                    *)

None == [type |-> "null"]

(* printFilter: no text for an ISO select but a word without its key.      *)
printFilter(filter) ==
  CASE filter.type = "null"     -> [at |-> "Filter", text |-> [type |-> "null"]]
    [] filter.type = "tag data" -> [at |-> "Filter", text |-> filter]
    [] filter.type = "gen2"     ->
         [at |-> "Filter",
          text |-> [filter EXCEPT !.bank = Whole(listname(bankNames, @))]]
    [] filter.type = "iso"      -> [at |-> "Protocol", text |-> None]

(* printTagop: any operation but ReadData is written as none.              *)
printTagop(tagop) ==
  IF tagop.type = "ReadData"
  THEN [tagop EXCEPT !.bank = Whole(listname(bankNames, @))] ELSE None

parseFilter(text) ==
  CASE text.type = "gen2" -> [text EXCEPT !.bank = listid(bankNames, @)]
    [] OTHER -> text

parseTagop(text) ==
  IF text.type = "ReadData" THEN [text EXCEPT !.bank = listid(bankNames, @)] ELSE None

(* printReadPlan: a filter without a key sticks to the protocol before it. *)
SimpleText(plan) ==
  LET filter == printFilter(plan.filter)
      protocol == listname(protocolNames, plan.protocol)
  IN  [Antennas |-> plan.antennas,
       Protocol |-> IF filter.at = "Protocol" THEN Unreadable ELSE Whole(protocol),
       Filter |-> filter.text,
       Op |-> printTagop(plan.tagop),
       UseFastSearch |-> plan.useFastSearch,
       Weight |-> plan.weight]

printReadPlan(plan) ==
  IF plan.type = "multi"
  THEN [kind |-> "MultiReadPlan", plans |-> [i \in DOMAIN plan.plans |-> SimpleText(plan.plans[i])]]
  ELSE [kind |-> "SimpleReadPlan", plans |-> <<SimpleText(plan)>>]

SimpleRead(text) ==
  [type |-> "simple", antennas |-> text.Antennas,
   protocol |-> listid(protocolNames, text.Protocol),
   filter |-> parseFilter(text.Filter), tagop |-> parseTagop(text.Op),
   useFastSearch |-> text.UseFastSearch, weight |-> text.Weight]

Misread(plan) ==
  \/ plan.protocol = NotListed
  \/ plan.filter.type = "gen2" /\ plan.filter.bank = NotListed
  \/ plan.tagop.type = "ReadData" /\ plan.tagop.bank = NotListed

(* parseReadPlan: one bad plan spoils the list.                            *)
parseReadPlan(text) ==
  LET plans == [i \in DOMAIN text.plans |-> SimpleRead(text.plans[i])]
  IN  CASE \E i \in DOMAIN plans : Misread(plans[i]) -> [type |-> "invalid"]
        [] text.kind = "MultiReadPlan" /\ ~\E i \in DOMAIN plans : Misread(plans[i]) ->
             [type |-> "multi", plans |-> plans]
        [] OTHER -> plans[1]

-------------------------------------------------------------------------------
(* Statistics: a set of flags, printed by name.                            *)

StatsNames == <<"ANTENNA", "CONNECTEDANTENNAPORTS", "FREQUENCY", "NOISEFLOOR",
                "PROTOCOL", "RFONTIME", "TEMPERATURE">>
AllStats == {StatsNames[i] : i \in DOMAIN StatsNames}

printReaderStats(flags) ==
  [names |-> CASE flags = {}       -> <<"NONE">>
               [] flags = AllStats -> <<"ALL">>
               [] OTHER            -> SelectSeq(StatsNames, LAMBDA name : name \in flags)]

parseStats(text) ==
  UNION {CASE n = "NONE" -> {} [] n = "ALL" -> AllStats [] OTHER -> {n} :
           n \in {text.names[i] : i \in DOMAIN text.names}}

-------------------------------------------------------------------------------
(* The switch of getSetOneParam.                                           *)

Lists8 == {"ANTENNA_PORTSWITCHGPOS", "GPIO_INPUTLIST", "GPIO_OUTPUTLIST", "TRIGGER_READ_GPI"}
Words == {"BAUDRATE", "COMMANDTIMEOUT", "TRANSPORTTIMEOUT", "READ_ASYNCOFFTIME",
          "READ_ASYNCONTIME", "REGION_HOPTIME"}
Booleans ==
  {"ANTENNA_CHECKPORT", "TAGREADDATA_RECORDHIGHESTRSSI", "TAGREADDATA_UNIQUEBYANTENNA",
   "TAGREADDATA_UNIQUEBYDATA", "TAGREADDATA_REPORTRSSIINDBM",
   "STATUS_ENABLE_ANTENNAREPORT", "STATUS_ENABLE_FREQUENCYREPORT",
   "STATUS_ENABLE_TEMPERATUREREPORT", "TAGREADDATA_UNIQUEBYPROTOCOL",
   "TAGREADDATA_ENABLEREADFILTER"}
Hexadecimals == {"GEN2_ACCESSPASSWORD"}
Integers32 == {"RADIO_READPOWER", "RADIO_WRITEPOWER", "TAGREADDATA_READFILTERTIMEOUT"}
Lists32 == {"PROBEBAUDRATES", "REGION_HOPTABLE"}
Maps == {"ANTENNA_TXRXMAP"}
PortValues == {"ANTENNA_SETTLINGTIMELIST", "RADIO_PORTREADPOWERLIST",
               "RADIO_PORTWRITEPOWERLIST"}
QAlgorithms == {"GEN2_Q"}
AsPrinted == Lists8 \cup Words \cup Booleans \cup Hexadecimals \cup Integers32
               \cup Lists32 \cup Maps \cup PortValues \cup QAlgorithms

(* The parameters with a table of names: what the two values tried stand   *)
(* for (values are numbers in the code), and the table.                    *)
NameTable ==
  "GEN2_TARI" :> tariNames @@ "GEN2_TAGENCODING" :> tagEncodingNames
  @@ "GEN2_PROTOCOLEXTENSION" :> gen2ProtocolExtensionNames
  @@ "GEN2_SESSION" :> sessionNames @@ "GEN2_TARGET" :> targetNames
  @@ "POWERMODE" :> powerModes @@ "TAGOP_PROTOCOL" :> protocolNames

Number(name) ==
  CASE name = "GEN2_TARGET"    -> "A" :> 0 @@ "B" :> 1 @@ "AB" :> 2 @@ "BA" :> 3
    [] name = "TAGOP_PROTOCOL" -> "a" :> 5 @@ "b" :> 29
    [] name = "POWERMODE"      -> "a" :> 0 @@ "b" :> 4 @@ "INVALID" :> 5
    [] name = "REGION_ID"      -> "NONE" :> 0 @@ "a" :> 7 @@ "b" :> OPEN @@ "unlisted" :> NotListed
    [] OTHER                  -> "a" :> 0 @@ "b" :> 1

ValueOf(name, number) ==
  IF \E v \in DOMAIN Number(name) : Number(name)[v] = number
  THEN CHOOSE v \in DOMAIN Number(name) : Number(name)[v] = number ELSE "illegal"

(* A link frequency is printed from the module's code, or from 250, 320 or *)
(* 640; a name is turned into those three or into its place in the table.  *)
LinkCode(v) ==
  CASE v \in {"0", "250"} -> 0 [] v \in {"2", "320"} -> 2
    [] v \in {"4", "640"} -> 4 [] v = "3" -> 3 [] OTHER -> NotListed
LinkFrequency(id) ==
  CASE id = 0 -> "250" [] id = 2 -> "320" [] id = 4 -> "640"
    [] id = NotListed -> "unparsed" [] OTHER -> "illegal"

Simple(protocol, filter, tagop) ==
  [type |-> "simple", antennas |-> <<1, 2>>, protocol |-> protocol, filter |-> filter,
   tagop |-> tagop, useFastSearch |-> FALSE, weight |-> 1]
Gen2Select(bank) == [type |-> "gen2", invert |-> TRUE, bank |-> bank, pointer |-> 16, mask |-> "m"]
ReadData(bank) == [type |-> "ReadData", bank |-> bank, wordAddress |-> 0, len |-> 2]
PlanOf ==
  "a" :> [type |-> "multi", plans |-> <<Simple(5, Gen2Select(1), None),
                                        Simple(5, None, ReadData(2))>>]
  @@ "b" :> Simple(3, [type |-> "iso"], None)
  @@ "initial" :> Simple(5, None, None)
StatsOf ==
  "a" :> AllStats @@ "b" :> {"ANTENNA", "RFONTIME"} @@ "initial" :> {}

(* getSetOneParam with PARAM_OPTION_GET ...                                *)
Text(name, v) ==
  CASE name \in AsPrinted       -> [whole |-> v, begins |-> {}]
    [] name \in DOMAIN NameTable -> Whole(listname(NameTable[name], Number(name)[v]))
    [] name = "REGION_ID"       -> Whole(regionName(Number(name)[v]))
    [] name = "GEN2_BLF"        -> Whole(listname(gen2LinkFrequencyNames, LinkCode(v)))
    [] name = "READ_PLAN"       -> printReadPlan(PlanOf[v])
    [] name = "READER_STATS_ENABLE" -> printReaderStats(StatsOf[v])
    [] OTHER                   -> [whole |-> "", begins |-> {}]

(* ... and with PARAM_OPTION_SET: the value that is set, "unparsed" when   *)
(* there is none, "nothing" for a parameter the switch does not have.  No  *)
(* region and an unlisted one differ: the second is passed on.             *)
ReadBack(name, text) ==
  CASE text = Unreadable /\ name \in AsPrinted \cup {"READ_PLAN", "READER_STATS_ENABLE"} ->
         "unparsed"
    [] text # Unreadable /\ name \in AsPrinted -> text.whole
    [] name \in DOMAIN NameTable ->
         LET id == listid(NameTable[name], text)
         IN  IF id = NotListed THEN "unparsed" ELSE ValueOf(name, id)
    [] name = "REGION_ID" ->
         LET id == regionID(text)
         IN  IF id = 0 THEN "unparsed" ELSE ValueOf(name, id)
    [] name = "GEN2_BLF" -> LinkFrequency(listid(gen2LinkFrequencyNames, text))
    [] text # Unreadable /\ name = "READ_PLAN" ->
         LET plan == parseReadPlan(text)
         IN  IF plan.type = "invalid" THEN "unparsed"
             ELSE CHOOSE v \in DOMAIN PlanOf : PlanOf[v] = plan
    [] text # Unreadable /\ name = "READER_STATS_ENABLE" ->
         CHOOSE v \in DOMAIN StatsOf : StatsOf[v] = parseStats(text)
    [] OTHER -> "nothing"
=============================================================================
