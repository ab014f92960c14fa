---------------------- MODULE SettingsAndOperationsProofs ---------------------
(***************************************************************************)
(* Proofs about the settings of a reader and its tag operations: for every *)
(* parameter, every module and every list of rates, what connecting and    *)
(* ending agree with the module (whether messages carry a CRC, the baud    *)
(* rate, the region) and what a get returns of what was set; for every set *)
(* of passwords, any number of tags and every operation of the tables,     *)
(* what outlives a tag operation, what its messages are made of and what   *)
(* becomes of its answer.                                                  *)
(***************************************************************************)
EXTENDS ReaderSettings, TagOperations, TLAPS

ModuleFields == {"rate", "crc", "streams", "autoread", "program", "items", "saved"}

(* While nothing was left in doubt host and module agree, and an open port *)
(* starts with the CRC on: whatever closes it switches it on.              *)
CrcInv ==
  /\ {crc, module.crc, unclean} \subseteq BOOLEAN
  /\ DOMAIN module = ModuleFields
  /\ ~unclean => crc = module.crc
  /\ stage = "closed" => crc

(* A stream that is stopped leaves agreement, or doubt.                    *)
LEMMA StreamStopped ==
  ASSUME CrcInv, NEW o, VerifySearchStatus(o)
  PROVE  /\ {crc', module'.crc, unclean'} \subseteq BOOLEAN
         /\ DOMAIN module' = ModuleFields
         /\ ~unclean' => crc' = module'.crc
<1>1. PICK told \in BOOLEAN :
        LET off == transportType = "usb" /\ told
        IN  /\ crc' = (o = "ok" /\ ~off)
            /\ module' = [module EXCEPT !.streams = @ /\ o = "timeout",
                                        !.crc = @ /\ ~(o = "ok" /\ off)]
            /\ unclean' = (unclean \/ o # "ok" \/ (crc' /\ ~module.crc))
  BY DEF VerifySearchStatus
<1> DEFINE off == transportType = "usb" /\ told
<1>2. /\ crc' = (o = "ok" /\ ~off)
      /\ DOMAIN module' = ModuleFields
      /\ module'.crc = (module.crc /\ ~(o = "ok" /\ off))
      /\ unclean' = (unclean \/ o # "ok" \/ (crc' /\ ~module.crc))
  BY <1>1 DEF CrcInv, ModuleFields
<1> HIDE DEF off
<1>3. {crc, module.crc, unclean} \subseteq BOOLEAN
  BY DEF CrcInv
<1>4. {crc', module'.crc, unclean'} \subseteq BOOLEAN
  BY <1>2, <1>3
<1>5. ASSUME ~unclean' PROVE crc' = module'.crc
  <2>1. o = "ok" /\ ~unclean /\ ~(crc' /\ ~module.crc)
    BY <1>2, <1>5
  <2>2. CASE off
    BY <1>2, <2>1, <2>2
  <2>3. CASE ~off
    BY <1>2, <1>3, <2>1, <2>3
  <2>4. QED
    BY <2>2, <2>3
<1>6. QED
  BY <1>2, <1>4, <1>5

(* No step breaks the agreement.                                           *)
LEMMA CrcStep ==
  ASSUME CrcInv, [SettingNext]_settingVars
  PROVE  CrcInv'
<1> USE DEF settingVars, fixed, bits, wire, stageVars, ghosts
<1> USE DEF ModuleFields
<1>a. {crc, module.crc, unclean} \subseteq BOOLEAN /\ DOMAIN module = ModuleFields
  BY DEF CrcInv
<1>1. CASE Connect
  BY <1>1 DEF Connect, CrcInv
<1>2. CASE ProbeContact
  BY <1>2 DEF ProbeContact, CrcInv
<1>3. CASE ProbeTimesOut
  BY <1>3 DEF ProbeTimesOut, GivesUp, CrcInv
<1>4. CASE ProbeStopsStream
  <2>1. \E o : VerifySearchStatus(o)
    BY <1>4 DEF ProbeStopsStream
  <2>2. stage' # "closed"
    BY <1>4 DEF ProbeStopsStream, GivesUp
  <2>3. QED
    BY <2>1, <2>2, StreamStopped DEF CrcInv
<1>5. CASE BootProgram
  BY <1>5 DEF BootProgram, Booting, Advance, CrcInv
<1>6. CASE BootPowerMode
  BY <1>6 DEF BootPowerMode, Booting, Advance, CrcInv
<1>7. CASE BootTransport
  <2>1. /\ stage' # "closed" /\ unclean' = unclean
        /\ \/ crc' = FALSE /\ module' = [module EXCEPT !.crc = FALSE]
           \/ crc' = crc /\ module' = module
    BY <1>7 DEF BootTransport, Booting, Advance
  <2>2. QED
    BY <1>a, <2>1 DEF CrcInv
<1>8. CASE BootBaudRate
  BY <1>8 DEF BootBaudRate, Booting, Advance, CrcInv
<1>9. CASE BootParameters
  BY <1>9 DEF BootParameters, Booting, Advance, CrcInv
<1>10. CASE BootProduct
  BY <1>10 DEF BootProduct, Booting, Advance, CrcInv
<1>11. CASE BootRegion
  BY <1>11 DEF BootRegion, Booting, Advance, CrcInv
<1>12. CASE BootProtocol
  BY <1>12 DEF BootProtocol, Booting, Advance, CrcInv
<1>13. CASE BootAntennas
  BY <1>13 DEF BootAntennas, Booting, Advance, CrcInv
<1>14. CASE BootM5e
  BY <1>14 DEF BootM5e, Booting, Advance, CrcInv
<1>15. CASE BootFilter
  BY <1>15 DEF BootFilter, Booting, Advance, CrcInv
<1>16. CASE BootFails
  BY <1>16 DEF BootFails, GivesUp, CrcInv
<1>17. CASE BootInterrupted
  <2>1. stage' # "closed"
    BY <1>17 DEF BootInterrupted, GivesUp
  <2>2. (\E o : VerifySearchStatus(o)) \/ UNCHANGED <<wire, module>>
    BY <1>17 DEF BootInterrupted
  <2>3. QED
    BY <2>1, <2>2, StreamStopped DEF CrcInv
<1>18. CASE ParamGet
  BY <1>18 DEF ParamGet, CrcInv
<1>19. CASE ParamSet
  <2>1. /\ UNCHANGED <<crc, unclean, stage>>
        /\ DOMAIN module' = DOMAIN module /\ module'.crc = module.crc
    BY <1>a, <1>19 DEF ParamSet, SetTo
  <2>2. QED
    BY <2>1 DEF CrcInv
<1>20. CASE SetBaudRate
  BY <1>20 DEF SetBaudRate, CrcInv
<1>21. CASE ChangeProtocol
  <2>1. \E items : module' = [module EXCEPT !.items = items]
    BY <1>21 DEF ChangeProtocol
  <2>2. UNCHANGED <<crc, unclean, stage>>
    BY <1>21 DEF ChangeProtocol
  <2>3. QED
    BY <2>1, <2>2 DEF CrcInv
<1>22. CASE SaveProfile
  BY <1>22 DEF SaveProfile, CrcInv
<1>23. CASE RestoreProfile
  <2>1. /\ DOMAIN module' = DOMAIN module /\ module'.crc = module.crc
        /\ UNCHANGED <<crc, unclean>> /\ stage' # "closed"
    BY <1>a, <1>23 DEF RestoreProfile
  <2>2. QED
    BY <2>1 DEF CrcInv
<1>24. CASE FirmwareLoad
  <2>1. PICK n \in 0..5 :
          /\ DOMAIN module' = ModuleFields
          /\ module'.crc = (module.crc \/ n >= 2)
          /\ crc' = (crc \/ n >= 1)
          /\ unclean' = (unclean \/ (n = 1 /\ ~module.crc))
          /\ stage' # "closed"
    BY <1>a, <1>24 DEF FirmwareLoad
  <2>2. CASE n = 0
    BY <1>a, <2>1, <2>2 DEF CrcInv
  <2>3. CASE n = 1
    BY <1>a, <2>1, <2>3 DEF CrcInv
  <2>4. CASE n >= 2
    BY <1>a, <2>1, <2>4 DEF CrcInv
  <2>5. QED
    BY <2>2, <2>3, <2>4
<1>25. CASE Reboot
  BY <1>25 DEF Reboot, CrcInv
<1>26. CASE RestartModule
  BY <1>26 DEF RestartModule, CrcInv
<1>27. CASE Destroy
  <2>1. /\ DOMAIN module' = ModuleFields
        /\ module'.crc \in {module.crc, TRUE}
        /\ crc' = TRUE
        /\ unclean' = (unclean \/ ~module'.crc)
    BY <1>a, <1>27 DEF Destroy
  <2>2. QED
    BY <1>a, <2>1 DEF CrcInv
<1>28. CASE UNCHANGED settingVars
  BY <1>28 DEF CrcInv
<1>29. QED
  BY <1>1, <1>2, <1>3, <1>4, <1>5, <1>6, <1>7, <1>8, <1>9, <1>10, <1>11, <1>12, <1>13, <1>14,
     <1>15, <1>16, <1>17, <1>18, <1>19, <1>20, <1>21, <1>22, <1>23, <1>24, <1>25, <1>26,
     <1>27, <1>28 DEF SettingNext

(* Whatever was refused, lost, interrupted or restarted: a reader that is  *)
(* connected or closed, and whose streams ended with their own answer,     *)
(* agrees with the module on the CRC of the messages.                      *)
THEOREM CrcCorrect == SettingSpec => []CrcAgreed
<1>1. SettingInit => CrcInv
  <2>1. SettingInit => /\ crc = TRUE /\ unclean = FALSE
                       /\ module.crc = TRUE /\ DOMAIN module = ModuleFields
    BY DEF SettingInit, ModuleFields
  <2>2. QED
    BY <2>1 DEF CrcInv
<1>2. CrcInv /\ [SettingNext]_settingVars => CrcInv'
  BY CrcStep
<1>3. CrcInv => CrcAgreed
  BY DEF CrcInv, CrcAgreed
<1>4. QED
  BY <1>1, <1>2, <1>3, PTL DEF SettingSpec

-------------------------------------------------------------------------------

(* The tables of the two switches: what every row says of its parameter, and *)
(* that the row of TMR_SR_paramGet goes with that of TMR_SR_paramSet.        *)

(* What a row says, column by column: the provers have a record's fields   *)
(* only from its record constructor, so the columns get names.             *)
Columns == {"how", "field", "item", "models", "checked", "elsewhere"}
IsRow(r) == r = [c \in Columns |-> r[c]]
HowOf(r) == r.how
FieldOf(r) == r.field
ItemOf(r) == r.item
ModelsOf(r) == r.models
ElseOf(r) == r.elsewhere

(* A row made from its four columns.                                       *)
LEMMA RowFacts ==
  ASSUME NEW h, NEW f, NEW i, NEW m
  PROVE  /\ IsRow(Row(h, f, i, m)) /\ HowOf(Row(h, f, i, m)) = h
         /\ FieldOf(Row(h, f, i, m)) = f /\ ItemOf(Row(h, f, i, m)) = i
         /\ ModelsOf(Row(h, f, i, m)) = m /\ ElseOf(Row(h, f, i, m)) = "NOT_FOUND"
<1>1. IsRow(Row(h, f, i, m))
  BY DEF Row, IsRow, Columns
<1>2. /\ HowOf(Row(h, f, i, m)) = h /\ FieldOf(Row(h, f, i, m)) = f
      /\ ItemOf(Row(h, f, i, m)) = i /\ ModelsOf(Row(h, f, i, m)) = m
      /\ ElseOf(Row(h, f, i, m)) = "NOT_FOUND"
  BY DEF Row, HowOf, FieldOf, ItemOf, ModelsOf, ElseOf
<1>3. QED
  BY <1>1, <1>2

(* Rows that go the same way to the same place.                            *)
Same(r, s) == HowOf(r) = HowOf(s) /\ FieldOf(r) = FieldOf(s) /\ ItemOf(r) = ItemOf(s)

(* A value that is checked: the rest of the row stays.                     *)
LEMMA CheckedFacts ==
  ASSUME NEW r, IsRow(r)
  PROVE  /\ IsRow(Checked(r)) /\ Same(Checked(r), r)
         /\ ModelsOf(Checked(r)) = ModelsOf(r) /\ ElseOf(Checked(r)) = ElseOf(r)
<1>1. Checked(r) = [c \in Columns |-> IF c = "checked" THEN TRUE ELSE r[c]]
  <2>1. DOMAIN r = Columns
    BY DEF IsRow
  <2>2. QED
    BY Zenon, <2>1 DEF Checked
<1>2. IsRow(Checked(r))
  BY <1>1 DEF IsRow
<1>3. /\ HowOf(Checked(r)) = HowOf(r) /\ FieldOf(Checked(r)) = FieldOf(r)
      /\ ItemOf(Checked(r)) = ItemOf(r) /\ ModelsOf(Checked(r)) = ModelsOf(r)
      /\ ElseOf(Checked(r)) = ElseOf(r)
  BY <1>1 DEF HowOf, Columns, FieldOf, ItemOf, ModelsOf, ElseOf
<1>4. QED
  BY <1>2, <1>3 DEF Same

(* Two tables without a common name.                                       *)
Apart(f, g) == \A k \in DOMAIN g : k \notin DOMAIN f

(* The rows of f are t's.                                                  *)
Part(f, t) == DOMAIN f \subseteq DOMAIN t /\ \A k \in DOMAIN f : t[k] = f[k]

(* A part of a table is part of a longer one.                              *)
LEMMA PartLeft ==
  ASSUME NEW f, NEW g, NEW h, Part(h, f)
  PROVE  Part(h, f ++ g)
BY DEF Part, ++

(* Of two tables put together, the second keeps the names that are not the *)
(* first's.                                                                *)
LEMMA PartRight ==
  ASSUME NEW f, NEW g, Apart(f, g)
  PROVE  Part(g, f ++ g)
BY DEF Part, Apart, ++

(* Two tables that share no name with a third, put together.               *)
LEMMA ApartJoin ==
  ASSUME NEW f, NEW g, NEW h, Apart(f, h), Apart(g, h)
  PROVE  Apart(f ++ g, h)
BY DEF Apart, ++

(* A table is a part of itself.                                            *)
LEMMA PartSelf ==
  ASSUME NEW f
  PROVE  Part(f, f)
BY DEF Part

(* A row with these columns.                                               *)
Like(r, h, f, i, m, e) ==
  /\ IsRow(r) /\ HowOf(r) = h /\ FieldOf(r) = f /\ ItemOf(r) = i
  /\ ModelsOf(r) = m /\ ElseOf(r) = e

(* The operators that make rows, and their columns.                        *)
LEMMA RowLike ==
  ASSUME NEW h, NEW f, NEW i, NEW m
  PROVE  Like(Row(h, f, i, m), h, f, i, m, "NOT_FOUND")
BY RowFacts DEF Like

(* A row whose value is checked.                                           *)
LEMMA CheckedLike ==
  ASSUME NEW r, NEW h, NEW f, NEW i, NEW m, NEW e, Like(r, h, f, i, m, e)
  PROVE  Like(Checked(r), h, f, i, m, e)
<1>1. IsRow(r)
  BY DEF Like
<1>2. QED
  BY <1>1, CheckedFacts DEF Like, Same

(* A row for some modules only.                                            *)
LEMMA OnlyLike ==
  ASSUME NEW r, NEW h, NEW f, NEW i, NEW m, NEW e, NEW n, Like(r, h, f, i, m, e)
  PROVE  Like(Only(n, r), h, f, i, n, e)
<1>1. Only(n, r) = [c \in Columns |-> IF c = "models" THEN n ELSE r[c]]
  <2>1. DOMAIN r = Columns
    BY DEF IsRow, Like
  <2>2. QED
    BY Zenon, <2>1 DEF Only
<1>2. IsRow(Only(n, r))
  BY <1>1 DEF IsRow
<1>3. /\ HowOf(Only(n, r)) = HowOf(r) /\ FieldOf(Only(n, r)) = FieldOf(r)
      /\ ItemOf(Only(n, r)) = ItemOf(r)
      /\ ModelsOf(Only(n, r)) = n
      /\ ElseOf(Only(n, r)) = ElseOf(r)
  BY <1>1 DEF HowOf, Columns, FieldOf, ItemOf, ModelsOf, ElseOf
<1>4. QED
  BY <1>2, <1>3 DEF Like

(* A row with another answer on the other modules.                         *)
LEMMA ElsewhereLike ==
  ASSUME NEW r, NEW h, NEW f, NEW i, NEW m, NEW e, NEW n, Like(r, h, f, i, m, e)
  PROVE  Like(Elsewhere(n, r), h, f, i, m, n)
<1>1. Elsewhere(n, r) = [c \in Columns |-> IF c = "elsewhere" THEN n ELSE r[c]]
  <2>1. DOMAIN r = Columns
    BY DEF IsRow, Like
  <2>2. QED
    BY Zenon, <2>1 DEF Elsewhere
<1>2. IsRow(Elsewhere(n, r))
  BY <1>1 DEF IsRow
<1>3. /\ HowOf(Elsewhere(n, r)) = HowOf(r) /\ FieldOf(Elsewhere(n, r)) = FieldOf(r)
      /\ ItemOf(Elsewhere(n, r)) = ItemOf(r)
      /\ ModelsOf(Elsewhere(n, r)) = ModelsOf(r)
      /\ ElseOf(Elsewhere(n, r)) = n
  BY <1>1 DEF HowOf, Columns, FieldOf, ItemOf, ModelsOf, ElseOf
<1>4. QED
  BY <1>2, <1>3 DEF Like

(* The shorthands for the common rows: kept in the reader structure, ...   *)
LEMMA KeepsLike ==
  ASSUME NEW f
  PROVE  Like(Keeps(f), "keep", f, NoItem, Models, "NOT_FOUND")
BY RowLike DEF Keeps

(* ... sent to the module, ...                                             *)
LEMMA SendsLike ==
  ASSUME NEW i
  PROVE  Like(Sends(i), "send", "none", i, Models, "NOT_FOUND")
BY RowLike DEF Sends

(* ... sent, then kept, ...                                                *)
LEMMA SendsKeepsLike ==
  ASSUME NEW f, NEW i, NEW m
  PROVE  Like(SendsKeeps(i, f, m), "send keep", f, i, m, "NOT_FOUND")
BY RowLike DEF SendsKeeps

(* ... kept, then sent, ...                                                *)
LEMMA KeepsSendsLike ==
  ASSUME NEW f, NEW i
  PROVE  Like(KeepsSends(f, i), "keep send", f, i, Models, "NOT_FOUND")
BY RowLike DEF KeepsSends

(* ... asked of the module, ...                                            *)
LEMMA AsksLike ==
  ASSUME NEW i
  PROVE  Like(Asks(i), "ask", "none", i, Models, "NOT_FOUND")
BY RowLike DEF Asks

(* ... merged with what the module has, ...                                *)
LEMMA MergesLike ==
  ASSUME NEW i
  PROVE  Like(Merges(i), "merge", "none", i, Models, "NOT_FOUND")
BY RowLike DEF Merges

(* ... refused.                                                            *)
LEMMA FailsLike ==
  ASSUME NEW s
  PROVE  Like(Fails(s), s, "none", NoItem, Models, "NOT_FOUND")
BY RowLike DEF Fails

(* The names of the tables of TMR_SR_paramSet, one lemma each.             *)
LEMMA SetANames ==
  DOMAIN SetA =
    {"REGION_ID", "STATUS_ENABLE_ANTENNAREPORT",
     "STATUS_ENABLE_FREQUENCYREPORT", "STATUS_ENABLE_TEMPERATUREREPORT",
     "BAUDRATE", "PROBEBAUDRATES", "COMMANDTIMEOUT", "TRANSPORTTIMEOUT"}
BY DEF SetA

(* The names in SetProduct.                                                *)
LEMMA SetProductNames ==
  DOMAIN SetProduct =
    {"URI", "PRODUCT_GROUP_ID", "PRODUCT_GROUP", "PRODUCT_ID",
     "TAGREADATA_TAGOPSUCCESSCOUNT", "TAGREADATA_TAGOPFAILURECOUNT"}
BY DEF SetProduct, ++, Each

(* The names in SetB.                                                      *)
LEMMA SetBNames ==
  DOMAIN SetB =
    {"RADIO_ENABLEPOWERSAVE", "RADIO_ENABLESJC",
     "TAGREADDATA_UNIQUEBYPROTOCOL", "TAGREADDATA_READFILTERTIMEOUT",
     "TAGREADDATA_ENABLEREADFILTER", "RADIO_READPOWER", "RADIO_WRITEPOWER",
     "RADIO_PORTREADPOWERLIST", "RADIO_PORTWRITEPOWERLIST",
     "ANTENNA_SETTLINGTIMELIST", "ANTENNA_CHECKPORT",
     "TAGREADDATA_RECORDHIGHESTRSSI", "TAGREADDATA_REPORTRSSIINDBM",
     "TAGREADDATA_UNIQUEBYANTENNA", "TAGREADDATA_UNIQUEBYDATA"}
BY DEF SetB

(* The names in SetC.                                                      *)
LEMMA SetCNames ==
  DOMAIN SetC =
    {"ANTENNA_PORTSWITCHGPOS", "TRIGGER_READ_GPI", "ANTENNA_TXRXMAP",
     "REGION_HOPTABLE", "REGION_HOPTIME", "REGION_LBT_ENABLE"}
BY DEF SetC

(* The names in SetD.                                                      *)
LEMMA SetDNames ==
  DOMAIN SetD =
    {"TAGOP_ANTENNA", "TAGOP_PROTOCOL", "READ_PLAN"}
BY DEF SetD

(* The names in SetE.                                                      *)
LEMMA SetENames ==
  DOMAIN SetE =
    {"POWERMODE", "USERMODE", "GPIO_INPUTLIST", "GPIO_OUTPUTLIST",
     "RADIO_POWERMAX", "RADIO_POWERMIN", "REGION_SUPPORTEDREGIONS",
     "ANTENNA_PORTLIST", "ANTENNA_CONNECTEDPORTLIST",
     "VERSION_SUPPORTEDPROTOCOLS", "RADIO_TEMPERATURE", "VERSION_HARDWARE",
     "VERSION_MODEL", "VERSION_SOFTWARE", "ANTENNA_RETURNLOSS",
     "GEN2_PROTOCOLEXTENSION"}
BY DEF SetE, ++, Each

(* The names in SetF.                                                      *)
LEMMA SetFNames ==
  DOMAIN SetF =
    {"GEN2_Q", "GEN2_TAGENCODING", "GEN2_SESSION", "GEN2_TARGET", "GEN2_BLF",
     "GEN2_TARI", "GEN2_WRITEMODE", "ISO180006B_BLF",
     "ISO180006B_MODULATION_DEPTH", "ISO180006B_DELIMITER",
     "GEN2_ACCESSPASSWORD"}
BY DEF SetF

(* The names in SetG.                                                      *)
LEMMA SetGNames ==
  DOMAIN SetG =
    {"READER_STATISTICS", "READER_STATS", "READER_STATS_ENABLE",
     "READER_WRITE_REPLY_TIMEOUT", "READER_WRITE_EARLY_EXIT", "METADATAFLAG"}
BY DEF SetG

(* The names in SetExtendedEPC.                                            *)
LEMMA SetExtendedEPCNames ==
  DOMAIN SetExtendedEPC =
    {"EXTENDEDEPC"}
BY DEF SetExtendedEPC

(* The names in SetBap.                                                    *)
LEMMA SetBapNames ==
  DOMAIN SetBap =
    {"GEN2_BAP"}
BY DEF SetBap

(* The names in SetTimes.                                                  *)
LEMMA SetTimesNames ==
  DOMAIN SetTimes =
    {"READ_ASYNCONTIME", "READ_ASYNCOFFTIME"}
BY DEF SetTimes

(* The names of TMR_SR_paramGet's tables, one lemma each.                  *)
LEMMA GetANames ==
  DOMAIN GetA =
    {"BAUDRATE", "PROBEBAUDRATES", "URI", "COMMANDTIMEOUT",
     "TRANSPORTTIMEOUT", "REGION_ID", "RADIO_ENABLEPOWERSAVE",
     "RADIO_ENABLESJC", "TAGREADDATA_READFILTERTIMEOUT",
     "TAGREADDATA_ENABLEREADFILTER", "EXTENDEDEPC"}
BY DEF GetA

(* The names in GetB.                                                      *)
LEMMA GetBNames ==
  DOMAIN GetB =
    {"RADIO_READPOWER", "RADIO_WRITEPOWER", "ANTENNA_CHECKPORT",
     "TAGREADDATA_RECORDHIGHESTRSSI", "TAGREADDATA_REPORTRSSIINDBM",
     "TAGREADDATA_UNIQUEBYANTENNA", "TAGREADDATA_UNIQUEBYDATA",
     "TAGREADDATA_UNIQUEBYPROTOCOL", "PRODUCT_GROUP_ID", "PRODUCT_ID",
     "STATUS_ENABLE_ANTENNAREPORT", "STATUS_ENABLE_FREQUENCYREPORT",
     "STATUS_ENABLE_TEMPERATUREREPORT", "RADIO_POWERMAX", "RADIO_POWERMIN"}
BY DEF GetB

(* The names in GetC.                                                      *)
LEMMA GetCNames ==
  DOMAIN GetC =
    {"ANTENNA_PORTSWITCHGPOS", "TRIGGER_READ_GPI", "ANTENNA_SETTLINGTIMELIST",
     "RADIO_PORTREADPOWERLIST", "RADIO_PORTWRITEPOWERLIST",
     "ANTENNA_RETURNLOSS", "GPIO_INPUTLIST", "GPIO_OUTPUTLIST"}
BY DEF GetC

(* The names in GetD.                                                      *)
LEMMA GetDNames ==
  DOMAIN GetD =
    {"ANTENNA_PORTLIST", "ANTENNA_CONNECTEDPORTLIST", "ANTENNA_TXRXMAP",
     "REGION_HOPTABLE", "REGION_HOPTIME", "REGION_LBT_ENABLE",
     "TAGOP_ANTENNA", "TAGOP_PROTOCOL"}
BY DEF GetD

(* The names in GetE.                                                      *)
LEMMA GetENames ==
  DOMAIN GetE =
    {"POWERMODE", "USERMODE", "GEN2_Q", "GEN2_TAGENCODING", "GEN2_SESSION",
     "GEN2_TARGET", "GEN2_BLF", "GEN2_TARI", "GEN2_BAP", "GEN2_WRITEMODE",
     "GEN2_PROTOCOLEXTENSION", "ISO180006B_BLF",
     "ISO180006B_MODULATION_DEPTH", "ISO180006B_DELIMITER",
     "GEN2_ACCESSPASSWORD"}
BY DEF GetE

(* The names in GetF.                                                      *)
LEMMA GetFNames ==
  DOMAIN GetF =
    {"REGION_SUPPORTEDREGIONS", "VERSION_SUPPORTEDPROTOCOLS",
     "RADIO_TEMPERATURE", "VERSION_HARDWARE", "VERSION_SERIAL",
     "VERSION_MODEL", "VERSION_SOFTWARE"}
BY DEF GetF

(* The names in GetG.                                                      *)
LEMMA GetGNames ==
  DOMAIN GetG =
    {"READER_STATS", "READER_STATS_ENABLE", "READER_STATISTICS",
     "PRODUCT_GROUP", "READER_WRITE_REPLY_TIMEOUT", "READER_WRITE_EARLY_EXIT",
     "METADATAFLAG", "LICENSE_KEY", "USER_CONFIG",
     "TAGREADATA_TAGOPSUCCESSCOUNT", "TAGREADATA_TAGOPFAILURECOUNT"}
BY DEF GetG

(* The names in GetTimes.                                                  *)
LEMMA GetTimesNames ==
  DOMAIN GetTimes =
    {"READ_ASYNCONTIME", "READ_ASYNCOFFTIME", "READ_PLAN"}
BY DEF GetTimes

(* No parameter has two rows in the tables of Set.                         *)
LEMMA SetApart ==
  /\ \A f \in {SetA} :
       Apart(f, SetProduct)
  /\ \A f \in {SetA, SetProduct} :
       Apart(f, SetB)
  /\ \A f \in {SetA, SetProduct, SetB} :
       Apart(f, SetC)
  /\ \A f \in {SetA, SetProduct, SetB, SetC} :
       Apart(f, SetD)
  /\ \A f \in {SetA, SetProduct, SetB, SetC, SetD} :
       Apart(f, SetE)
  /\ \A f \in {SetA, SetProduct, SetB, SetC, SetD, SetE} :
       Apart(f, SetF)
  /\ \A f \in {SetA, SetProduct, SetB, SetC, SetD, SetE, SetF} :
       Apart(f, SetG)
  /\ \A f \in {SetA, SetProduct, SetB, SetC, SetD, SetE, SetF, SetG} :
       Apart(f, SetExtendedEPC)
  /\ \A f \in {SetA, SetProduct, SetB, SetC, SetD, SetE, SetF, SetG,
                    SetExtendedEPC} :
       Apart(f, SetBap)
  /\ \A f \in {SetA, SetProduct, SetB, SetC, SetD, SetE, SetF, SetG,
                    SetExtendedEPC, SetBap} :
       Apart(f, SetTimes)
<1>1. \A f \in {SetA} :
       Apart(f, SetProduct)
  BY SetANames, SetProductNames DEF Apart
<1>2. \A f \in {SetA, SetProduct} :
       Apart(f, SetB)
  BY SetANames, SetProductNames, SetBNames DEF Apart
<1>3. \A f \in {SetA, SetProduct, SetB} :
       Apart(f, SetC)
  BY SetANames, SetProductNames, SetBNames, SetCNames DEF Apart
<1>4. \A f \in {SetA, SetProduct, SetB, SetC} :
       Apart(f, SetD)
  BY SetANames, SetProductNames, SetBNames, SetCNames, SetDNames DEF Apart
<1>5. \A f \in {SetA, SetProduct, SetB, SetC, SetD} :
       Apart(f, SetE)
  BY SetANames, SetProductNames, SetBNames, SetCNames, SetDNames, SetENames DEF Apart
<1>6. \A f \in {SetA, SetProduct, SetB, SetC, SetD, SetE} :
       Apart(f, SetF)
  BY SetANames, SetProductNames, SetBNames, SetCNames, SetDNames, SetENames,
     SetFNames DEF Apart
<1>7. \A f \in {SetA, SetProduct, SetB, SetC, SetD, SetE, SetF} :
       Apart(f, SetG)
  BY SetANames, SetProductNames, SetBNames, SetCNames, SetDNames, SetENames,
     SetFNames, SetGNames DEF Apart
<1>8. \A f \in {SetA, SetProduct, SetB, SetC, SetD, SetE, SetF, SetG} :
       Apart(f, SetExtendedEPC)
  BY SetANames, SetProductNames, SetBNames, SetCNames, SetDNames, SetENames,
     SetFNames, SetGNames, SetExtendedEPCNames DEF Apart
<1>9. \A f \in {SetA, SetProduct, SetB, SetC, SetD, SetE, SetF, SetG,
                    SetExtendedEPC} :
       Apart(f, SetBap)
  BY SetANames, SetProductNames, SetBNames, SetCNames, SetDNames, SetENames,
     SetFNames, SetGNames, SetExtendedEPCNames, SetBapNames DEF Apart
<1>10. \A f \in {SetA, SetProduct, SetB, SetC, SetD, SetE, SetF, SetG,
                    SetExtendedEPC, SetBap} :
       Apart(f, SetTimes)
  BY SetANames, SetProductNames, SetBNames, SetCNames, SetDNames, SetENames,
     SetFNames, SetGNames, SetExtendedEPCNames, SetBapNames, SetTimesNames DEF Apart
<1>11. QED
  BY <1>1, <1>2, <1>3, <1>4, <1>5, <1>6, <1>7, <1>8, <1>9, <1>10

(* What a table says of a parameter is what Set says of it.                *)
LEMMA SetParts ==
  /\ Part(SetA, Set)
  /\ Part(SetProduct, Set)
  /\ Part(SetB, Set)
  /\ Part(SetC, Set)
  /\ Part(SetD, Set)
  /\ Part(SetE, Set)
  /\ Part(SetF, Set)
  /\ Part(SetG, Set)
  /\ Part(SetExtendedEPC, Set)
  /\ Part(SetBap, Set)
  /\ Part(SetTimes, Set)
BY SetApart, PartSelf, PartLeft, PartRight, ApartJoin DEF Set

(* No parameter has two rows in the tables of Get.                         *)
LEMMA GetApart ==
  /\ \A f \in {GetA} :
       Apart(f, GetB)
  /\ \A f \in {GetA, GetB} :
       Apart(f, GetC)
  /\ \A f \in {GetA, GetB, GetC} :
       Apart(f, GetD)
  /\ \A f \in {GetA, GetB, GetC, GetD} :
       Apart(f, GetE)
  /\ \A f \in {GetA, GetB, GetC, GetD, GetE} :
       Apart(f, GetF)
  /\ \A f \in {GetA, GetB, GetC, GetD, GetE, GetF} :
       Apart(f, GetG)
  /\ \A f \in {GetA, GetB, GetC, GetD, GetE, GetF, GetG} :
       Apart(f, GetTimes)
<1>1. \A f \in {GetA} :
       Apart(f, GetB)
  BY GetANames, GetBNames DEF Apart
<1>2. \A f \in {GetA, GetB} :
       Apart(f, GetC)
  BY GetANames, GetBNames, GetCNames DEF Apart
<1>3. \A f \in {GetA, GetB, GetC} :
       Apart(f, GetD)
  BY GetANames, GetBNames, GetCNames, GetDNames DEF Apart
<1>4. \A f \in {GetA, GetB, GetC, GetD} :
       Apart(f, GetE)
  BY GetANames, GetBNames, GetCNames, GetDNames, GetENames DEF Apart
<1>5. \A f \in {GetA, GetB, GetC, GetD, GetE} :
       Apart(f, GetF)
  BY GetANames, GetBNames, GetCNames, GetDNames, GetENames, GetFNames DEF Apart
<1>6. \A f \in {GetA, GetB, GetC, GetD, GetE, GetF} :
       Apart(f, GetG)
  BY GetANames, GetBNames, GetCNames, GetDNames, GetENames, GetFNames,
     GetGNames DEF Apart
<1>7. \A f \in {GetA, GetB, GetC, GetD, GetE, GetF, GetG} :
       Apart(f, GetTimes)
  BY GetANames, GetBNames, GetCNames, GetDNames, GetENames, GetFNames,
     GetGNames, GetTimesNames DEF Apart
<1>8. QED
  BY <1>1, <1>2, <1>3, <1>4, <1>5, <1>6, <1>7

(* What a table says of a parameter is what Get says of it.                *)
LEMMA GetParts ==
  /\ Part(GetA, Get)
  /\ Part(GetB, Get)
  /\ Part(GetC, Get)
  /\ Part(GetD, Get)
  /\ Part(GetE, Get)
  /\ Part(GetF, Get)
  /\ Part(GetG, Get)
  /\ Part(GetTimes, Get)
BY GetApart, PartSelf, PartLeft, PartRight, ApartJoin DEF Get

(* What the rows of TMR_SR_paramSet say, table by table.                   *)
LEMMA SetARows ==
  /\ Like(Set["REGION_ID"], "keep send connected", "regionId",
            Written.Region, Models, "NOT_FOUND")
  /\ Like(Set["STATUS_ENABLE_ANTENNAREPORT"], "keep", "streamStats ANTENNA",
            NoItem, Models, "NOT_FOUND")
  /\ Like(Set["STATUS_ENABLE_FREQUENCYREPORT"], "keep", "streamStats FREQUENCY",
            NoItem, Models, "NOT_FOUND")
  /\ Like(Set["STATUS_ENABLE_TEMPERATUREREPORT"], "keep", "streamStats TEMPERATURE",
            NoItem, Models, "NOT_FOUND")
  /\ Like(Set["BAUDRATE"], "rate", "baudRate", NoItem, Models, "NOT_FOUND")
  /\ Like(Set["PROBEBAUDRATES"], "keep", "probeBaudRates",
            NoItem, Models, "NOT_FOUND")
  /\ Like(Set["COMMANDTIMEOUT"], "keep", "commandTimeout",
            NoItem, Models, "NOT_FOUND")
  /\ Like(Set["TRANSPORTTIMEOUT"], "keep", "transportTimeout",
            NoItem, Models, "NOT_FOUND")
<1>1. /\ Set["REGION_ID"] =
           Row("keep send connected", "regionId", Written.Region, Models)
      /\ Set["STATUS_ENABLE_ANTENNAREPORT"] = Keeps("streamStats ANTENNA")
      /\ Set["STATUS_ENABLE_FREQUENCYREPORT"] = Keeps("streamStats FREQUENCY")
      /\ Set["STATUS_ENABLE_TEMPERATUREREPORT"] =
           Keeps("streamStats TEMPERATURE")
      /\ Set["BAUDRATE"] = Row("rate", "baudRate", NoItem, Models)
      /\ Set["PROBEBAUDRATES"] = Checked(Keeps("probeBaudRates"))
      /\ Set["COMMANDTIMEOUT"] = Checked(Keeps("commandTimeout"))
      /\ Set["TRANSPORTTIMEOUT"] = Checked(Keeps("transportTimeout"))
  BY SetParts, SetANames DEF Part, SetA
<1>2. QED
  BY <1>1, CheckedLike, KeepsLike, RowLike

(* The rows of the table SetProduct.                                       *)
LEMMA SetProductRows ==
  /\ Like(Set["URI"], "READONLY", "none", NoItem, Models, "NOT_FOUND")
  /\ Like(Set["PRODUCT_GROUP_ID"], "READONLY", "none",
            NoItem, Models, "NOT_FOUND")
  /\ Like(Set["PRODUCT_GROUP"], "READONLY", "none",
            NoItem, Models, "NOT_FOUND")
  /\ Like(Set["PRODUCT_ID"], "READONLY", "none", NoItem, Models, "NOT_FOUND")
  /\ Like(Set["TAGREADATA_TAGOPSUCCESSCOUNT"], "READONLY", "none",
            NoItem, Models, "NOT_FOUND")
  /\ Like(Set["TAGREADATA_TAGOPFAILURECOUNT"], "READONLY", "none",
            NoItem, Models, "NOT_FOUND")
<1>1. /\ Set["URI"] = Fails("READONLY")
      /\ Set["PRODUCT_GROUP_ID"] = Fails("READONLY")
      /\ Set["PRODUCT_GROUP"] = Fails("READONLY")
      /\ Set["PRODUCT_ID"] = Fails("READONLY")
      /\ Set["TAGREADATA_TAGOPSUCCESSCOUNT"] = Fails("READONLY")
      /\ Set["TAGREADATA_TAGOPFAILURECOUNT"] = Fails("READONLY")
  BY SetParts, SetProductNames DEF Part, SetProduct, ++, Each
<1>2. QED
  BY <1>1, FailsLike

(* The rows of the table SetB.                                             *)
LEMMA SetBRows ==
  /\ Like(Set["RADIO_ENABLEPOWERSAVE"], "send", "none",
            Config("TRANSMIT_POWER_SAVE"), Models, "NOT_FOUND")
  /\ Like(Set["RADIO_ENABLESJC"], "send", "none",
            Config("SELF_JAMMER_CANCELLATION"), Models, "NOT_FOUND")
  /\ Like(Set["TAGREADDATA_UNIQUEBYPROTOCOL"], "send", "none",
            Config("UNIQUE_BY_PROTOCOL"), M6eClass, "NOT_FOUND")
  /\ Like(Set["TAGREADDATA_READFILTERTIMEOUT"], "send keep", "readFilterTimeout",
            Config("READ_FILTER_TIMEOUT"), M6eClass, "NOT_FOUND")
  /\ Like(Set["TAGREADDATA_ENABLEREADFILTER"], "send keep", "enableReadFiltering",
            Config("ENABLE_READ_FILTER"), M6eClass, "READONLY")
  /\ Like(Set["RADIO_READPOWER"], "send", "none",
            Written.ReadTxPower, Models, "NOT_FOUND")
  /\ Like(Set["RADIO_WRITEPOWER"], "send", "none",
            Written.WriteTxPower, Models, "NOT_FOUND")
  /\ Like(Set["RADIO_PORTREADPOWERLIST"], "merge", "none",
            Ports("0"), Models, "NOT_FOUND")
  /\ Like(Set["RADIO_PORTWRITEPOWERLIST"], "merge", "none",
            Ports("1"), Models, "NOT_FOUND")
  /\ Like(Set["ANTENNA_SETTLINGTIMELIST"], "merge", "none",
            Ports("2"), Models, "NOT_FOUND")
  /\ Like(Set["ANTENNA_CHECKPORT"], "send", "none",
            Config("SAFETY_ANTENNA_CHECK"), Models, "NOT_FOUND")
  /\ Like(Set["TAGREADDATA_RECORDHIGHESTRSSI"], "send", "none",
            Config("RECORD_HIGHEST_RSSI"), Models, "NOT_FOUND")
  /\ Like(Set["TAGREADDATA_REPORTRSSIINDBM"], "send", "none",
            Config("RSSI_IN_DBM"), Models, "NOT_FOUND")
  /\ Like(Set["TAGREADDATA_UNIQUEBYANTENNA"], "send", "none",
            Config("UNIQUE_BY_ANTENNA"), Models, "NOT_FOUND")
  /\ Like(Set["TAGREADDATA_UNIQUEBYDATA"], "send", "none",
            Config("UNIQUE_BY_DATA"), Models, "NOT_FOUND")
<1>1. /\ Set["RADIO_ENABLEPOWERSAVE"] = Sends(Config("TRANSMIT_POWER_SAVE"))
      /\ Set["RADIO_ENABLESJC"] = Sends(Config("SELF_JAMMER_CANCELLATION"))
      /\ Set["TAGREADDATA_UNIQUEBYPROTOCOL"] =
           Row("send", "none", Config("UNIQUE_BY_PROTOCOL"), M6eClass)
      /\ Set["TAGREADDATA_READFILTERTIMEOUT"] =
           SendsKeeps(Config("READ_FILTER_TIMEOUT"), "readFilterTimeout", M6eClass)
      /\ Set["TAGREADDATA_ENABLEREADFILTER"] =
           Elsewhere("READONLY", SendsKeeps(Config("ENABLE_READ_FILTER"), "enableReadFiltering",
                                            M6eClass))
      /\ Set["RADIO_READPOWER"] = Checked(Sends(Written.ReadTxPower))
      /\ Set["RADIO_WRITEPOWER"] = Checked(Sends(Written.WriteTxPower))
      /\ Set["RADIO_PORTREADPOWERLIST"] = Checked(Merges(Ports("0")))
      /\ Set["RADIO_PORTWRITEPOWERLIST"] = Checked(Merges(Ports("1")))
      /\ Set["ANTENNA_SETTLINGTIMELIST"] = Checked(Merges(Ports("2")))
      /\ Set["ANTENNA_CHECKPORT"] = Sends(Config("SAFETY_ANTENNA_CHECK"))
      /\ Set["TAGREADDATA_RECORDHIGHESTRSSI"] =
           Sends(Config("RECORD_HIGHEST_RSSI"))
      /\ Set["TAGREADDATA_REPORTRSSIINDBM"] = Sends(Config("RSSI_IN_DBM"))
      /\ Set["TAGREADDATA_UNIQUEBYANTENNA"] =
           Sends(Config("UNIQUE_BY_ANTENNA"))
      /\ Set["TAGREADDATA_UNIQUEBYDATA"] = Sends(Config("UNIQUE_BY_DATA"))
  BY SetParts, SetBNames DEF Part, SetB
<1>2. QED
  BY <1>1, CheckedLike, ElsewhereLike, MergesLike, RowLike, SendsKeepsLike,
     SendsLike

(* The rows of the table SetC.                                             *)
LEMMA SetCRows ==
  /\ Like(Set["ANTENNA_PORTSWITCHGPOS"], "keep send map", "portmask",
            Config("ANTENNA_CONTROL_GPIO"), Models, "NOT_FOUND")
  /\ Like(Set["TRIGGER_READ_GPI"], "send", "none",
            Config("TRIGGER_READ_GPIO"), Models, "NOT_FOUND")
  /\ Like(Set["ANTENNA_TXRXMAP"], "keep", "txRxMap",
            NoItem, Models, "NOT_FOUND")
  /\ Like(Set["REGION_HOPTABLE"], "send", "none",
            Written.FrequencyHopTable, Models, "NOT_FOUND")
  /\ Like(Set["REGION_HOPTIME"], "send", "none",
            Written.FrequencyHopTime, Models, "NOT_FOUND")
  /\ Like(Set["REGION_LBT_ENABLE"], "lbt", "none",
            Written.RegionLbt, Models, "NOT_FOUND")
<1>1. /\ Set["ANTENNA_PORTSWITCHGPOS"] =
           Row("keep send map", "portmask", Config("ANTENNA_CONTROL_GPIO"), Models)
      /\ Set["TRIGGER_READ_GPI"] = Sends(Config("TRIGGER_READ_GPIO"))
      /\ Set["ANTENNA_TXRXMAP"] = Checked(Keeps("txRxMap"))
      /\ Set["REGION_HOPTABLE"] = Checked(Sends(Written.FrequencyHopTable))
      /\ Set["REGION_HOPTIME"] = Sends(Written.FrequencyHopTime)
      /\ Set["REGION_LBT_ENABLE"] =
           Row("lbt", "none", Written.RegionLbt, Models)
  BY SetParts, SetCNames DEF Part, SetC
<1>2. QED
  BY <1>1, CheckedLike, KeepsLike, RowLike, SendsLike

(* The rows of the table SetD.                                             *)
LEMMA SetDRows ==
  /\ Like(Set["TAGOP_ANTENNA"], "keep send", "antenna",
            Written.TxRxPorts, Models, "NOT_FOUND")
  /\ Like(Set["TAGOP_PROTOCOL"], "keep send connected", "protocol",
            Written.Protocol, Models, "NOT_FOUND")
  /\ Like(Set["READ_PLAN"], "keep", "readPlan", NoItem, Models, "NOT_FOUND")
<1>1. /\ Set["TAGOP_ANTENNA"] =
           Checked(KeepsSends("antenna", Written.TxRxPorts))
      /\ Set["TAGOP_PROTOCOL"] =
           Checked(Row("keep send connected", "protocol", Written.Protocol, Models))
      /\ Set["READ_PLAN"] = Checked(Keeps("readPlan"))
  BY SetParts, SetDNames DEF Part, SetD
<1>2. QED
  BY <1>1, CheckedLike, KeepsLike, KeepsSendsLike, RowLike

(* The rows of the table SetE.                                             *)
LEMMA SetERows ==
  /\ Like(Set["POWERMODE"], "send keep connected", "powerMode",
            Written.PowerMode, Models, "NOT_FOUND")
  /\ Like(Set["USERMODE"], "send", "none",
            Written.UserMode, Models, "NOT_FOUND")
  /\ Like(Set["GPIO_INPUTLIST"], "pins", "none",
            Written.GPIODirection, M6eClass, "READONLY")
  /\ Like(Set["GPIO_OUTPUTLIST"], "pins", "none",
            Written.GPIODirection, M6eClass, "READONLY")
  /\ Like(Set["RADIO_POWERMAX"], "READONLY", "none",
            NoItem, Models, "NOT_FOUND")
  /\ Like(Set["RADIO_POWERMIN"], "READONLY", "none",
            NoItem, Models, "NOT_FOUND")
  /\ Like(Set["REGION_SUPPORTEDREGIONS"], "READONLY", "none",
            NoItem, Models, "NOT_FOUND")
  /\ Like(Set["ANTENNA_PORTLIST"], "READONLY", "none",
            NoItem, Models, "NOT_FOUND")
  /\ Like(Set["ANTENNA_CONNECTEDPORTLIST"], "READONLY", "none",
            NoItem, Models, "NOT_FOUND")
  /\ Like(Set["VERSION_SUPPORTEDPROTOCOLS"], "READONLY", "none",
            NoItem, Models, "NOT_FOUND")
  /\ Like(Set["RADIO_TEMPERATURE"], "READONLY", "none",
            NoItem, Models, "NOT_FOUND")
  /\ Like(Set["VERSION_HARDWARE"], "READONLY", "none",
            NoItem, Models, "NOT_FOUND")
  /\ Like(Set["VERSION_MODEL"], "READONLY", "none",
            NoItem, Models, "NOT_FOUND")
  /\ Like(Set["VERSION_SOFTWARE"], "READONLY", "none",
            NoItem, Models, "NOT_FOUND")
  /\ Like(Set["ANTENNA_RETURNLOSS"], "READONLY", "none",
            NoItem, Models, "NOT_FOUND")
  /\ Like(Set["GEN2_PROTOCOLEXTENSION"], "READONLY", "none",
            NoItem, Models, "NOT_FOUND")
<1>1. /\ Set["POWERMODE"] =
           Row("send keep connected", "powerMode", Written.PowerMode, Models)
      /\ Set["USERMODE"] = Sends(Written.UserMode)
      /\ Set["GPIO_INPUTLIST"] = SetsPins
      /\ Set["GPIO_OUTPUTLIST"] = SetsPins
      /\ Set["RADIO_POWERMAX"] = Fails("READONLY")
      /\ Set["RADIO_POWERMIN"] = Fails("READONLY")
      /\ Set["REGION_SUPPORTEDREGIONS"] = Fails("READONLY")
      /\ Set["ANTENNA_PORTLIST"] = Fails("READONLY")
      /\ Set["ANTENNA_CONNECTEDPORTLIST"] = Fails("READONLY")
      /\ Set["VERSION_SUPPORTEDPROTOCOLS"] = Fails("READONLY")
      /\ Set["RADIO_TEMPERATURE"] = Fails("READONLY")
      /\ Set["VERSION_HARDWARE"] = Fails("READONLY")
      /\ Set["VERSION_MODEL"] = Fails("READONLY")
      /\ Set["VERSION_SOFTWARE"] = Fails("READONLY")
      /\ Set["ANTENNA_RETURNLOSS"] = Fails("READONLY")
      /\ Set["GEN2_PROTOCOLEXTENSION"] = Fails("READONLY")
  BY SetParts, SetENames DEF Part, SetE, ++, Each
<1>2. QED
  BY <1>1, ElsewhereLike, FailsLike, RowLike, SendsLike DEF SetsPins

(* The rows of the table SetF.                                             *)
LEMMA SetFRows ==
  /\ Like(Set["GEN2_Q"], "send", "none", Gen2("Q"), Models, "NOT_FOUND")
  /\ Like(Set["GEN2_TAGENCODING"], "send", "none",
            Gen2("TAGENCODING"), Models, "NOT_FOUND")
  /\ Like(Set["GEN2_SESSION"], "send", "none",
            Gen2("SESSION"), Models, "NOT_FOUND")
  /\ Like(Set["GEN2_TARGET"], "send", "none",
            Gen2("TARGET"), Models, "NOT_FOUND")
  /\ Like(Set["GEN2_BLF"], "send", "none",
            Gen2("LINKFREQUENCY"), Models, "NOT_FOUND")
  /\ Like(Set["GEN2_TARI"], "send", "none", Gen2("TARI"), Models, "NOT_FOUND")
  /\ Like(Set["GEN2_WRITEMODE"], "keep", "writeMode",
            NoItem, Models, "NOT_FOUND")
  /\ Like(Set["ISO180006B_BLF"], "send", "none",
            ISO("LINKFREQUENCY"), Models, "NOT_FOUND")
  /\ Like(Set["ISO180006B_MODULATION_DEPTH"], "send", "none",
            ISO("MODULATION_DEPTH"), Models, "NOT_FOUND")
  /\ Like(Set["ISO180006B_DELIMITER"], "send", "none",
            ISO("DELIMITER"), Models, "NOT_FOUND")
  /\ Like(Set["GEN2_ACCESSPASSWORD"], "keep", "gen2AccessPassword",
            NoItem, Models, "NOT_FOUND")
<1>1. /\ Set["GEN2_Q"] = Checked(Sends(Gen2("Q")))
      /\ Set["GEN2_TAGENCODING"] = Sends(Gen2("TAGENCODING"))
      /\ Set["GEN2_SESSION"] = Sends(Gen2("SESSION"))
      /\ Set["GEN2_TARGET"] = Checked(Sends(Gen2("TARGET")))
      /\ Set["GEN2_BLF"] = Checked(Sends(Gen2("LINKFREQUENCY")))
      /\ Set["GEN2_TARI"] = Sends(Gen2("TARI"))
      /\ Set["GEN2_WRITEMODE"] = Keeps("writeMode")
      /\ Set["ISO180006B_BLF"] = Checked(Sends(ISO("LINKFREQUENCY")))
      /\ Set["ISO180006B_MODULATION_DEPTH"] =
           Checked(Sends(ISO("MODULATION_DEPTH")))
      /\ Set["ISO180006B_DELIMITER"] = Checked(Sends(ISO("DELIMITER")))
      /\ Set["GEN2_ACCESSPASSWORD"] = Keeps("gen2AccessPassword")
  BY SetParts, SetFNames DEF Part, SetF
<1>2. QED
  BY <1>1, CheckedLike, KeepsLike, SendsLike

(* The rows of the table SetG.                                             *)
LEMMA SetGRows ==
  /\ Like(Set["READER_STATISTICS"], "reset", "none",
            Statistics("RESET"), Models, "NOT_FOUND")
  /\ Like(Set["READER_STATS"], "reset", "none",
            Statistics("RESET"), {"M6e", "Micro", "Nano"}, "NOT_FOUND")
  /\ Like(Set["READER_STATS_ENABLE"], "keep", "statsFlag",
            NoItem, M6eClass, "UNSUPPORTED")
  /\ Like(Set["READER_WRITE_REPLY_TIMEOUT"], "merge", "none",
            WriteTimeOut("TIMEOUT"), Models, "NOT_FOUND")
  /\ Like(Set["READER_WRITE_EARLY_EXIT"], "merge", "none",
            WriteTimeOut("EARLY_EXIT"), Models, "NOT_FOUND")
  /\ Like(Set["METADATAFLAG"], "keep", "userMetadataFlag",
            NoItem, Models, "NOT_FOUND")
<1>1. /\ Set["READER_STATISTICS"] =
           Row("reset", "none", Statistics("RESET"), Models)
      /\ Set["READER_STATS"] =
           Row("reset", "none", Statistics("RESET"), {"M6e", "Micro", "Nano"})
      /\ Set["READER_STATS_ENABLE"] =
           Elsewhere("UNSUPPORTED", Only(M6eClass, Keeps("statsFlag")))
      /\ Set["READER_WRITE_REPLY_TIMEOUT"] =
           Checked(Merges(WriteTimeOut("TIMEOUT")))
      /\ Set["READER_WRITE_EARLY_EXIT"] = Merges(WriteTimeOut("EARLY_EXIT"))
      /\ Set["METADATAFLAG"] = Checked(Keeps("userMetadataFlag"))
  BY SetParts, SetGNames DEF Part, SetG
<1>2. QED
  BY <1>1, CheckedLike, ElsewhereLike, KeepsLike, MergesLike, OnlyLike, RowLike

(* The rows of the table SetExtendedEPC.                                   *)
LEMMA SetExtendedEPCRows ==
  /\ Like(Set["EXTENDEDEPC"], "send keep", "extendedEPC",
            Config("EXTENDED_EPC"), {"M5e"}, "UNSUPPORTED")
<1>1. /\ Set["EXTENDEDEPC"] =
           Elsewhere("UNSUPPORTED", SendsKeeps(Config("EXTENDED_EPC"), "extendedEPC", {"M5e"}))
  BY SetParts, SetExtendedEPCNames DEF Part, SetExtendedEPC
<1>2. QED
  BY <1>1, ElsewhereLike, SendsKeepsLike

(* The rows of the table SetBap.                                           *)
LEMMA SetBapRows ==
  /\ Like(Set["GEN2_BAP"], "bap", "isBapEnabled",
            Gen2("BAP"), Models, "NOT_FOUND")
<1>1. /\ Set["GEN2_BAP"] =
           Checked(Row("bap", "isBapEnabled", Gen2("BAP"), Models))
  BY SetParts, SetBapNames DEF Part, SetBap
<1>2. QED
  BY <1>1, CheckedLike, RowLike

(* The rows of the table SetTimes.                                         *)
LEMMA SetTimesRows ==
  /\ Like(Set["READ_ASYNCONTIME"], "keep", "asyncOnTime",
            NoItem, Models, "NOT_FOUND")
  /\ Like(Set["READ_ASYNCOFFTIME"], "keep", "asyncOffTime",
            NoItem, Models, "NOT_FOUND")
<1>1. /\ Set["READ_ASYNCONTIME"] = Keeps("asyncOnTime")
      /\ Set["READ_ASYNCOFFTIME"] = Keeps("asyncOffTime")
  BY SetParts, SetTimesNames DEF Part, SetTimes
<1>2. QED
  BY <1>1, KeepsLike

(* What the rows of TMR_SR_paramGet say, table by table.                   *)
LEMMA GetARows ==
  /\ Like(Get["BAUDRATE"], "keep", "baudRate", NoItem, Models, "NOT_FOUND")
  /\ Like(Get["PROBEBAUDRATES"], "shorten", "probeBaudRates",
            NoItem, Models, "NOT_FOUND")
  /\ Like(Get["URI"], "keep", "uri", NoItem, Models, "NOT_FOUND")
  /\ Like(Get["COMMANDTIMEOUT"], "keep", "commandTimeout",
            NoItem, Models, "NOT_FOUND")
  /\ Like(Get["TRANSPORTTIMEOUT"], "keep", "transportTimeout",
            NoItem, Models, "NOT_FOUND")
  /\ Like(Get["REGION_ID"], "ask if none", "regionId",
            Read.Region, Models, "NOT_FOUND")
  /\ Like(Get["RADIO_ENABLEPOWERSAVE"], "ask", "none",
            Config("TRANSMIT_POWER_SAVE"), Models, "NOT_FOUND")
  /\ Like(Get["RADIO_ENABLESJC"], "ask", "none",
            Config("SELF_JAMMER_CANCELLATION"), Models, "NOT_FOUND")
  /\ Like(Get["TAGREADDATA_READFILTERTIMEOUT"], "keep", "readFilterTimeout",
            NoItem, M6eClass, "NOT_FOUND")
  /\ Like(Get["TAGREADDATA_ENABLEREADFILTER"], "keep", "enableReadFiltering",
            NoItem, Models, "NOT_FOUND")
  /\ Like(Get["EXTENDEDEPC"], "ask", "none",
            Config("EXTENDED_EPC"), {"M5e"}, "UNSUPPORTED")
<1>1. /\ Get["BAUDRATE"] = Keeps("baudRate")
      /\ Get["PROBEBAUDRATES"] =
           Row("shorten", "probeBaudRates", NoItem, Models)
      /\ Get["URI"] = Keeps("uri")
      /\ Get["COMMANDTIMEOUT"] = Keeps("commandTimeout")
      /\ Get["TRANSPORTTIMEOUT"] = Keeps("transportTimeout")
      /\ Get["REGION_ID"] =
           Row("ask if none", "regionId", Read.Region, Models)
      /\ Get["RADIO_ENABLEPOWERSAVE"] = Asks(Config("TRANSMIT_POWER_SAVE"))
      /\ Get["RADIO_ENABLESJC"] = Asks(Config("SELF_JAMMER_CANCELLATION"))
      /\ Get["TAGREADDATA_READFILTERTIMEOUT"] =
           Row("keep", "readFilterTimeout", NoItem, M6eClass)
      /\ Get["TAGREADDATA_ENABLEREADFILTER"] = Keeps("enableReadFiltering")
      /\ Get["EXTENDEDEPC"] =
           Elsewhere("UNSUPPORTED", Only({"M5e"}, Asks(Config("EXTENDED_EPC"))))
  BY GetParts, GetANames DEF Part, GetA
<1>2. QED
  BY <1>1, AsksLike, ElsewhereLike, KeepsLike, OnlyLike, RowLike

(* The rows of the table GetB.                                             *)
LEMMA GetBRows ==
  /\ Like(Get["RADIO_READPOWER"], "ask", "none",
            Read.ReadTxPower, Models, "NOT_FOUND")
  /\ Like(Get["RADIO_WRITEPOWER"], "ask", "none",
            Read.WriteTxPower, Models, "NOT_FOUND")
  /\ Like(Get["ANTENNA_CHECKPORT"], "ask", "none",
            Config("SAFETY_ANTENNA_CHECK"), Models, "NOT_FOUND")
  /\ Like(Get["TAGREADDATA_RECORDHIGHESTRSSI"], "ask", "none",
            Config("RECORD_HIGHEST_RSSI"), Models, "NOT_FOUND")
  /\ Like(Get["TAGREADDATA_REPORTRSSIINDBM"], "ask", "none",
            Config("RSSI_IN_DBM"), Models, "NOT_FOUND")
  /\ Like(Get["TAGREADDATA_UNIQUEBYANTENNA"], "ask", "none",
            Config("UNIQUE_BY_ANTENNA"), Models, "NOT_FOUND")
  /\ Like(Get["TAGREADDATA_UNIQUEBYDATA"], "ask", "none",
            Config("UNIQUE_BY_DATA"), Models, "NOT_FOUND")
  /\ Like(Get["TAGREADDATA_UNIQUEBYPROTOCOL"], "ask", "none",
            Config("UNIQUE_BY_PROTOCOL"), M6eClass, "NOT_FOUND")
  /\ Like(Get["PRODUCT_GROUP_ID"], "ask", "none",
            Config("PRODUCT_GROUP_ID"), Models, "NOT_FOUND")
  /\ Like(Get["PRODUCT_ID"], "ask", "none",
            Config("PRODUCT_ID"), Models, "NOT_FOUND")
  /\ Like(Get["STATUS_ENABLE_ANTENNAREPORT"], "keep", "streamStats ANTENNA",
            NoItem, Models, "NOT_FOUND")
  /\ Like(Get["STATUS_ENABLE_FREQUENCYREPORT"], "keep", "streamStats FREQUENCY",
            NoItem, Models, "NOT_FOUND")
  /\ Like(Get["STATUS_ENABLE_TEMPERATUREREPORT"], "keep", "streamStats TEMPERATURE",
            NoItem, Models, "NOT_FOUND")
  /\ Like(Get["RADIO_POWERMAX"], "ask", "none",
            Read.Limits, Models, "NOT_FOUND")
  /\ Like(Get["RADIO_POWERMIN"], "ask", "none",
            Read.Limits, Models, "NOT_FOUND")
<1>1. /\ Get["RADIO_READPOWER"] = Asks(Read.ReadTxPower)
      /\ Get["RADIO_WRITEPOWER"] = Asks(Read.WriteTxPower)
      /\ Get["ANTENNA_CHECKPORT"] = Asks(Config("SAFETY_ANTENNA_CHECK"))
      /\ Get["TAGREADDATA_RECORDHIGHESTRSSI"] =
           Asks(Config("RECORD_HIGHEST_RSSI"))
      /\ Get["TAGREADDATA_REPORTRSSIINDBM"] = Asks(Config("RSSI_IN_DBM"))
      /\ Get["TAGREADDATA_UNIQUEBYANTENNA"] =
           Asks(Config("UNIQUE_BY_ANTENNA"))
      /\ Get["TAGREADDATA_UNIQUEBYDATA"] = Asks(Config("UNIQUE_BY_DATA"))
      /\ Get["TAGREADDATA_UNIQUEBYPROTOCOL"] =
           Only(M6eClass, Asks(Config("UNIQUE_BY_PROTOCOL")))
      /\ Get["PRODUCT_GROUP_ID"] = Asks(Config("PRODUCT_GROUP_ID"))
      /\ Get["PRODUCT_ID"] = Asks(Config("PRODUCT_ID"))
      /\ Get["STATUS_ENABLE_ANTENNAREPORT"] = Keeps("streamStats ANTENNA")
      /\ Get["STATUS_ENABLE_FREQUENCYREPORT"] = Keeps("streamStats FREQUENCY")
      /\ Get["STATUS_ENABLE_TEMPERATUREREPORT"] =
           Keeps("streamStats TEMPERATURE")
      /\ Get["RADIO_POWERMAX"] = Asks(Read.Limits)
      /\ Get["RADIO_POWERMIN"] = Asks(Read.Limits)
  BY GetParts, GetBNames DEF Part, GetB
<1>2. QED
  BY <1>1, AsksLike, KeepsLike, OnlyLike

(* The rows of the table GetC.                                             *)
LEMMA GetCRows ==
  /\ Like(Get["ANTENNA_PORTSWITCHGPOS"], "ask keep", "portmask",
            Config("ANTENNA_CONTROL_GPIO"), Models, "NOT_FOUND")
  /\ Like(Get["TRIGGER_READ_GPI"], "ask", "none",
            Config("TRIGGER_READ_GPIO"), Models, "NOT_FOUND")
  /\ Like(Get["ANTENNA_SETTLINGTIMELIST"], "ask", "none",
            Ports("2"), Models, "NOT_FOUND")
  /\ Like(Get["RADIO_PORTREADPOWERLIST"], "ask", "none",
            Ports("0"), Models, "NOT_FOUND")
  /\ Like(Get["RADIO_PORTWRITEPOWERLIST"], "ask", "none",
            Ports("1"), Models, "NOT_FOUND")
  /\ Like(Get["ANTENNA_RETURNLOSS"], "ask", "none",
            Read.AntennaReturnLoss, Models, "NOT_FOUND")
  /\ Like(Get["GPIO_INPUTLIST"], "ask", "none",
            Read.GPIODirection, M6eClass, "ok")
  /\ Like(Get["GPIO_OUTPUTLIST"], "ask", "none",
            Read.GPIODirection, M6eClass, "ok")
<1>1. /\ Get["ANTENNA_PORTSWITCHGPOS"] =
           Row("ask keep", "portmask", Config("ANTENNA_CONTROL_GPIO"), Models)
      /\ Get["TRIGGER_READ_GPI"] = Asks(Config("TRIGGER_READ_GPIO"))
      /\ Get["ANTENNA_SETTLINGTIMELIST"] = Asks(Ports("2"))
      /\ Get["RADIO_PORTREADPOWERLIST"] = Asks(Ports("0"))
      /\ Get["RADIO_PORTWRITEPOWERLIST"] = Asks(Ports("1"))
      /\ Get["ANTENNA_RETURNLOSS"] = Asks(Read.AntennaReturnLoss)
      /\ Get["GPIO_INPUTLIST"] = AsksPins
      /\ Get["GPIO_OUTPUTLIST"] = AsksPins
  BY GetParts, GetCNames DEF Part, GetC
<1>2. QED
  BY <1>1, AsksLike, ElsewhereLike, OnlyLike, RowLike DEF AsksPins

(* The rows of the table GetD.                                             *)
LEMMA GetDRows ==
  /\ Like(Get["ANTENNA_PORTLIST"], "keep", "txRxMap",
            NoItem, Models, "NOT_FOUND")
  /\ Like(Get["ANTENNA_CONNECTEDPORTLIST"], "ask", "none",
            Read.AntennaDetect, Models, "NOT_FOUND")
  /\ Like(Get["ANTENNA_TXRXMAP"], "keep", "txRxMap",
            NoItem, Models, "NOT_FOUND")
  /\ Like(Get["REGION_HOPTABLE"], "ask", "none",
            Read.FrequencyHopTable, Models, "NOT_FOUND")
  /\ Like(Get["REGION_HOPTIME"], "ask", "none",
            Read.FrequencyHopTime, Models, "NOT_FOUND")
  /\ Like(Get["REGION_LBT_ENABLE"], "ask or false", "none",
            Read.RegionLbt, Models, "NOT_FOUND")
  /\ Like(Get["TAGOP_ANTENNA"], "keep", "antenna",
            NoItem, Models, "NOT_FOUND")
  /\ Like(Get["TAGOP_PROTOCOL"], "keep", "protocol",
            NoItem, Models, "NOT_FOUND")
<1>1. /\ Get["ANTENNA_PORTLIST"] = Keeps("txRxMap")
      /\ Get["ANTENNA_CONNECTEDPORTLIST"] = Asks(Read.AntennaDetect)
      /\ Get["ANTENNA_TXRXMAP"] = Keeps("txRxMap")
      /\ Get["REGION_HOPTABLE"] = Asks(Read.FrequencyHopTable)
      /\ Get["REGION_HOPTIME"] = Asks(Read.FrequencyHopTime)
      /\ Get["REGION_LBT_ENABLE"] =
           Row("ask or false", "none", Read.RegionLbt, Models)
      /\ Get["TAGOP_ANTENNA"] = Keeps("antenna")
      /\ Get["TAGOP_PROTOCOL"] = Keeps("protocol")
  BY GetParts, GetDNames DEF Part, GetD
<1>2. QED
  BY <1>1, AsksLike, KeepsLike, RowLike

(* The rows of the table GetE.                                             *)
LEMMA GetERows ==
  /\ Like(Get["POWERMODE"], "ask keep connected", "powerMode",
            Read.PowerMode, Models, "NOT_FOUND")
  /\ Like(Get["USERMODE"], "ask", "none", Read.UserMode, Models, "NOT_FOUND")
  /\ Like(Get["GEN2_Q"], "ask", "none", Gen2("Q"), Models, "NOT_FOUND")
  /\ Like(Get["GEN2_TAGENCODING"], "ask", "none",
            Gen2("TAGENCODING"), Models, "NOT_FOUND")
  /\ Like(Get["GEN2_SESSION"], "ask", "none",
            Gen2("SESSION"), Models, "NOT_FOUND")
  /\ Like(Get["GEN2_TARGET"], "ask", "none",
            Gen2("TARGET"), Models, "NOT_FOUND")
  /\ Like(Get["GEN2_BLF"], "ask", "none",
            Gen2("LINKFREQUENCY"), Models, "NOT_FOUND")
  /\ Like(Get["GEN2_TARI"], "ask", "none", Gen2("TARI"), Models, "NOT_FOUND")
  /\ Like(Get["GEN2_BAP"], "ask", "none", Gen2("BAP"), Models, "NOT_FOUND")
  /\ Like(Get["GEN2_WRITEMODE"], "keep", "writeMode",
            NoItem, Models, "NOT_FOUND")
  /\ Like(Get["GEN2_PROTOCOLEXTENSION"], "ask", "none",
            Gen2("PROTOCOLEXTENSION"), Models, "NOT_FOUND")
  /\ Like(Get["ISO180006B_BLF"], "ask", "none",
            ISO("LINKFREQUENCY"), Models, "NOT_FOUND")
  /\ Like(Get["ISO180006B_MODULATION_DEPTH"], "ask", "none",
            ISO("MODULATION_DEPTH"), Models, "NOT_FOUND")
  /\ Like(Get["ISO180006B_DELIMITER"], "ask", "none",
            ISO("DELIMITER"), Models, "NOT_FOUND")
  /\ Like(Get["GEN2_ACCESSPASSWORD"], "keep", "gen2AccessPassword",
            NoItem, Models, "NOT_FOUND")
<1>1. /\ Get["POWERMODE"] =
           Row("ask keep connected", "powerMode", Read.PowerMode, Models)
      /\ Get["USERMODE"] = Asks(Read.UserMode)
      /\ Get["GEN2_Q"] = Asks(Gen2("Q"))
      /\ Get["GEN2_TAGENCODING"] = Asks(Gen2("TAGENCODING"))
      /\ Get["GEN2_SESSION"] = Asks(Gen2("SESSION"))
      /\ Get["GEN2_TARGET"] = Asks(Gen2("TARGET"))
      /\ Get["GEN2_BLF"] = Asks(Gen2("LINKFREQUENCY"))
      /\ Get["GEN2_TARI"] = Asks(Gen2("TARI"))
      /\ Get["GEN2_BAP"] = Asks(Gen2("BAP"))
      /\ Get["GEN2_WRITEMODE"] = Keeps("writeMode")
      /\ Get["GEN2_PROTOCOLEXTENSION"] = Asks(Gen2("PROTOCOLEXTENSION"))
      /\ Get["ISO180006B_BLF"] = Asks(ISO("LINKFREQUENCY"))
      /\ Get["ISO180006B_MODULATION_DEPTH"] = Asks(ISO("MODULATION_DEPTH"))
      /\ Get["ISO180006B_DELIMITER"] = Asks(ISO("DELIMITER"))
      /\ Get["GEN2_ACCESSPASSWORD"] = Keeps("gen2AccessPassword")
  BY GetParts, GetENames DEF Part, GetE
<1>2. QED
  BY <1>1, AsksLike, KeepsLike, RowLike

(* The rows of the table GetF.                                             *)
LEMMA GetFRows ==
  /\ Like(Get["REGION_SUPPORTEDREGIONS"], "ask", "none",
            Module("AVAILABLE_REGIONS"), Models, "NOT_FOUND")
  /\ Like(Get["VERSION_SUPPORTEDPROTOCOLS"], "ask", "none",
            Module("AVAILABLE_PROTOCOLS"), Models, "NOT_FOUND")
  /\ Like(Get["RADIO_TEMPERATURE"], "ask", "none",
            Module("TEMPERATURE"), Models, "NOT_FOUND")
  /\ Like(Get["VERSION_HARDWARE"], "ask", "none",
            Module("HW_VERSION"), Models, "NOT_FOUND")
  /\ Like(Get["VERSION_SERIAL"], "ask", "none",
            Module("HW_VERSION"), Models, "NOT_FOUND")
  /\ Like(Get["VERSION_MODEL"], "keep", "versionInfo",
            NoItem, Models, "NOT_FOUND")
  /\ Like(Get["VERSION_SOFTWARE"], "keep", "versionInfo",
            NoItem, Models, "NOT_FOUND")
<1>1. /\ Get["REGION_SUPPORTEDREGIONS"] = Asks(Module("AVAILABLE_REGIONS"))
      /\ Get["VERSION_SUPPORTEDPROTOCOLS"] =
           Asks(Module("AVAILABLE_PROTOCOLS"))
      /\ Get["RADIO_TEMPERATURE"] = Asks(Module("TEMPERATURE"))
      /\ Get["VERSION_HARDWARE"] = Asks(Module("HW_VERSION"))
      /\ Get["VERSION_SERIAL"] = Asks(Module("HW_VERSION"))
      /\ Get["VERSION_MODEL"] = Keeps("versionInfo")
      /\ Get["VERSION_SOFTWARE"] = Keeps("versionInfo")
  BY GetParts, GetFNames DEF Part, GetF
<1>2. QED
  BY <1>1, AsksLike, KeepsLike

(* The rows of the table GetG.                                             *)
LEMMA GetGRows ==
  /\ Like(Get["READER_STATS"], "ask", "none",
            Statistics("PER_PORT"), M6eClass, "UNSUPPORTED")
  /\ Like(Get["READER_STATS_ENABLE"], "keep", "statsFlag",
            NoItem, M6eClass, "UNSUPPORTED")
  /\ Like(Get["READER_STATISTICS"], "ask", "none",
            Statistics("PER_PORT"), Models, "NOT_FOUND")
  /\ Like(Get["PRODUCT_GROUP"], "keep", "productId",
            NoItem, Models, "NOT_FOUND")
  /\ Like(Get["READER_WRITE_REPLY_TIMEOUT"], "ask", "none",
            WriteTimeOut("TIMEOUT"), Models, "NOT_FOUND")
  /\ Like(Get["READER_WRITE_EARLY_EXIT"], "ask", "none",
            WriteTimeOut("EARLY_EXIT"), Models, "NOT_FOUND")
  /\ Like(Get["METADATAFLAG"], "keep", "userMetadataFlag",
            NoItem, Models, "NOT_FOUND")
  /\ Like(Get["LICENSE_KEY"], "UNSUPPORTED", "none",
            NoItem, Models, "NOT_FOUND")
  /\ Like(Get["USER_CONFIG"], "UNSUPPORTED", "none",
            NoItem, Models, "NOT_FOUND")
  /\ Like(Get["TAGREADATA_TAGOPSUCCESSCOUNT"], "keep", "counts",
            NoItem, Models, "NOT_FOUND")
  /\ Like(Get["TAGREADATA_TAGOPFAILURECOUNT"], "keep", "counts",
            NoItem, Models, "NOT_FOUND")
<1>1. /\ Get["READER_STATS"] =
           Elsewhere("UNSUPPORTED", Only(M6eClass, Asks(Statistics("PER_PORT"))))
      /\ Get["READER_STATS_ENABLE"] =
           Elsewhere("UNSUPPORTED", Only(M6eClass, Keeps("statsFlag")))
      /\ Get["READER_STATISTICS"] = Asks(Statistics("PER_PORT"))
      /\ Get["PRODUCT_GROUP"] = Keeps("productId")
      /\ Get["READER_WRITE_REPLY_TIMEOUT"] = Asks(WriteTimeOut("TIMEOUT"))
      /\ Get["READER_WRITE_EARLY_EXIT"] = Asks(WriteTimeOut("EARLY_EXIT"))
      /\ Get["METADATAFLAG"] = Keeps("userMetadataFlag")
      /\ Get["LICENSE_KEY"] = Fails("UNSUPPORTED")
      /\ Get["USER_CONFIG"] = Fails("UNSUPPORTED")
      /\ Get["TAGREADATA_TAGOPSUCCESSCOUNT"] = Keeps("counts")
      /\ Get["TAGREADATA_TAGOPFAILURECOUNT"] = Keeps("counts")
  BY GetParts, GetGNames DEF Part, GetG
<1>2. QED
  BY <1>1, AsksLike, ElsewhereLike, FailsLike, KeepsLike, OnlyLike

(* The rows of the table GetTimes.                                         *)
LEMMA GetTimesRows ==
  /\ Like(Get["READ_ASYNCONTIME"], "keep", "asyncOnTime",
            NoItem, Models, "NOT_FOUND")
  /\ Like(Get["READ_ASYNCOFFTIME"], "keep", "asyncOffTime",
            NoItem, Models, "NOT_FOUND")
  /\ Like(Get["READ_PLAN"], "keep", "readPlan", NoItem, Models, "NOT_FOUND")
<1>1. /\ Get["READ_ASYNCONTIME"] = Keeps("asyncOnTime")
      /\ Get["READ_ASYNCOFFTIME"] = Keeps("asyncOffTime")
      /\ Get["READ_PLAN"] = Keeps("readPlan")
  BY GetParts, GetTimesNames DEF Part, GetTimes
<1>2. QED
  BY <1>1, KeepsLike

(* The codes that are sent for an item and the readings of its answers undo*)
(* each other: for an antenna port of four antennas on the value that its  *)
(* pins can say, for every other item on all values.                       *)
Inverse(i) ==
  \A m : \A v \in DOMAIN Codes(i, m) :
    (i[1] = "ANTENNA_PORT 4" => v = "a") => Readings(i, m)[Codes(i, m)[v]] = v

(* A flag is sent as two codes, and read back from them.                   *)
LEMMA FlagInverse ==
  ASSUME NEW t, NEW f, t # f
  PROVE  /\ DOMAIN Flag(t, f) = {"true", "false"}
         /\ \A v \in {"true", "false"} : FlagRead(t, f)[Flag(t, f)[v]] = v
BY DEF Flag, FlagRead

(* A value that is sent as it is.                                          *)
LEMMA PlainInverse == DOMAIN Plain = {"a", "b"} /\ \A v \in DOMAIN Plain : Plain[Plain[v]] = v
BY DEF Plain

(* An item whose values are flags, one for which they are sent as they are.*)
LEMMA FlagItem ==
  ASSUME NEW i, NEW t, NEW f, t # f,
         \A m : Codes(i, m) = Flag(t, f) /\ Readings(i, m) = FlagRead(t, f)
  PROVE  Inverse(i)
<1> SUFFICES ASSUME NEW m, NEW v \in DOMAIN Codes(i, m)
             PROVE  Readings(i, m)[Codes(i, m)[v]] = v
  BY DEF Inverse
<1>1. Codes(i, m) = Flag(t, f) /\ Readings(i, m) = FlagRead(t, f)
  OBVIOUS
<1> QED
  BY <1>1, FlagInverse

(* An item whose values are sent as they are.                              *)
LEMMA PlainItem ==
  ASSUME NEW i, \A m : Codes(i, m) = Plain /\ Readings(i, m) = Plain
  PROVE  Inverse(i)
<1> SUFFICES ASSUME NEW m, NEW v \in DOMAIN Codes(i, m)
             PROVE  Readings(i, m)[Codes(i, m)[v]] = v
  BY DEF Inverse
<1> QED
  BY PlainInverse

(* The reader's own parameters: codes and readings of their keys.          *)
LEMMA ConfigInverse ==
  ASSUME NEW i, NEW m
  PROVE  Codes(Config(i), m) = ConfigCodes(i, m) /\ Readings(Config(i), m) = ConfigReadings(i, m)
         /\ Config(i)[1] = "READER_OPTIONAL_PARAMS"
BY DEF Codes, Readings, Config

(* Those of the GEN2 protocol.                                             *)
LEMMA Gen2Inverse ==
  ASSUME NEW i, NEW m
  PROVE  Codes(Gen2(i), m) = Gen2Codes(i) /\ Readings(Gen2(i), m) = Gen2Readings(i)
         /\ Gen2(i)[1] = "PROTOCOL_PARAM GEN2"
BY DEF Codes, Readings, Gen2

(* Those of the ISO18000-6B protocol.                                      *)
LEMMA ISOInverse ==
  ASSUME NEW i, NEW m
  PROVE  Codes(ISO(i), m) = ISOCodes(i) /\ Readings(ISO(i), m) = ISOReadings(i)
         /\ ISO(i)[1] = "PROTOCOL_PARAM ISO180006B"
BY DEF Codes, Readings, ISO

(* The flags among the reader's own parameters.                            *)
LEMMA FlagConfigs ==
  ASSUME NEW i \in {"EXTENDED_EPC", "SAFETY_ANTENNA_CHECK", "RECORD_HIGHEST_RSSI",
                 "RSSI_IN_DBM", "SELF_JAMMER_CANCELLATION", "ENABLE_READ_FILTER"}
  PROVE  Inverse(Config(i))
<1>1. \A m : ConfigCodes(i, m) = Flag("1", "0") /\ ConfigReadings(i, m) = FlagRead("1", "0")
  BY DEF ConfigCodes, ConfigReadings
<1>2. QED
  BY <1>1, ConfigInverse, FlagItem

(* Those that say what makes a tag another one: sent the other way round.  *)
LEMMA UniqueConfigs ==
  ASSUME NEW i \in {"UNIQUE_BY_ANTENNA", "UNIQUE_BY_DATA", "UNIQUE_BY_PROTOCOL"}
  PROVE  Inverse(Config(i))
<1>1. \A m : ConfigCodes(i, m) = Flag("0", "1") /\ ConfigReadings(i, m) = FlagRead("0", "1")
  BY DEF ConfigCodes, ConfigReadings
<1>2. QED
  BY <1>1, ConfigInverse, FlagItem

(* The rest of them.                                                       *)
LEMMA OtherConfigs ==
  /\ Inverse(Config("TRANSMIT_POWER_SAVE"))
  /\ Inverse(Config("TRIGGER_READ_GPIO"))
<1>1. ASSUME NEW m, NEW v \in DOMAIN ConfigCodes("TRANSMIT_POWER_SAVE", m)
      PROVE  ConfigReadings("TRANSMIT_POWER_SAVE", m)[ConfigCodes("TRANSMIT_POWER_SAVE", m)[v]] = v
  <2>1. CASE m = "Micro"
    BY <1>1, <2>1 DEF ConfigCodes, ConfigReadings, Flag
  <2>2. CASE m # "Micro"
    BY <1>1, <2>2 DEF ConfigCodes, ConfigReadings, Flag, FlagRead
  <2>3. QED
    BY <2>1, <2>2
<1>2. ASSUME NEW m, NEW v \in DOMAIN ConfigCodes("TRIGGER_READ_GPIO", m)
      PROVE  ConfigReadings("TRIGGER_READ_GPIO", m)[ConfigCodes("TRIGGER_READ_GPIO", m)[v]] = v
  BY <1>2 DEF ConfigCodes, ConfigReadings
<1>3. QED
  BY <1>1, <1>2, ConfigInverse DEF Inverse

(* The GEN2 parameters that both switches have.                            *)
LEMMA Gen2Items ==
  \A i \in {"SESSION", "TAGENCODING", "TARI", "BAP", "TARGET", "Q"} : Inverse(Gen2(i))
<1>1. ASSUME NEW i \in {"SESSION", "TAGENCODING", "TARI", "BAP"} PROVE Inverse(Gen2(i))
  <2>1. Gen2Codes(i) = Plain /\ Gen2Readings(i) = Plain
    BY DEF Gen2Codes, Gen2Readings
  <2>2. QED
    BY <2>1, Gen2Inverse, PlainItem
<1>2. ASSUME NEW i \in {"TARGET", "Q"}, NEW v \in DOMAIN Gen2Codes(i)
      PROVE Gen2Readings(i)[Gen2Codes(i)[v]] = v
  <2>1. CASE i = "TARGET"
    BY <1>2, <2>1 DEF Gen2Codes, Gen2Readings
  <2>2. CASE i = "Q"
    BY <1>2, <2>2 DEF Gen2Codes, Gen2Readings
  <2>3. QED
    BY <2>1, <2>2
<1>3. QED
  BY <1>1, <1>2, Gen2Inverse DEF Inverse

(* The ISO18000-6B parameters.                                             *)
LEMMA ISOItems ==
  \A i \in {"LINKFREQUENCY", "MODULATION_DEPTH", "DELIMITER"} : Inverse(ISO(i))
<1>1. ASSUME NEW i \in {"LINKFREQUENCY", "MODULATION_DEPTH", "DELIMITER"},
             NEW v \in DOMAIN ISOCodes(i)
      PROVE ISOReadings(i)[ISOCodes(i)[v]] = v
  <2>1. CASE i = "LINKFREQUENCY"
    BY <1>1, <2>1 DEF ISOCodes, ISOReadings
  <2>2. CASE i = "MODULATION_DEPTH"
    BY <1>1, <2>2 DEF ISOCodes, ISOReadings
  <2>3. CASE i = "DELIMITER"
    BY <1>1, <2>3 DEF ISOCodes, ISOReadings
  <2>4. QED
    BY <2>1, <2>2, <2>3
<1>2. QED
  BY <1>1, ISOInverse DEF Inverse

(* The lists of antenna ports: powers and settling times.                  *)
LEMMA PortItems ==
  ASSUME NEW n
  PROVE  /\ Inverse(Ports(n))
         /\ \A m : "unlisted" \notin DOMAIN Codes(Ports(n), m)
<1>1. Ports(n)[1] = "ANTENNA_PORT 4"
  BY DEF Ports
<1>2. \A m : Codes(Ports(n), m) = [v \in {"a", "0", "-32768"} |-> v]
  BY DEF Codes, Ports
<1>3. \A m : Readings(Ports(n), m) = PortReadings(m)
  BY DEF Readings, Ports
<1>4. \A m : PortReadings(m)["a"] = "a"
  BY DEF PortReadings
<1>5. ASSUME NEW m, NEW v \in DOMAIN Codes(Ports(n), m), Ports(n)[1] = "ANTENNA_PORT 4" => v = "a"
      PROVE  Readings(Ports(n), m)[Codes(Ports(n), m)[v]] = v
  <2>1. v = "a" /\ Codes(Ports(n), m)[v] = "a"
    BY <1>1, <1>2, <1>5
  <2>2. QED
    BY <1>3, <1>4, <2>1
<1>6. \A m : "unlisted" \notin DOMAIN Codes(Ports(n), m)
  BY <1>2
<1>7. QED
  BY <1>5, <1>6 DEF Inverse

(* The time a write to a tag may take.                                     *)
LEMMA WriteTimeOutItems ==
  ASSUME NEW n \in {"TIMEOUT", "EARLY_EXIT"}
  PROVE  /\ Inverse(WriteTimeOut(n))
         /\ \A m : "unlisted" \notin DOMAIN Codes(WriteTimeOut(n), m)
<1>1. CASE n = "EARLY_EXIT"
  <2>1. \A m : /\ Codes(WriteTimeOut(n), m) = Flag("0", "1")
               /\ Readings(WriteTimeOut(n), m) = FlagRead("0", "1")
    BY <1>1 DEF Codes, Readings, WriteTimeOut
  <2>2. QED
    BY <2>1, FlagItem, FlagInverse
<1>2. CASE n = "TIMEOUT"
  <2>1. \A m : Codes(WriteTimeOut(n), m) = Plain /\ Readings(WriteTimeOut(n), m) = Plain
    BY <1>2 DEF Codes, Readings, WriteTimeOut
  <2>2. QED
    BY <2>1, PlainItem, PlainInverse
<1>3. QED
  BY <1>1, <1>2

(* The items that both switches write and read under one name.             *)
LEMMA SameItems ==
  /\ Written.ReadTxPower = Read.ReadTxPower
  /\ Written.WriteTxPower = Read.WriteTxPower
  /\ Written.FrequencyHopTable = Read.FrequencyHopTable
  /\ Written.FrequencyHopTime = Read.FrequencyHopTime
  /\ Written.Region = Read.Region
  /\ Written.RegionLbt = Read.RegionLbt
  /\ Written.PowerMode = Read.PowerMode
  /\ Written.UserMode = Read.UserMode
  /\ Written.GPIODirection = Read.GPIODirection
BY DEF Written, Read

(* The commands whose values are sent as they are.                         *)
PlainCommands == {"READ_TX_POWER", "WRITE_TX_POWER", "FREQ_HOP_TABLE", "POWER_MODE",
                  "USER_MODE", "USER_GPIO_OUTPUTS", "TAG_PROTOCOL", "ANTENNA_PORT"}

(* What these commands send is what is read back.                          *)
LEMMA PlainItems ==
  ASSUME NEW i, i[1] \in PlainCommands
  PROVE  Inverse(i) /\ \A m : Codes(i, m) = Plain
<1>1. \A m : Codes(i, m) = Plain
  BY DEF Codes, PlainCommands
<1>2. \A m : Readings(i, m) = Plain
  BY DEF Readings, PlainCommands
<1>3. QED
  BY <1>1, <1>2, PlainItem

(* The items that are read by commands of their own.                       *)
LEMMA ReadItems ==
  \A i \in {Read.ReadTxPower, Read.WriteTxPower, Read.FrequencyHopTable, Read.FrequencyHopTime,
            Read.PowerMode, Read.UserMode, Read.GPIODirection} : Inverse(i)
<1>1. \A i \in {Read.ReadTxPower, Read.WriteTxPower, Read.FrequencyHopTable, Read.FrequencyHopTime,
            Read.PowerMode, Read.UserMode, Read.GPIODirection} : i[1] \in PlainCommands
  BY DEF Read, PlainCommands
<1>2. QED
  BY <1>1, PlainItems

(* Listen before talk is a flag.                                           *)
LEMMA LbtItem == Inverse(Read.RegionLbt)
<1>1. Read.RegionLbt = <<"REGION", "LBT">>
  BY DEF Read
<1>2. \A m : /\ Codes(Read.RegionLbt, m) = Flag("1", "0")
             /\ Readings(Read.RegionLbt, m) = FlagRead("1", "0")
  BY <1>1 DEF Codes, Readings
<1>3. QED
  BY <1>2, FlagItem

(* The region has values the module does not know.                         *)
LEMMA RegionItem == \A m : DOMAIN Codes(Read.Region, m) = {"a", "b", "unlisted"}
<1>1. Read.Region = <<"REGION", "0">>
  BY DEF Read
<1>2. QED
  BY <1>1 DEF Codes

-------------------------------------------------------------------------------
(* How the two switches go together, key by key.                           *)

(* How a row of either switch may go; the rows that keep a value; and the  *)
(* parameters of which less is promised.                                   *)
SetHows == {"keep", "send", "READONLY", "rate", "send keep", "keep send", "merge", "pins",
            "lbt", "bap", "reset", "keep send connected", "send keep connected",
            "keep send map"}
GetHows == {"keep", "shorten", "ask", "ask keep", "ask keep connected", "ask if none",
            "ask or false"}
Keeping == {"keep", "rate", "send keep", "keep send", "keep send connected",
            "send keep connected"}
Exempt == {"REGION_ID", "TAGOP_ANTENNA", "TAGOP_PROTOCOL", "GPIO_INPUTLIST",
           "GPIO_OUTPUTLIST", "REGION_LBT_ENABLE", "PROBEBAUDRATES",
           "ANTENNA_PORTSWITCHGPOS"}

(* What one row of Set says for itself.                                    *)
SetFits(k, h, f, i, e) ==
  /\ h \in SetHows
  /\ e \in {"NOT_FOUND", "READONLY", "UNSUPPORTED"}
  /\ h = "rate" <=> f = "baudRate"
  /\ h = "rate" => k = "BAUDRATE"
  /\ h \in {"keep", "rate", "READONLY"} => i = NoItem
  /\ h \in Keeping => f # "none"
  /\ h = "merge" => \A m : "unlisted" \notin DOMAIN Codes(i, m)
  /\ h = "bap" => \A m : DOMAIN Codes(i, m) = {"a", "b"}
  /\ h = "send keep" =>
       \/ k = "EXTENDEDEPC" /\ i = Config("EXTENDED_EPC") /\ f = "extendedEPC"
       \/ k = "TAGREADDATA_READFILTERTIMEOUT" /\ i = Config("READ_FILTER_TIMEOUT")
            /\ f = "readFilterTimeout"
       \/ k = "TAGREADDATA_ENABLEREADFILTER" /\ i = Config("ENABLE_READ_FILTER")
            /\ f = "enableReadFiltering"
  /\ h \in {"keep send", "keep send connected", "keep send map", "pins", "lbt"} => k \in Exempt

(* What a get has to do with what was set.                                 *)
GetFits(k, h, f, i, m, H, F, I, M, E) ==
  /\ H \in GetHows
  /\ F = "baudRate" => H = "keep"
  /\ H \in {"keep", "shorten"} => h \in {"READONLY", "reset"} \/ (f = F /\ h \in Keeping)
  /\ H = "shorten" => k = "PROBEBAUDRATES"
  /\ H = "ask" => \/ h \in {"READONLY", "reset"}
                  \/ i = I /\ i # NoItem /\ (k = "GEN2_BLF" \/ Inverse(i))
  /\ H = "ask or false" => k = "REGION_LBT_ENABLE" /\ i = I /\ i # NoItem /\ Inverse(i)
  /\ H = "ask keep connected" =>
       k = "POWERMODE" /\ h = "send keep connected" /\ f = F /\ i = I /\ i # NoItem /\ Inverse(i)
  /\ H = "ask if none" =>
       k = "REGION_ID" /\ h \in Keeping /\ f = F /\ i # NoItem
         /\ \A n : "NONE" \notin DOMAIN Codes(i, n)
  /\ H = "ask keep" => k = "ANTENNA_PORTSWITCHGPOS"
  /\ h = "bap" => H = "ask"
  /\ E = "ok" => M = m /\ h = "pins"

(* The two rows of one parameter.                                          *)
Fits(k) ==
  /\ SetFits(k, HowOf(Set[k]), FieldOf(Set[k]), ItemOf(Set[k]), ElseOf(Set[k]))
  /\ GetFits(k, HowOf(Set[k]), FieldOf(Set[k]), ItemOf(Set[k]), ModelsOf(Set[k]),
             HowOf(Get[k]), FieldOf(Get[k]), ItemOf(Get[k]), ModelsOf(Get[k]), ElseOf(Get[k]))

(* From the columns of both rows.                                          *)
LEMMA BothFit ==
  ASSUME NEW k, NEW h, NEW f, NEW i, NEW m, NEW e,
         NEW H, NEW F, NEW I, NEW M, NEW E,
         Like(Set[k], h, f, i, m, e), Like(Get[k], H, F, I, M, E),
         SetFits(k, h, f, i, e), GetFits(k, h, f, i, m, H, F, I, M, E)
  PROVE  Fits(k)
BY DEF Like, Fits

(* How a module without the parameter may answer.                          *)
Refusal == {"NOT_FOUND", "READONLY", "UNSUPPORTED"}

(* Kept in the reader structure, and answered from there.                  *)
LEMMA KeptFits ==
  ASSUME NEW k, NEW f, f \notin {"none", "baudRate"},
         NEW m, NEW e \in Refusal, NEW M, NEW E \in Refusal,
         Like(Set[k], "keep", f, NoItem, m, e), Like(Get[k], "keep", f, NoItem, M, E)
  PROVE  Fits(k)
<1>1. SetFits(k, "keep", f, NoItem, e)
  BY DEF SetFits, SetHows, Refusal
<1>2. GetFits(k, "keep", f, NoItem, m, "keep", f, NoItem, M, E)
  BY DEF GetFits, GetHows, Keeping, Refusal
<1>3. QED
  BY <1>1, <1>2, BothFit

(* Sent to the module, and asked of it.                                    *)
LEMMA SentFits ==
  ASSUME NEW k, NEW i, i # NoItem, Inverse(i),
         NEW m, NEW e \in Refusal, NEW M, NEW E \in Refusal,
         Like(Set[k], "send", "none", i, m, e), Like(Get[k], "ask", "none", i, M, E)
  PROVE  Fits(k)
<1>1. SetFits(k, "send", "none", i, e)
  BY DEF SetFits, SetHows, Refusal, Keeping
<1>2. GetFits(k, "send", "none", i, m, "ask", "none", i, M, E)
  BY DEF GetFits, GetHows, Refusal
<1>3. QED
  BY <1>1, <1>2, BothFit

(* Merged with what the module has, and asked of it.                       *)
LEMMA MergedFits ==
  ASSUME NEW k, NEW i, i # NoItem, Inverse(i), \A m : "unlisted" \notin DOMAIN Codes(i, m),
         Like(Set[k], "merge", "none", i, Models, "NOT_FOUND"),
         Like(Get[k], "ask", "none", i, Models, "NOT_FOUND")
  PROVE  Fits(k)
<1>1. SetFits(k, "merge", "none", i, "NOT_FOUND")
  BY DEF SetFits, SetHows, Keeping
<1>2. GetFits(k, "merge", "none", i, Models, "ask", "none", i, Models, "NOT_FOUND")
  BY DEF GetFits, GetHows
<1>3. QED
  BY <1>1, <1>2, BothFit

(* Never set.                                                              *)
LEMMA ReadOnlyFits ==
  ASSUME NEW k, NEW H \in {"keep", "ask"}, NEW F, F # "baudRate", NEW I,
         Like(Set[k], "READONLY", "none", NoItem, Models, "NOT_FOUND"),
         Like(Get[k], H, F, I, Models, "NOT_FOUND")
  PROVE  Fits(k)
<1>1. SetFits(k, "READONLY", "none", NoItem, "NOT_FOUND")
  BY DEF SetFits, SetHows, Keeping
<1>2. GetFits(k, "READONLY", "none", NoItem, Models, H, F, I, Models, "NOT_FOUND")
  BY DEF GetFits, GetHows
<1>3. QED
  BY <1>1, <1>2, BothFit
(* The items that are read are none's own.                                 *)
LEMMA RealItems ==
  /\ \A i : Config(i) # NoItem /\ Gen2(i) # NoItem /\ ISO(i) # NoItem
  /\ \A i : Ports(i) # NoItem /\ WriteTimeOut(i) # NoItem /\ Statistics(i) # NoItem
  /\ \A i \in {Read.ReadTxPower, Read.WriteTxPower, Read.FrequencyHopTable,
                Read.FrequencyHopTime, Read.PowerMode, Read.UserMode, Read.GPIODirection,
                Read.Region, Read.RegionLbt} : i # NoItem
<1>1. /\ \A i : Config(i) # NoItem /\ Gen2(i) # NoItem /\ ISO(i) # NoItem
      /\ \A i : Ports(i) # NoItem /\ WriteTimeOut(i) # NoItem /\ Statistics(i) # NoItem
  BY DEF Config, Gen2, ISO, Ports, WriteTimeOut, Statistics, NoItem
<1>2. \A i \in {Read.ReadTxPower, Read.WriteTxPower, Read.FrequencyHopTable,
                Read.FrequencyHopTime, Read.PowerMode, Read.UserMode, Read.GPIODirection,
                Read.Region, Read.RegionLbt} : i # NoItem
  BY DEF Read, NoItem
<1>3. QED
  BY <1>1, <1>2

(* The parameters that are kept.                                           *)
LEMMA KeptKeys ==
  \A k \in {"STATUS_ENABLE_ANTENNAREPORT", "STATUS_ENABLE_FREQUENCYREPORT",
            "STATUS_ENABLE_TEMPERATUREREPORT", "COMMANDTIMEOUT",
            "TRANSPORTTIMEOUT", "ANTENNA_TXRXMAP", "READ_PLAN",
            "GEN2_WRITEMODE", "GEN2_ACCESSPASSWORD", "READER_STATS_ENABLE",
            "METADATAFLAG", "READ_ASYNCONTIME", "READ_ASYNCOFFTIME"} : Fits(k)
<1>1. /\ Fits("STATUS_ENABLE_ANTENNAREPORT")
      /\ Fits("STATUS_ENABLE_FREQUENCYREPORT")
      /\ Fits("STATUS_ENABLE_TEMPERATUREREPORT")
      /\ Fits("COMMANDTIMEOUT")
      /\ Fits("TRANSPORTTIMEOUT")
  BY SetARows, GetARows, GetBRows, KeptFits DEF Refusal
<1>2. Fits("ANTENNA_TXRXMAP")
  BY SetCRows, GetDRows, KeptFits DEF Refusal
<1>3. Fits("READ_PLAN")
  BY SetDRows, GetTimesRows, KeptFits DEF Refusal
<1>4. Fits("GEN2_WRITEMODE") /\ Fits("GEN2_ACCESSPASSWORD")
  BY SetFRows, GetERows, KeptFits DEF Refusal
<1>5. Fits("READER_STATS_ENABLE") /\ Fits("METADATAFLAG")
  BY SetGRows, GetGRows, KeptFits DEF Refusal
<1>6. Fits("READ_ASYNCONTIME") /\ Fits("READ_ASYNCOFFTIME")
  BY SetTimesRows, GetTimesRows, KeptFits DEF Refusal
<1>7. QED
  BY <1>1, <1>2, <1>3, <1>4, <1>5, <1>6

(* The parameters that are sent.                                           *)
LEMMA SentKeys ==
  \A k \in {"RADIO_ENABLEPOWERSAVE", "RADIO_ENABLESJC",
            "TAGREADDATA_UNIQUEBYPROTOCOL", "RADIO_READPOWER",
            "RADIO_WRITEPOWER", "ANTENNA_CHECKPORT",
            "TAGREADDATA_RECORDHIGHESTRSSI", "TAGREADDATA_REPORTRSSIINDBM",
            "TAGREADDATA_UNIQUEBYANTENNA", "TAGREADDATA_UNIQUEBYDATA",
            "TRIGGER_READ_GPI", "REGION_HOPTABLE", "REGION_HOPTIME",
            "USERMODE", "GEN2_Q", "GEN2_TAGENCODING", "GEN2_SESSION",
            "GEN2_TARGET", "GEN2_TARI", "ISO180006B_BLF",
            "ISO180006B_MODULATION_DEPTH", "ISO180006B_DELIMITER"} : Fits(k)
<1>1. /\ Fits("RADIO_ENABLEPOWERSAVE")
      /\ Fits("RADIO_ENABLESJC")
      /\ Fits("TAGREADDATA_UNIQUEBYPROTOCOL")
      /\ Fits("RADIO_READPOWER")
      /\ Fits("RADIO_WRITEPOWER")
      /\ Fits("ANTENNA_CHECKPORT")
      /\ Fits("TAGREADDATA_RECORDHIGHESTRSSI")
      /\ Fits("TAGREADDATA_REPORTRSSIINDBM")
      /\ Fits("TAGREADDATA_UNIQUEBYANTENNA")
      /\ Fits("TAGREADDATA_UNIQUEBYDATA")
  BY SetBRows, GetARows, GetBRows, SentFits, RealItems, SameItems, FlagConfigs, UniqueConfigs,
     OtherConfigs, Gen2Items, ISOItems, ReadItems DEF Refusal
<1>2. /\ Fits("TRIGGER_READ_GPI")
      /\ Fits("REGION_HOPTABLE")
      /\ Fits("REGION_HOPTIME")
  BY SetCRows, GetCRows, GetDRows, SentFits, RealItems, SameItems, FlagConfigs, UniqueConfigs,
     OtherConfigs, Gen2Items, ISOItems, ReadItems DEF Refusal
<1>3. Fits("USERMODE")
  BY SetERows, GetERows, SentFits, RealItems, SameItems, FlagConfigs, UniqueConfigs,
     OtherConfigs, Gen2Items, ISOItems, ReadItems DEF Refusal
<1>4. /\ Fits("GEN2_Q")
      /\ Fits("GEN2_TAGENCODING")
      /\ Fits("GEN2_SESSION")
      /\ Fits("GEN2_TARGET")
      /\ Fits("GEN2_TARI")
      /\ Fits("ISO180006B_BLF")
      /\ Fits("ISO180006B_MODULATION_DEPTH")
      /\ Fits("ISO180006B_DELIMITER")
  BY SetFRows, GetERows, SentFits, RealItems, SameItems, FlagConfigs, UniqueConfigs,
     OtherConfigs, Gen2Items, ISOItems, ReadItems DEF Refusal
<1>5. QED
  BY <1>1, <1>2, <1>3, <1>4

(* The parameters that are never set.                                      *)
LEMMA ReadOnlyKeys ==
  \A k \in {"URI", "PRODUCT_GROUP_ID", "PRODUCT_GROUP", "PRODUCT_ID",
            "TAGREADATA_TAGOPSUCCESSCOUNT", "TAGREADATA_TAGOPFAILURECOUNT",
            "RADIO_POWERMAX", "RADIO_POWERMIN", "REGION_SUPPORTEDREGIONS",
            "ANTENNA_PORTLIST", "ANTENNA_CONNECTEDPORTLIST",
            "VERSION_SUPPORTEDPROTOCOLS", "RADIO_TEMPERATURE",
            "VERSION_HARDWARE", "VERSION_MODEL", "VERSION_SOFTWARE",
            "ANTENNA_RETURNLOSS", "GEN2_PROTOCOLEXTENSION"} : Fits(k)
<1>1. /\ Fits("RADIO_POWERMAX")
      /\ Fits("RADIO_POWERMIN")
      /\ Fits("REGION_SUPPORTEDREGIONS")
      /\ Fits("ANTENNA_PORTLIST")
      /\ Fits("ANTENNA_CONNECTEDPORTLIST")
      /\ Fits("VERSION_SUPPORTEDPROTOCOLS")
      /\ Fits("RADIO_TEMPERATURE")
      /\ Fits("VERSION_HARDWARE")
      /\ Fits("VERSION_MODEL")
      /\ Fits("VERSION_SOFTWARE")
      /\ Fits("ANTENNA_RETURNLOSS")
      /\ Fits("GEN2_PROTOCOLEXTENSION")
  BY SetERows, GetBRows, GetCRows, GetDRows, GetERows, GetFRows, ReadOnlyFits
<1>2. /\ Fits("URI")
      /\ Fits("PRODUCT_GROUP_ID")
      /\ Fits("PRODUCT_GROUP")
      /\ Fits("PRODUCT_ID")
      /\ Fits("TAGREADATA_TAGOPSUCCESSCOUNT")
      /\ Fits("TAGREADATA_TAGOPFAILURECOUNT")
  BY SetProductRows, GetARows, GetBRows, GetGRows, ReadOnlyFits
<1>3. QED
  BY <1>1, <1>2

(* The parameters that are merged.                                         *)
LEMMA MergedKeys ==
  \A k \in {"RADIO_PORTREADPOWERLIST", "RADIO_PORTWRITEPOWERLIST",
            "ANTENNA_SETTLINGTIMELIST", "READER_WRITE_REPLY_TIMEOUT",
            "READER_WRITE_EARLY_EXIT"} : Fits(k)
<1>1. /\ Fits("RADIO_PORTREADPOWERLIST")
      /\ Fits("RADIO_PORTWRITEPOWERLIST")
      /\ Fits("ANTENNA_SETTLINGTIMELIST")
  BY SetBRows, GetCRows, MergedFits, RealItems, PortItems, WriteTimeOutItems
<1>2. Fits("READER_WRITE_REPLY_TIMEOUT") /\ Fits("READER_WRITE_EARLY_EXIT")
  BY SetGRows, GetGRows, MergedFits, RealItems, PortItems, WriteTimeOutItems
<1>3. QED
  BY <1>1, <1>2

(* The battery assisted tags' parameters.                                  *)
LEMMA BapItem ==
  /\ Inverse(Gen2("BAP"))
  /\ \A m : DOMAIN Codes(Gen2("BAP"), m) = {"a", "b"}
<1>1. \A m : Codes(Gen2("BAP"), m) = Plain
  BY Gen2Inverse DEF Gen2Codes
<1>2. QED
  BY <1>1, Gen2Items, PlainInverse

(* The keys that differ from all others.                                   *)
LEMMA OtherKeys ==
  \A k \in {"REGION_ID", "BAUDRATE", "PROBEBAUDRATES",
            "TAGREADDATA_READFILTERTIMEOUT", "TAGREADDATA_ENABLEREADFILTER",
            "ANTENNA_PORTSWITCHGPOS", "REGION_LBT_ENABLE", "TAGOP_ANTENNA",
            "TAGOP_PROTOCOL", "POWERMODE", "GPIO_INPUTLIST",
            "GPIO_OUTPUTLIST", "GEN2_BLF", "READER_STATISTICS",
            "READER_STATS", "EXTENDEDEPC", "GEN2_BAP"} : Fits(k)
<1>1. Fits("REGION_ID")
  <2>1. SetFits("REGION_ID", "keep send connected", "regionId", Read.Region, "NOT_FOUND")
    BY RealItems, SameItems, RegionItem DEF SetFits, SetHows, Keeping, Exempt
  <2>2. GetFits("REGION_ID", "keep send connected", "regionId", Read.Region, Models,
                "ask if none", "regionId", Read.Region, Models, "NOT_FOUND")
    BY RealItems, SameItems, RegionItem DEF GetFits, GetHows, Keeping
  <2>3. QED
    BY <2>1, <2>2, SetARows, GetARows, SameItems, BothFit
<1>2. Fits("BAUDRATE")
  <2>1. SetFits("BAUDRATE", "rate", "baudRate", NoItem, "NOT_FOUND")
    BY RealItems, SameItems DEF SetFits, SetHows, Keeping, Exempt
  <2>2. GetFits("BAUDRATE", "rate", "baudRate", NoItem, Models,
                "keep", "baudRate", NoItem, Models, "NOT_FOUND")
    BY RealItems, SameItems DEF GetFits, GetHows, Keeping
  <2>3. QED
    BY <2>1, <2>2, SetARows, GetARows, SameItems, BothFit
<1>3. Fits("PROBEBAUDRATES")
  <2>1. SetFits("PROBEBAUDRATES", "keep", "probeBaudRates", NoItem, "NOT_FOUND")
    BY RealItems, SameItems DEF SetFits, SetHows, Keeping, Exempt
  <2>2. GetFits("PROBEBAUDRATES", "keep", "probeBaudRates", NoItem, Models,
                "shorten", "probeBaudRates", NoItem, Models, "NOT_FOUND")
    BY RealItems, SameItems DEF GetFits, GetHows, Keeping
  <2>3. QED
    BY <2>1, <2>2, SetARows, GetARows, SameItems, BothFit
<1>4. Fits("TAGREADDATA_READFILTERTIMEOUT")
  <2>1. SetFits("TAGREADDATA_READFILTERTIMEOUT", "send keep", "readFilterTimeout",
                Config("READ_FILTER_TIMEOUT"), "NOT_FOUND")
    BY RealItems, SameItems DEF SetFits, SetHows, Keeping, Exempt
  <2>2. GetFits("TAGREADDATA_READFILTERTIMEOUT", "send keep", "readFilterTimeout",
                Config("READ_FILTER_TIMEOUT"), M6eClass,
                "keep", "readFilterTimeout", NoItem, M6eClass, "NOT_FOUND")
    BY RealItems, SameItems DEF GetFits, GetHows, Keeping
  <2>3. QED
    BY <2>1, <2>2, SetBRows, GetARows, SameItems, BothFit
<1>5. Fits("TAGREADDATA_ENABLEREADFILTER")
  <2>1. SetFits("TAGREADDATA_ENABLEREADFILTER", "send keep", "enableReadFiltering",
                Config("ENABLE_READ_FILTER"), "READONLY")
    BY RealItems, SameItems DEF SetFits, SetHows, Keeping, Exempt
  <2>2. GetFits("TAGREADDATA_ENABLEREADFILTER", "send keep", "enableReadFiltering",
                Config("ENABLE_READ_FILTER"), M6eClass,
                "keep", "enableReadFiltering", NoItem, Models, "NOT_FOUND")
    BY RealItems, SameItems DEF GetFits, GetHows, Keeping
  <2>3. QED
    BY <2>1, <2>2, SetBRows, GetARows, SameItems, BothFit
<1>6. Fits("ANTENNA_PORTSWITCHGPOS")
  <2>1. SetFits("ANTENNA_PORTSWITCHGPOS", "keep send map", "portmask",
                Config("ANTENNA_CONTROL_GPIO"), "NOT_FOUND")
    BY RealItems, SameItems DEF SetFits, SetHows, Keeping, Exempt
  <2>2. GetFits("ANTENNA_PORTSWITCHGPOS", "keep send map", "portmask",
                Config("ANTENNA_CONTROL_GPIO"), Models,
                "ask keep", "portmask", Config("ANTENNA_CONTROL_GPIO"), Models, "NOT_FOUND")
    BY RealItems, SameItems DEF GetFits, GetHows, Keeping
  <2>3. QED
    BY <2>1, <2>2, SetCRows, GetCRows, SameItems, BothFit
<1>7. Fits("REGION_LBT_ENABLE")
  <2>1. SetFits("REGION_LBT_ENABLE", "lbt", "none", Read.RegionLbt, "NOT_FOUND")
    BY RealItems, SameItems, LbtItem DEF SetFits, SetHows, Keeping, Exempt
  <2>2. GetFits("REGION_LBT_ENABLE", "lbt", "none", Read.RegionLbt, Models,
                "ask or false", "none", Read.RegionLbt, Models, "NOT_FOUND")
    BY RealItems, SameItems, LbtItem DEF GetFits, GetHows, Keeping
  <2>3. QED
    BY <2>1, <2>2, SetCRows, GetDRows, SameItems, BothFit
<1>8. Fits("TAGOP_ANTENNA")
  <2>1. SetFits("TAGOP_ANTENNA", "keep send", "antenna", Written.TxRxPorts, "NOT_FOUND")
    BY RealItems, SameItems DEF SetFits, SetHows, Keeping, Exempt
  <2>2. GetFits("TAGOP_ANTENNA", "keep send", "antenna", Written.TxRxPorts, Models,
                "keep", "antenna", NoItem, Models, "NOT_FOUND")
    BY RealItems, SameItems DEF GetFits, GetHows, Keeping
  <2>3. QED
    BY <2>1, <2>2, SetDRows, GetDRows, SameItems, BothFit
<1>9. Fits("TAGOP_PROTOCOL")
  <2>1. SetFits("TAGOP_PROTOCOL", "keep send connected", "protocol", Written.Protocol, "NOT_FOUND")
    BY RealItems, SameItems DEF SetFits, SetHows, Keeping, Exempt
  <2>2. GetFits("TAGOP_PROTOCOL", "keep send connected", "protocol", Written.Protocol, Models,
                "keep", "protocol", NoItem, Models, "NOT_FOUND")
    BY RealItems, SameItems DEF GetFits, GetHows, Keeping
  <2>3. QED
    BY <2>1, <2>2, SetDRows, GetDRows, SameItems, BothFit
<1>10. Fits("POWERMODE")
  <2>1. SetFits("POWERMODE", "send keep connected", "powerMode", Read.PowerMode, "NOT_FOUND")
    BY RealItems, SameItems, ReadItems DEF SetFits, SetHows, Keeping, Exempt
  <2>2. GetFits("POWERMODE", "send keep connected", "powerMode", Read.PowerMode, Models,
                "ask keep connected", "powerMode", Read.PowerMode, Models, "NOT_FOUND")
    BY RealItems, SameItems, ReadItems DEF GetFits, GetHows, Keeping
  <2>3. QED
    BY <2>1, <2>2, SetERows, GetERows, SameItems, BothFit
<1>11. Fits("GPIO_INPUTLIST")
  <2>1. SetFits("GPIO_INPUTLIST", "pins", "none", Read.GPIODirection, "READONLY")
    BY RealItems, SameItems, ReadItems DEF SetFits, SetHows, Keeping, Exempt
  <2>2. GetFits("GPIO_INPUTLIST", "pins", "none", Read.GPIODirection, M6eClass,
                "ask", "none", Read.GPIODirection, M6eClass, "ok")
    BY RealItems, SameItems, ReadItems DEF GetFits, GetHows, Keeping
  <2>3. QED
    BY <2>1, <2>2, SetERows, GetCRows, SameItems, BothFit
<1>12. Fits("GPIO_OUTPUTLIST")
  <2>1. SetFits("GPIO_OUTPUTLIST", "pins", "none", Read.GPIODirection, "READONLY")
    BY RealItems, SameItems, ReadItems DEF SetFits, SetHows, Keeping, Exempt
  <2>2. GetFits("GPIO_OUTPUTLIST", "pins", "none", Read.GPIODirection, M6eClass,
                "ask", "none", Read.GPIODirection, M6eClass, "ok")
    BY RealItems, SameItems, ReadItems DEF GetFits, GetHows, Keeping
  <2>3. QED
    BY <2>1, <2>2, SetERows, GetCRows, SameItems, BothFit
<1>13. Fits("GEN2_BLF")
  <2>1. SetFits("GEN2_BLF", "send", "none", Gen2("LINKFREQUENCY"), "NOT_FOUND")
    BY RealItems, SameItems DEF SetFits, SetHows, Keeping, Exempt
  <2>2. GetFits("GEN2_BLF", "send", "none", Gen2("LINKFREQUENCY"), Models,
                "ask", "none", Gen2("LINKFREQUENCY"), Models, "NOT_FOUND")
    BY RealItems, SameItems DEF GetFits, GetHows, Keeping
  <2>3. QED
    BY <2>1, <2>2, SetFRows, GetERows, SameItems, BothFit
<1>14. Fits("READER_STATISTICS")
  <2>1. SetFits("READER_STATISTICS", "reset", "none", Statistics("RESET"), "NOT_FOUND")
    BY RealItems, SameItems DEF SetFits, SetHows, Keeping, Exempt
  <2>2. GetFits("READER_STATISTICS", "reset", "none", Statistics("RESET"), Models,
                "ask", "none", Statistics("PER_PORT"), Models, "NOT_FOUND")
    BY RealItems, SameItems DEF GetFits, GetHows, Keeping
  <2>3. QED
    BY <2>1, <2>2, SetGRows, GetGRows, SameItems, BothFit
<1>15. Fits("READER_STATS")
  <2>1. SetFits("READER_STATS", "reset", "none", Statistics("RESET"), "NOT_FOUND")
    BY RealItems, SameItems DEF SetFits, SetHows, Keeping, Exempt
  <2>2. GetFits("READER_STATS", "reset", "none", Statistics("RESET"), {"M6e", "Micro", "Nano"},
                "ask", "none", Statistics("PER_PORT"), M6eClass, "UNSUPPORTED")
    BY RealItems, SameItems DEF GetFits, GetHows, Keeping
  <2>3. QED
    BY <2>1, <2>2, SetGRows, GetGRows, SameItems, BothFit
<1>16. Fits("EXTENDEDEPC")
  <2>1. SetFits("EXTENDEDEPC", "send keep", "extendedEPC", Config("EXTENDED_EPC"), "UNSUPPORTED")
    BY RealItems, SameItems, FlagConfigs DEF SetFits, SetHows, Keeping, Exempt
  <2>2. GetFits("EXTENDEDEPC", "send keep", "extendedEPC", Config("EXTENDED_EPC"), {"M5e"},
                "ask", "none", Config("EXTENDED_EPC"), {"M5e"}, "UNSUPPORTED")
    BY RealItems, SameItems, FlagConfigs DEF GetFits, GetHows, Keeping
  <2>3. QED
    BY <2>1, <2>2, SetExtendedEPCRows, GetARows, SameItems, BothFit
<1>17. Fits("GEN2_BAP")
  <2>1. SetFits("GEN2_BAP", "bap", "isBapEnabled", Gen2("BAP"), "NOT_FOUND")
    BY RealItems, SameItems, BapItem DEF SetFits, SetHows, Keeping, Exempt
  <2>2. GetFits("GEN2_BAP", "bap", "isBapEnabled", Gen2("BAP"), Models,
                "ask", "none", Gen2("BAP"), Models, "NOT_FOUND")
    BY RealItems, SameItems, BapItem DEF GetFits, GetHows, Keeping
  <2>3. QED
    BY <2>1, <2>2, SetBapRows, GetERows, SameItems, BothFit
<1>18. QED
  BY <1>1, <1>2, <1>3, <1>4, <1>5, <1>6, <1>7, <1>8, <1>9, <1>10, <1>11,
     <1>12, <1>13, <1>14, <1>15, <1>16, <1>17

(* The two switches go together.                                           *)
AllFit(f) == \A k \in DOMAIN f : Fits(k)

(* Two tables put together.                                                *)
LEMMA JoinedFit ==
  ASSUME NEW f, NEW g, AllFit(f), AllFit(g)
  PROVE  AllFit(f ++ g)
BY DEF AllFit, ++

(* Every parameter's row of TMR_SR_paramGet goes with that of              *)
(* TMR_SR_paramSet.                                                        *)
LEMMA TablesFit ==
  \A k \in DOMAIN Set : Fits(k)
<1>1. AllFit(SetA)
  BY SetANames, KeptKeys, SentKeys, MergedKeys, ReadOnlyKeys, OtherKeys DEF AllFit
<1>2. AllFit(SetProduct)
  BY SetProductNames, KeptKeys, SentKeys, MergedKeys, ReadOnlyKeys, OtherKeys DEF AllFit
<1>3. AllFit(SetB)
  BY SetBNames, KeptKeys, SentKeys, MergedKeys, ReadOnlyKeys, OtherKeys DEF AllFit
<1>4. AllFit(SetC)
  BY SetCNames, KeptKeys, SentKeys, MergedKeys, ReadOnlyKeys, OtherKeys DEF AllFit
<1>5. AllFit(SetD)
  BY SetDNames, KeptKeys, SentKeys, MergedKeys, ReadOnlyKeys, OtherKeys DEF AllFit
<1>6. AllFit(SetE)
  BY SetENames, KeptKeys, SentKeys, MergedKeys, ReadOnlyKeys, OtherKeys DEF AllFit
<1>7. AllFit(SetF)
  BY SetFNames, KeptKeys, SentKeys, MergedKeys, ReadOnlyKeys, OtherKeys DEF AllFit
<1>8. AllFit(SetG)
  BY SetGNames, KeptKeys, SentKeys, MergedKeys, ReadOnlyKeys, OtherKeys DEF AllFit
<1>9. AllFit(SetExtendedEPC)
  BY SetExtendedEPCNames, KeptKeys, SentKeys, MergedKeys, ReadOnlyKeys, OtherKeys DEF AllFit
<1>10. AllFit(SetBap)
  BY SetBapNames, KeptKeys, SentKeys, MergedKeys, ReadOnlyKeys, OtherKeys DEF AllFit
<1>11. AllFit(SetTimes)
  BY SetTimesNames, KeptKeys, SentKeys, MergedKeys, ReadOnlyKeys, OtherKeys DEF AllFit
<1>12. AllFit(Set)
  BY <1>1, <1>2, <1>3, <1>4, <1>5, <1>6, <1>7, <1>8, <1>9, <1>10, <1>11,
     JoinedFit DEF Set
<1>13. QED
  BY <1>12 DEF AllFit

-------------------------------------------------------------------------------

(* What a get and a set do, whatever their row says.                         *)


(* The parameter is one of both switches, on a module that there is.       *)
Chosen == key \in DOMAIN Set \cap DOMAIN Get /\ model \in Models

(* Its rows go together.                                                   *)
LEMMA KeyFits ==
  ASSUME Chosen
  PROVE  /\ SetFits(key, Set[key].how, Set[key].field, Set[key].item, Set[key].elsewhere)
         /\ GetFits(key, Set[key].how, Set[key].field, Set[key].item, Set[key].models,
                    Get[key].how, Get[key].field, Get[key].item, Get[key].models,
                    Get[key].elsewhere)
<1>1. Fits(key)
  BY TablesFit DEF Chosen
<1>2. QED
  BY <1>1 DEF Fits, HowOf, FieldOf, ItemOf, ModelsOf, ElseOf

(* The outcomes of a command; on a closed port there is one only.          *)
LEMMA OutcomesKnown ==
  /\ Outcomes \subseteq {"ok", "refused", "timeout", "late", "comm", "autoread"}
  /\ stage = "closed" => Outcomes = {"comm"}
BY DEF Outcomes

(* The parts of what a get leaves, ...                                     *)
LEMMA ResultParts ==
  ASSUME NEW s, NEW v, NEW f
  PROVE  Result(s, v, f).status = s /\ Result(s, v, f).value = v /\ Result(s, v, f).fields = f
BY DEF Result

(* ... and of what a set leaves.                                           *)
LEMMA ChangeParts ==
  ASSUME NEW s, NEW f, NEW i
  PROVE  Change(s, f, i).status = s /\ Change(s, f, i).fields = f /\ Change(s, f, i).items = i
BY DEF Change

(* The answers of a get, one form for each way it can go.                  *)
GetForm(fs, r) ==
  LET row == Get[key]
      IsKept == r = Result("ok", fs[row.field], fs)
      IsAsked == "ok" \in Outcomes /\ r = Result("ok", Reading(row.item), fs)
      IsTaken == /\ "ok" \in Outcomes
                 /\ r = Result("ok", Reading(row.item), Into(fs, row.field, Reading(row.item)))
      IsFailed == \E o \in Outcomes \ {"ok"} : r = Result(o, "none", fs)
      Empty == fs[row.field] = "NONE"
  IN  \/ model \notin row.models /\ r = Result(row.elsewhere, "none", fs)
      \/ row.how \in {"keep", "shorten"} /\ IsKept
      \/ row.how = "shorten" /\ r = Result("ok", "short", Into(fs, row.field, "short"))
      \/ row.how \in {"ask", "ask or false"} /\ IsAsked
      \/ row.how = "ask or false" /\ r = Result("ok", "false", fs)
      \/ row.how = "ask keep" /\ IsTaken
      \/ row.how = "ask keep connected" /\ (IF connected THEN IsTaken ELSE IsKept)
      \/ row.how = "ask if none" /\ (IF Empty /\ connected THEN IsTaken ELSE IsKept)
      \/ row.how \notin {"keep", "shorten"} /\ IsFailed

(* A get goes one of these ways.                                           *)
LEMMA GetForms ==
  ASSUME Chosen, NEW fs, NEW r \in GetResults(fs)
  PROVE  GetForm(fs, r)
<1>a. Get[key].how \in GetHows
  BY KeyFits DEF GetFits
<1>1. CASE model \notin Get[key].models
  BY <1>1 DEF GetResults, GetForm
<1>2. CASE model \in Get[key].models /\ Get[key].how = "keep"
  BY <1>2 DEF GetResults, GetForm
<1>3. CASE model \in Get[key].models /\ Get[key].how = "shorten"
  BY <1>3 DEF GetResults, GetForm
<1>4. CASE model \in Get[key].models /\ Get[key].how = "ask"
  BY <1>4 DEF GetResults, GetForm
<1>5. CASE model \in Get[key].models /\ Get[key].how = "ask keep"
  BY <1>5 DEF GetResults, GetForm
<1>6. CASE model \in Get[key].models /\ Get[key].how = "ask keep connected"
  BY <1>6 DEF GetResults, GetForm
<1>7. CASE model \in Get[key].models /\ Get[key].how = "ask if none"
  BY <1>7 DEF GetResults, GetForm
<1>8. CASE model \in Get[key].models /\ Get[key].how = "ask or false"
  BY <1>8 DEF GetResults, GetForm
<1>9. QED
  BY <1>a, <1>1, <1>2, <1>3, <1>4, <1>5, <1>6, <1>7, <1>8 DEF GetHows

(* What the module has when a value reached it.                            *)
Taken(v) == Written1(Set[key].item, Codes(Set[key].item, model)[v], "ok")

(* A change by a legal value: how it may go, ...                           *)
SetForm(v, fs, c) ==
  LET row == Set[key]
      InField == Into(fs, row.field, Kept(v))
      Plainly(s) == c = Change(s, fs, module.items)
      Sent(f, s) == c = Change(s, f, IF Arrived(s) THEN Taken(v) ELSE module.items)
      Late(f, s) == c = Change(s, f, Taken(v)) /\ s # "ok"
  IN  \/ model \notin row.models /\ Plainly(row.elsewhere)
      \/ row.how = "READONLY" /\ Plainly("READONLY")
      \/ row.how = "keep" /\ c = Change("ok", InField, module.items)
      \/ \E o \in Outcomes :
           \/ row.how \in {"send", "merge", "pins", "lbt"} /\ Sent(fs, o)
           \/ row.how \in {"send keep", "send keep connected"}
                /\ Sent(IF o = "ok" THEN InField ELSE fs, o)
           \/ row.how \in {"keep send", "keep send connected", "keep send map"}
                /\ Sent(InField, o)
           \/ row.how = "merge" /\ (v = "unlisted" \/ o # "ok") /\ Plainly(o)
           \/ row.how \in {"lbt", "bap"} /\ o # "ok" /\ Plainly(o)
           \/ row.how = "keep send map" /\ Late(InField, o)
           \/ row.how = "bap" /\ v \notin {"null", "default"}
                /\ Sent(Into(fs, row.field, "true"), o)
           \/ row.how = "reset" /\ Plainly(o)
      \/ row.how \in {"pins", "lbt"} /\ Late(fs, "refused")
      \/ row.how \in {"send keep connected", "keep send connected"} /\ ~connected
           /\ c = Change("ok", InField, module.items)
      \/ row.how = "bap" /\ v \in {"null", "default"}
           /\ \E x : c = Change("ok", Into(fs, row.field, x), module.items)

(* A value either reached the module, or did not.                          *)
LEMMA SentEither ==
  ASSUME NEW v, NEW o
  PROVE  Written1(Set[key].item, Codes(Set[key].item, model)[v], o)
           = IF Arrived(o) THEN Taken(v) ELSE module.items
BY DEF Written1, Taken, Arrived

(* ... and it goes no other way.                                           *)
LEMMA SetForms ==
  ASSUME Chosen, Set[key].how # "rate", NEW v, NEW fs, NEW c \in Accepted(v, fs)
  PROVE  SetForm(v, fs, c)
<1> DEFINE row == Set[key]
           W(o) == Written1(row.item, Codes(row.item, model)[v], o)
<1>a. row.how \in SetHows
  BY KeyFits DEF SetFits
<1>b. /\ W("ok") = Taken(v)
      /\ \A o : W(o) = IF Arrived(o) THEN Taken(v) ELSE module.items
  <2>1. \A o : W(o) = IF Arrived(o) THEN Taken(v) ELSE module.items
    BY SentEither
  <2>2. QED
    BY <2>1 DEF Taken
<1>0. CASE model \notin row.models
  <2>1. Accepted(v, fs) = {Change(row.elsewhere, fs, module.items)}
    BY <1>0 DEF Accepted
  <2>2. QED
    BY <1>0, <2>1 DEF SetForm
<1>1. CASE model \in row.models /\ row.how \in {"READONLY", "keep"}
  BY <1>1 DEF Accepted, SetForm
<1>2. CASE model \in row.models /\ row.how \in {"send", "reset"}
  BY <1>2, <1>b DEF Accepted, SetForm
<1>3. CASE model \in row.models /\ row.how = "send keep"
  BY <1>3, <1>b DEF Accepted, SetForm
<1>4. CASE model \in row.models /\ row.how = "keep send"
  BY <1>4, <1>b DEF Accepted, SetForm
<1>5. CASE model \in row.models /\ row.how = "send keep connected"
  BY <1>5, <1>b DEF Accepted, SetForm
<1>6. CASE model \in row.models /\ row.how = "keep send connected"
  BY <1>6, <1>b DEF Accepted, SetForm
<1>7. CASE model \in row.models /\ row.how = "keep send map"
  BY <1>7, <1>b DEF Accepted, SetForm
<1>8. CASE model \in row.models /\ row.how = "merge"
  BY <1>8, <1>b DEF Accepted, SetForm
<1>9. CASE model \in row.models /\ row.how = "pins"
  BY <1>9, <1>b DEF Accepted, SetForm
<1>10. CASE model \in row.models /\ row.how = "lbt"
  BY <1>10, <1>b DEF Accepted, SetForm
<1>11. CASE model \in row.models /\ row.how = "bap"
  <2>1. CASE v = "null"
    BY <1>11, <2>1 DEF Accepted, SetForm
  <2>2. CASE v = "default"
    BY <1>11, <2>2 DEF Accepted, SetForm
  <2>3. CASE v \notin {"null", "default"}
    <3>1. \/ \E o \in Outcomes \ {"ok"} : c = Change(o, fs, module.items)
          \/ \E o \in Outcomes : c = Change(o, Into(fs, row.field, "true"), W(o))
      BY <1>11, <2>3 DEF Accepted
    <3>2. QED
      BY <1>11, <2>3, <3>1, <1>b DEF SetForm
  <2>4. QED
    BY <2>1, <2>2, <2>3
<1>12. QED
  BY <1>a, <1>0, <1>1, <1>2, <1>3, <1>4, <1>5, <1>6, <1>7, <1>8, <1>9, <1>10, <1>11
     DEF SetHows, Chosen

(* A value put into a field.                                               *)
LEMMA IntoParts ==
  ASSUME NEW fs, NEW f, NEW x
  PROVE  /\ DOMAIN Into(fs, f, x) = DOMAIN fs
         /\ \A g \in DOMAIN fs : g # f => Into(fs, f, x)[g] = fs[g]
         /\ f \in DOMAIN fs => Into(fs, f, x)[f] = x
BY DEF Into

(* A code written to an item.                                              *)
LEMMA WrittenParts ==
  ASSUME NEW item, NEW code, NEW o
  PROVE  /\ DOMAIN Written1(item, code, o) = DOMAIN module.items
         /\ \A i \in DOMAIN module.items : i # item => Written1(item, code, o)[i] = module.items[i]
         /\ Arrived(o) /\ item \in DOMAIN module.items => Written1(item, code, o)[item] = code
         /\ ~Arrived(o) => Written1(item, code, o) = module.items
         /\ item \notin DOMAIN module.items => Written1(item, code, o) = module.items
BY DEF Written1

(* g is fs but for a field.                                                *)
But(f, fs, g) == DOMAIN g = DOMAIN fs /\ \A h \in DOMAIN fs : h # f => g[h] = fs[h]

(* A value put into a field leaves the other fields.                       *)
LEMMA IntoBut ==
  ASSUME NEW fs, NEW its
  PROVE  But(its, fs, fs) /\ \A x : But(its, fs, Into(fs, its, x))
BY IntoParts DEF But

(* What a get leaves of the reader structure: its row's field may change.  *)
LEMMA GetChanges ==
  ASSUME Chosen, NEW fs, NEW r \in GetResults(fs)
  PROVE  \/ r.fields = fs
         \/ /\ But(Get[key].field, fs, r.fields)
            /\ Get[key].how \in {"shorten", "ask keep", "ask keep connected", "ask if none"}
            /\ Get[key].field # "baudRate"
<1>1. GetForm(fs, r)
  BY GetForms
<1>2. Get[key].field = "baudRate" => Get[key].how = "keep"
  BY KeyFits DEF GetFits
<1> DEFINE its == Get[key].field
           read == Reading(Get[key].item)
<1>3. \/ \E s, v : r = Result(s, v, fs)
      \/ Get[key].how = "shorten" /\ r = Result("ok", "short", Into(fs, its, "short"))
      \/ /\ Get[key].how \in {"ask keep", "ask keep connected", "ask if none"}
         /\ r = Result("ok", read, Into(fs, its, read))
  BY <1>1 DEF GetForm
<1> HIDE DEF its, read
<1>4. \/ r.fields = fs
      \/ /\ Get[key].how \in {"shorten", "ask keep", "ask keep connected", "ask if none"}
         /\ r.fields \in {Into(fs, its, "short"), Into(fs, its, read)}
  <2>1. ASSUME NEW s, NEW v, r = Result(s, v, fs) PROVE r.fields = fs
    BY <2>1, ResultParts
  <2>2. Result("ok", "short", Into(fs, its, "short")).fields = Into(fs, its, "short")
    BY ResultParts
  <2>3. Result("ok", read, Into(fs, its, read)).fields = Into(fs, its, read)
    BY ResultParts
  <2>4. QED
    BY <1>3, <2>1, <2>2, <2>3
<1>5. But(its, fs, Into(fs, its, "short")) /\ But(its, fs, Into(fs, its, read))
  BY IntoBut
<1>6. r.fields = fs \/ But(its, fs, r.fields)
  BY <1>4, <1>5
<1>7. QED
  BY <1>2, <1>4, <1>6 DEF its

(* A set changes its row's field and its row's item, nothing else.         *)
LEMMA SetChanges ==
  ASSUME Chosen, Set[key].how # "rate", NEW v, NEW fs, NEW c, SetForm(v, fs, c)
  PROVE  /\ But(Set[key].field, fs, c.fields)
         /\ c.items \in {module.items, Taken(v)}
         /\ Set[key].field # "baudRate"
<1>1. Set[key].field # "baudRate"
  BY KeyFits DEF SetFits
<1> DEFINE its == Set[key].field
<1>2. But(its, fs, fs) /\ \A x : But(its, fs, Into(fs, its, x))
  BY IntoBut
<1>3. PICK s, g, i : /\ c = Change(s, g, i)
                     /\ But(its, fs, g)
                     /\ i \in {module.items, Taken(v)}
  BY <1>2 DEF SetForm
<1>4. c.fields = g /\ c.items = i
  BY <1>3, ChangeParts
<1>5. QED
  BY <1>1, <1>3, <1>4

(* A set as a whole: the get before it, and what follows.                  *)
SetGoes(v, fs, r) ==
  /\ fs = fields \/ \E probe \in GetResults(fields) : fs = probe.fields
  /\ \/ r.change = Change("NOT_FOUND", fs, module.items)
     \/ v = "illegal" /\ r.change = Change("ILLEGAL_VALUE", fs, module.items)
     \/ v # "illegal" /\ r.change \in Accepted(v, fs) /\ SetForm(v, fs, r.change)

(* A set goes so.                                                          *)
LEMMA SetGoesSo ==
  ASSUME Chosen, Set[key].how # "rate", NEW v, NEW r \in SetResults(v)
  PROVE  \E fs : SetGoes(v, fs, r)
<1>1. PICK probe \in GetResults(fields) :
        LET probed == Remembers /\ ~confirmed
            fs == IF probed THEN probe.fields ELSE fields
            known == IF probed THEN Settled(probe) ELSE present \/ ~Remembers
        IN  \E c \in IF ~known THEN {Change("NOT_FOUND", fs, module.items)}
                      ELSE IF v = "illegal" THEN {Change("ILLEGAL_VALUE", fs, module.items)}
                      ELSE Accepted(v, fs) :
              r = [change |-> c,
                   present |-> IF probed THEN known ELSE present,
                   confirmed |-> confirmed \/ probed,
                   missed |-> missed \/ (probed /\ probe.status # "ok")]
  BY DEF SetResults
<1> DEFINE fs == IF Remembers /\ ~confirmed THEN probe.fields ELSE fields
<1>2. \/ r.change = Change("NOT_FOUND", fs, module.items)
      \/ v = "illegal" /\ r.change = Change("ILLEGAL_VALUE", fs, module.items)
      \/ v # "illegal" /\ r.change \in Accepted(v, fs)
  BY <1>1
<1>3. fs = fields \/ \E p \in GetResults(fields) : fs = p.fields
  OBVIOUS
<1>4. SetGoes(v, fs, r)
  BY <1>2, <1>3, SetForms DEF SetGoes
<1>5. QED
  BY <1>4

(* The bits after it.                                                      *)
LEMMA SetBits ==
  ASSUME Chosen, NEW v, NEW r \in SetResults(v), {present, confirmed, missed} \subseteq BOOLEAN
  PROVE  /\ {r.present, r.confirmed, r.missed} \subseteq BOOLEAN
         /\ \/ /\ Remembers /\ ~confirmed /\ r.confirmed
               /\ \E probe \in GetResults(fields) :
                    /\ r.present = Settled(probe)
                    /\ r.missed = (missed \/ probe.status # "ok")
                    /\ ~Settled(probe) \/ r.change.status \in
                         {"ILLEGAL_VALUE"} \cup {c.status : c \in Accepted(v, probe.fields)}
            \/ /\ ~(Remembers /\ ~confirmed)
               /\ r.present = present /\ r.confirmed = confirmed /\ r.missed = missed
               /\ ~(present \/ ~Remembers) \/ r.change.status \in
                    {"ILLEGAL_VALUE"} \cup {c.status : c \in Accepted(v, fields)}
<1> DEFINE probed == Remembers /\ ~confirmed
           Of(probe) == IF probed THEN probe.fields ELSE fields
           Known(probe) == IF probed THEN Settled(probe) ELSE present \/ ~Remembers
           Bits(c, probe) == [change |-> c,
                              present |-> IF probed THEN Known(probe) ELSE present,
                              confirmed |-> confirmed \/ probed,
                              missed |-> missed \/ (probed /\ probe.status # "ok")]
<1>1. PICK probe \in GetResults(fields) :
        \E c \in IF ~Known(probe) THEN {Change("NOT_FOUND", Of(probe), module.items)}
                 ELSE IF v = "illegal" THEN {Change("ILLEGAL_VALUE", Of(probe), module.items)}
                 ELSE Accepted(v, Of(probe)) :
          r = Bits(c, probe)
  BY DEF SetResults
<1>2. PICK c : /\ r = Bits(c, probe)
               /\ \/ ~Known(probe)
                  \/ c = Change("ILLEGAL_VALUE", Of(probe), module.items)
                  \/ c \in Accepted(v, Of(probe))
  BY <1>1
<1>3. /\ r.change = c
      /\ r.present = (IF probed THEN Known(probe) ELSE present)
      /\ r.confirmed = (confirmed \/ probed)
      /\ r.missed = (missed \/ (probed /\ probe.status # "ok"))
  BY Zenon, <1>2
<1>4. \/ ~Known(probe)
      \/ c.status \in {"ILLEGAL_VALUE"} \cup {d.status : d \in Accepted(v, Of(probe))}
  BY <1>2, ChangeParts
<1>5. Settled(probe) \in BOOLEAN
  BY DEF Settled
<1>6. CASE probed
  BY <1>3, <1>4, <1>5, <1>6
<1>7. CASE ~probed
  <2>1. r.present = present
    BY <1>3, <1>7
  <2>2. r.confirmed = confirmed
    BY <1>3, <1>7
  <2>3. r.missed = missed
    BY <1>3, <1>7
  <2>4. \/ ~(present \/ ~Remembers)
        \/ r.change.status \in {"ILLEGAL_VALUE"} \cup {d.status : d \in Accepted(v, fields)}
    BY <1>3, <1>4, <1>7
  <2>5. QED
    BY <1>7, <2>1, <2>2, <2>3, <2>4
<1>8. QED
  BY <1>6, <1>7

(* The types, and which fields and items there are.                        *)
Kinds ==
  /\ usb \in BOOLEAN
  /\ stage \in {"closed", "probing", "booting", "ready", "failed"}
  /\ step \in 1..Steps
  /\ retried \in {"no", "yes", "load"}
  /\ {present, confirmed, connected, crc, unclean, missed} \subseteq BOOLEAN

(* The fields that the parameter's rows name, with a legal rate.           *)
FieldsOK(f) == DOMAIN f = FieldsOf(key) /\ f["baudRate"] \in Rates

(* The module's items are those of the parameter, the saved ones too.      *)
ModuleOK(m) ==
  /\ DOMAIN m = ModuleFields
  /\ m.rate \in Rates /\ m.saved.rate \in Rates
  /\ DOMAIN m.items = Items(key) /\ DOMAIN m.saved.items = Items(key)

(* What the types rest on, for the parameter of the run.                   *)
TypeInv == Chosen /\ Kinds /\ FieldsOK(fields) /\ ModuleOK(module) /\ line \in Rates

(* The fields and the items of the key are there.                          *)
LEMMA Fielded ==
  /\ "baudRate" \in FieldsOf(key)
  /\ Set[key].field # "none" => Set[key].field \in FieldsOf(key)
  /\ Get[key].field # "none" => Get[key].field \in FieldsOf(key)
  /\ Set[key].item # NoItem => Set[key].item \in Items(key)
  /\ Get[key].item # NoItem => Get[key].item \in Items(key)
BY DEF FieldsOf, Items

(* A set leaves the same fields and the same items.                        *)
LEMMA SetKeepsShape ==
  ASSUME Chosen, FieldsOK(fields), ModuleOK(module), Set[key].how # "rate",
         NEW v, NEW r \in SetResults(v)
  PROVE  /\ FieldsOK(r.change.fields)
         /\ DOMAIN r.change.items = Items(key)
<1>1. PICK fs : SetGoes(v, fs, r)
  BY SetGoesSo
<1>a. "baudRate" \in FieldsOf(key)
  BY Fielded
<1>2. FieldsOK(fs)
  <2>1. CASE fs = fields
    BY <2>1
  <2>2. ASSUME NEW probe \in GetResults(fields), fs = probe.fields
        PROVE  FieldsOK(fs)
    BY <2>2, <1>a, GetChanges DEF FieldsOK, ModuleOK, But
  <2>3. QED
    BY <1>1, <2>1, <2>2 DEF SetGoes
<1>3. \/ r.change.fields = fs /\ r.change.items = module.items
      \/ SetForm(v, fs, r.change)
  BY <1>1, ChangeParts DEF SetGoes
<1>4. DOMAIN Taken(v) = DOMAIN module.items
  BY WrittenParts DEF Taken
<1>5. QED
  BY <1>a, <1>2, <1>3, <1>4, SetChanges DEF FieldsOK, ModuleOK, But

-------------------------------------------------------------------------------

(* The types of the settings.                                                *)

(* What the steps of boot and of a stopped stream leave as it is.          *)
LEMMA FieldSet ==
  ASSUME FieldsOK(fields), NEW f, f # "baudRate", NEW v
  PROVE  FieldsOK(SetField(f, v))
BY Fielded DEF FieldsOK, SetField

(* A command written to an item, ...                                       *)
LEMMA ItemsWritten ==
  ASSUME ModuleOK(module), NEW item, NEW code, NEW o
  PROVE  ModuleOK([module EXCEPT !.items = Written1(item, code, o)])
BY WrittenParts DEF ModuleOK, ModuleFields

(* ... several items at once, ...                                          *)
LEMMA ModuleItems ==
  ASSUME ModuleOK(module), NEW items, DOMAIN items = Items(key)
  PROVE  ModuleOK([module EXCEPT !.items = items])
BY DEF ModuleOK, ModuleFields

(* ... a stopped stream.                                                   *)
LEMMA StreamKinds ==
  ASSUME Kinds, ModuleOK(module), NEW o, VerifySearchStatus(o)
  PROVE  /\ {crc', unclean'} \subseteq BOOLEAN /\ line' = line
         /\ ModuleOK(module')
<1>1. crc' \in BOOLEAN /\ unclean' \in BOOLEAN /\ line' = line
  BY DEF VerifySearchStatus, Kinds
<1>2. ModuleOK(module')
  BY DEF VerifySearchStatus, ModuleOK, ModuleFields
<1>3. QED
  BY <1>1, <1>2

(* The steps of boot go from one to eleven.                                *)
LEMMA AdvanceKinds ==
  ASSUME Kinds, NEW n \in 1..Steps, Booting(n), Advance
  PROVE  /\ step' \in 1..Steps /\ stage' \in {"booting", "ready"}
         /\ UNCHANGED <<fixed, connected, retried, unclean, chosen>>
<1>1. step = n /\ Steps = 11
  BY DEF Booting, Steps
<1>2. step' \in 1..Steps
  BY <1>1 DEF Advance
<1>3. QED
  BY <1>2 DEF Advance

(* The types as one step leaves them.                                      *)
LEMMA TypeKept ==
  ASSUME Chosen, UNCHANGED fixed, Kinds', FieldsOK(fields'), ModuleOK(module'), line' \in Rates
  PROVE  TypeInv'
<1>1. key' = key /\ model' = model
  BY DEF fixed
<1>2. Chosen'
  BY <1>1 DEF Chosen
<1>3. FieldsOK(fields)' /\ ModuleOK(module)'
  BY <1>1 DEF FieldsOK, ModuleOK, FieldsOf, Items
<1>4. QED
  BY <1>2, <1>3 DEF TypeInv

(* A step of boot.                                                         *)
LEMMA BootKept ==
  ASSUME TypeInv, NEW n \in 1..Steps, Booting(n), Advance,
         {present', confirmed', crc', missed'} \subseteq BOOLEAN,
         FieldsOK(fields'), ModuleOK(module'), line' \in Rates
  PROVE  TypeInv'
<1>1. Kinds'
  BY AdvanceKinds DEF Kinds, TypeInv, fixed
<1>2. UNCHANGED fixed /\ Chosen
  BY DEF Advance, TypeInv
<1>3. QED
  BY <1>1, <1>2, TypeKept

(* No step leaves the types.                                               *)
LEMMA TypeStep ==
  ASSUME TypeInv, [SettingNext]_settingVars
  PROVE  TypeInv'
<1> USE DEF settingVars, bits, wire, stageVars, ghosts
<1>a. /\ Chosen /\ Kinds /\ FieldsOK(fields) /\ ModuleOK(module) /\ line \in Rates
      /\ fields["baudRate"] \in Rates /\ ProbeRates \subseteq Rates
      /\ module.rate \in Rates
  BY ProbeRatesAssumption DEF TypeInv, FieldsOK, ModuleOK
<1>b. {present, confirmed, connected, crc, unclean, missed} \subseteq BOOLEAN
  BY <1>a DEF Kinds
<1>1. CASE Connect
  <2>1. Kinds' /\ UNCHANGED <<fixed, fields, module, line>>
    BY <1>a, <1>1 DEF Connect, Kinds, Steps, fixed
  <2>2. QED
    BY <1>a, <2>1, TypeKept
<1>2. CASE ProbeContact
  <2>1. Kinds' /\ UNCHANGED <<fixed, fields, module>> /\ line' = module.rate
    BY <1>a, <1>2 DEF ProbeContact, Kinds, fixed
  <2>2. QED
    BY <1>a, <2>1, TypeKept
<1>3. CASE ProbeTimesOut
  <2>1. Kinds' /\ UNCHANGED <<fixed, fields, module>> /\ line' \in Rates
    BY <1>a, <1>3 DEF ProbeTimesOut, GivesUp, Kinds, fixed
  <2>2. QED
    BY <1>a, <2>1, TypeKept
<1>4. CASE ProbeStopsStream
  <2>1. PICK o : VerifySearchStatus(o)
    BY <1>4 DEF ProbeStopsStream
  <2>2. {crc', unclean'} \subseteq BOOLEAN /\ line' = line /\ ModuleOK(module')
    BY <1>a, <2>1, StreamKinds
  <2>3. /\ UNCHANGED <<fixed, fields, present, confirmed, missed, step, retried, connected>>
        /\ stage' \in {"probing", "failed"}
    BY <1>4 DEF ProbeStopsStream, GivesUp
  <2>4. Kinds'
    BY <1>a, <2>2, <2>3 DEF Kinds, fixed
  <2>5. QED
    BY <1>a, <2>2, <2>3, <2>4, TypeKept
<1>5. CASE BootProgram
  <2>1. ModuleOK(module')
    BY <1>a, <1>5 DEF BootProgram, ModuleOK, ModuleFields
  <2>2. QED
    BY <1>a, <1>b, <1>5, <2>1, BootKept DEF BootProgram, Steps
<1>6. CASE BootPowerMode
  <2>1. FieldsOK(fields')
    BY <1>a, <1>6, FieldSet DEF BootPowerMode
  <2>2. QED
    BY <1>a, <1>b, <1>6, <2>1, BootKept DEF BootPowerMode, Steps
<1>7. CASE BootTransport
  <2>1. ModuleOK(module')
    BY <1>a, <1>7 DEF BootTransport, ModuleOK, ModuleFields
  <2>2. crc' \in BOOLEAN
    BY <1>b, <1>7 DEF BootTransport
  <2>3. QED
    BY <1>a, <1>b, <1>7, <2>1, <2>2, BootKept DEF BootTransport, Steps
<1>8. CASE BootBaudRate
  <2>1. ModuleOK(module')
    BY <1>a, <1>8 DEF BootBaudRate, ModuleOK, ModuleFields
  <2>2. QED
    BY <1>a, <1>b, <1>8, <2>1, BootKept DEF BootBaudRate, Steps
<1>9. CASE BootParameters
  <2>1. present' \in BOOLEAN /\ confirmed' \in BOOLEAN /\ missed' \in BOOLEAN
    BY <1>9 DEF BootParameters
  <2>2. QED
    BY <1>a, <1>b, <1>9, <2>1, BootKept DEF BootParameters, Steps
<1>10. CASE BootProduct
  <2>1. ModuleOK(module')
    BY <1>a, <1>10, ItemsWritten DEF BootProduct
  <2>2. QED
    BY <1>a, <1>b, <1>10, <2>1, BootKept DEF BootProduct, Steps
<1>11. CASE BootRegion
  <2>1. ModuleOK(module')
    BY <1>a, <1>11, ItemsWritten DEF BootRegion
  <2>2. QED
    BY <1>a, <1>b, <1>11, <2>1, BootKept DEF BootRegion, Steps
<1>12. CASE BootProtocol
  <2>1. FieldsOK(fields')
    BY <1>a, <1>12, FieldSet DEF BootProtocol
  <2>2. QED
    BY <1>a, <1>b, <1>12, <2>1, BootKept DEF BootProtocol, Steps
<1>13. CASE BootAntennas
  <2>1. FieldsOK(fields')
    BY <1>a, <1>13, FieldSet DEF BootAntennas
  <2>2. QED
    BY <1>a, <1>b, <1>13, <2>1, BootKept DEF BootAntennas, Steps
<1>14. CASE BootM5e
  <2>1. FieldsOK(fields')
    BY <1>a, <1>14, FieldSet DEF BootM5e
  <2>2. ModuleOK(module')
    BY <1>a, <1>14 DEF BootM5e, ModuleOK, ModuleFields
  <2>3. QED
    BY <1>a, <1>b, <1>14, <2>1, <2>2, BootKept DEF BootM5e, Steps
<1>15. CASE BootFilter
  <2>1. FieldsOK(fields')
    BY <1>a, <1>15, FieldSet DEF BootFilter
  <2>2. QED
    BY <1>a, <1>b, <1>15, <2>1, BootKept DEF BootFilter, Steps
<1>16. CASE BootFails
  <2>1. Kinds' /\ UNCHANGED <<fixed, fields, module, line>>
    BY <1>a, <1>16 DEF BootFails, GivesUp, Kinds, fixed
  <2>2. QED
    BY <1>a, <2>1, TypeKept
<1>17. CASE BootInterrupted
  <2>1. /\ UNCHANGED <<fixed, fields, present, confirmed, missed, connected>>
        /\ step' \in {step, 1} /\ retried' \in {retried, "yes"}
        /\ stage' \in {"booting", "failed"}
    BY <1>17 DEF BootInterrupted, GivesUp
  <2>2. {crc', unclean'} \subseteq BOOLEAN /\ line' = line /\ ModuleOK(module')
    <3>1. CASE UNCHANGED <<wire, module>>
      BY <1>a, <1>b, <3>1
    <3>2. CASE \E o : VerifySearchStatus(o)
      BY <1>a, <3>2, StreamKinds
    <3>3. QED
      BY <1>17, <3>1, <3>2 DEF BootInterrupted
  <2>3. Kinds'
    BY <1>a, <2>1, <2>2 DEF Kinds, fixed, Steps
  <2>4. QED
    BY <1>a, <2>1, <2>2, <2>3, TypeKept
<1>18. CASE ParamGet
  <2>1. FieldsOK(fields')
    <3>1. CASE UNCHANGED fields
      BY <1>a, <3>1
    <3>2. ASSUME NEW r \in GetResults(fields), fields' = r.fields
          PROVE  FieldsOK(fields')
      BY <1>a, <3>2, GetChanges, Fielded DEF FieldsOK, But
    <3>3. QED
      BY <1>18, <3>1, <3>2 DEF ParamGet
  <2>2. present' \in BOOLEAN /\ confirmed' \in BOOLEAN /\ missed' \in BOOLEAN
    BY <1>b, <1>18 DEF ParamGet, Settled
  <2>3. Kinds' /\ UNCHANGED <<fixed, module, line>>
    BY <1>a, <1>18, <2>2 DEF ParamGet, Kinds, fixed
  <2>4. QED
    BY <1>a, <2>1, <2>3, TypeKept
<1>19. CASE ParamSet
  <2>1. PICK v \in Values : \E r \in SetResults(v) : SetTo(v, r)
    BY <1>19 DEF ParamSet
  <2>r. PICK r \in SetResults(v) : SetTo(v, r)
    BY <2>1
  <2>2. Set[key].how # "rate"
    BY <1>19 DEF ParamSet
  <2>3. FieldsOK(fields') /\ ModuleOK(module')
    BY <1>a, <2>r, <2>2, SetKeepsShape, ModuleItems DEF SetTo
  <2>4. {r.present, r.confirmed, r.missed} \subseteq BOOLEAN
    BY <1>a, <1>b, <2>r, SetBits
  <2>5. Kinds' /\ UNCHANGED <<fixed, line>>
    BY <1>a, <1>19, <2>r, <2>4 DEF ParamSet, SetTo, Kinds, fixed
  <2>6. QED
    BY <1>a, <2>3, <2>5, TypeKept
<1>20. CASE SetBaudRate
  <2>1. Kinds' /\ UNCHANGED fixed
    BY <1>a, <1>20 DEF SetBaudRate, Kinds, fixed
  <2>2. FieldsOK(fields') /\ line' \in Rates
    BY <1>a, <1>20, Fielded DEF SetBaudRate, FieldsOK
  <2>3. ModuleOK(module')
    BY <1>a, <1>20 DEF SetBaudRate, ModuleOK, ModuleFields
  <2>4. QED
    BY <1>a, <2>1, <2>2, <2>3, TypeKept
<1>21. CASE ChangeProtocol
  <2>1. /\ \E items : /\ module' = [module EXCEPT !.items = items]
                      /\ DOMAIN items = DOMAIN module.items
        /\ fields' = fields \/ fields' = [fields EXCEPT !["readFilterTimeout"] = "0"]
        /\ UNCHANGED <<fixed, bits, wire, stageVars, missed>>
    BY <1>21 DEF ChangeProtocol
  <2>2. Kinds' /\ line' = line
    BY <1>a, <2>1 DEF Kinds, fixed
  <2>3. FieldsOK(fields') /\ ModuleOK(module')
    BY <1>a, <2>1, Fielded, ModuleItems DEF FieldsOK, ModuleOK
  <2>4. QED
    BY <1>a, <2>1, <2>2, <2>3, TypeKept
<1>22. CASE SaveProfile
  <2>1. Kinds' /\ UNCHANGED <<fixed, fields, line>>
    BY <1>a, <1>22 DEF SaveProfile, Kinds, fixed
  <2>2. ModuleOK(module')
    <3>1. CASE module' = [module EXCEPT !.saved = [rate |-> module.rate, items |-> module.items]]
      BY <1>a, <3>1 DEF ModuleOK, ModuleFields
    <3>2. ASSUME NEW items, DOMAIN items = DOMAIN module.items, NEW auto,
                 module' = [module EXCEPT !.items = items, !.autoread = auto,
                              !.saved = [rate |-> module.rate, items |-> items]]
          PROVE  ModuleOK(module')
      BY <1>a, <3>2 DEF ModuleOK, ModuleFields
    <3>3. DOMAIN Written1(Config("ENABLE_READ_FILTER"), "0", "ok") = DOMAIN module.items
      BY WrittenParts
    <3>4. QED
      BY Zenon, <1>22, <3>1, <3>2, <3>3 DEF SaveProfile
  <2>3. QED
    BY <1>a, <2>1, <2>2, TypeKept
<1>23. CASE RestoreProfile
  <2>1. Kinds' /\ UNCHANGED fixed
    BY <1>a, <1>23 DEF RestoreProfile, Kinds, fixed
  <2>2. ModuleOK(module') /\ line' \in Rates
    BY <1>a, <1>23 DEF RestoreProfile, ModuleOK, ModuleFields, Factory, FactoryRate, Rates
  <2>3. FieldsOK(fields')
    BY <1>a, <1>23, FieldSet DEF RestoreProfile
  <2>4. QED
    BY <1>a, <2>1, <2>2, <2>3, TypeKept
<1>24. CASE FirmwareLoad
  <2>1. PICK n \in 0..5 :
          /\ module'.rate \in {module.rate, "r9600", Slow(fields["baudRate"])}
          /\ ModuleOK(module') \/ module'.rate \notin Rates
          /\ line' = module'.rate
          /\ crc' = (crc \/ n >= 1)
          /\ unclean' = (unclean \/ (n = 1 /\ ~module.crc))
          /\ stage' \in {"booting", "failed"} /\ retried' \in {retried, "load"} /\ step' = 1
          /\ UNCHANGED <<fixed, fields, bits, connected, missed>>
    BY <1>a, <1>24 DEF FirmwareLoad, ModuleOK, ModuleFields
  <2>2. module'.rate \in Rates
    BY <1>a, <2>1 DEF Slow, Rates, FactoryRate
  <2>3. Kinds'
    BY <1>a, <2>1 DEF Kinds, fixed, Steps
  <2>4. QED
    BY <1>a, <2>1, <2>2, <2>3, TypeKept
<1>25. CASE Reboot
  <2>1. Kinds' /\ UNCHANGED <<fixed, fields>> /\ line' = "r9600"
    BY <1>a, <1>25 DEF Reboot, Kinds, fixed
  <2>2. ModuleOK(module')
    BY <1>a, <1>25 DEF Reboot, ModuleOK, ModuleFields, Rates
  <2>3. QED
    BY <1>a, <2>1, <2>2, TypeKept DEF Rates
<1>26. CASE RestartModule
  <2>1. Kinds' /\ UNCHANGED <<fixed, fields, line>>
    BY <1>a, <1>26 DEF RestartModule, Kinds, fixed
  <2>2. ModuleOK(module')
    BY <1>a, <1>26 DEF RestartModule, ModuleOK, ModuleFields, Factory, FactoryRate, Rates
  <2>3. QED
    BY <1>a, <2>1, <2>2, TypeKept
<1>27. CASE Destroy
  <2>a. unclean' \in BOOLEAN /\ crc' \in BOOLEAN /\ connected' \in BOOLEAN
    BY <1>27 DEF Destroy
  <2>b. /\ stage' = "closed" /\ step' = 1
        /\ UNCHANGED <<fixed, fields, bits, line, retried, missed>>
    BY <1>27 DEF Destroy
  <2>1. Kinds' /\ UNCHANGED <<fixed, fields, line>>
    BY <1>a, <2>a, <2>b DEF Kinds, fixed, Steps
  <2>2. ModuleOK(module')
    BY <1>a, <1>27 DEF Destroy, ModuleOK, ModuleFields
  <2>3. QED
    BY <1>a, <2>1, <2>2, TypeKept
<1>28. CASE UNCHANGED settingVars
  <2>1. Kinds' /\ UNCHANGED <<fixed, fields, line, module>>
    BY <1>a, <1>28 DEF Kinds, fixed
  <2>2. QED
    BY <1>a, <2>1, TypeKept
<1>29. QED
  BY <1>1, <1>2, <1>3, <1>4, <1>5, <1>6, <1>7, <1>8, <1>9, <1>10, <1>11, <1>12, <1>13, <1>14,
     <1>15, <1>16, <1>17, <1>18, <1>19, <1>20, <1>21, <1>22, <1>23, <1>24, <1>25, <1>26,
     <1>27, <1>28 DEF SettingNext

(* The reader and the module as they start.                                *)
LEMMA TypeInit == SettingInit => TypeInv
<1> SUFFICES ASSUME SettingInit PROVE TypeInv
  OBVIOUS
<1>a. Chosen /\ line \in Rates
  BY TestedModelsAssumption DEF SettingInit, Chosen, Rates, FactoryRate
<1>b. /\ usb \in BOOLEAN /\ stage = "closed" /\ step = 1 /\ retried = "no"
      /\ present = FALSE /\ confirmed = FALSE /\ connected = FALSE /\ crc = TRUE
      /\ unclean = FALSE /\ missed = FALSE
  BY DEF SettingInit
<1>c. {present, confirmed, connected, crc, unclean, missed} \subseteq BOOLEAN
  BY Zenon, <1>b
<1>1. Chosen /\ Kinds /\ line \in Rates
  BY <1>a, <1>b, <1>c DEF Kinds, Steps
<1>2. FieldsOK(fields)
  BY Fielded DEF SettingInit, FieldsOK, InitialField, Rates, FactoryRate
<1>3. ModuleOK(module)
  BY DEF SettingInit, ModuleOK, ModuleFields, Factory, Rates, FactoryRate
<1>4. QED
  BY <1>1, <1>2, <1>3 DEF TypeInv

(* The parameter, the module, the stages and rates stay in their types,    *)
(* and the module keeps an item for each that the parameter uses.          *)
THEOREM SettingTypeCorrect == SettingSpec => []SettingTypeOK
<1>1. SettingInit => TypeInv
  BY TypeInit
<1>2. TypeInv /\ [SettingNext]_settingVars => TypeInv'
  BY TypeStep
<1>3. TypeInv => SettingTypeOK
  BY DEF TypeInv, Chosen, Kinds, FieldsOK, ModuleOK, SettingTypeOK, Keys
<1>4. QED
  BY <1>1, <1>2, <1>3, PTL DEF SettingSpec

-------------------------------------------------------------------------------

(* A parameter that the module has is never missing.                         *)

(* On a module that has the parameter no command answers NOT_FOUND.        *)
Statuses == Outcomes \cup {"ok", "refused", "READONLY", "ILLEGAL_VALUE"}

(* None of these is NOT_FOUND.                                             *)
LEMMA NotMissing == "NOT_FOUND" \notin Statuses
BY OutcomesKnown DEF Statuses

(* A get on such a module, ...                                             *)
LEMMA GetStatus ==
  ASSUME Chosen, model \in Get[key].models, NEW fs, NEW r \in GetResults(fs)
  PROVE  r.status \in Statuses
<1>1. GetForm(fs, r)
  BY GetForms
<1>2. \E s \in Statuses : \E v, f : r = Result(s, v, f)
  BY <1>1 DEF GetForm, Statuses
<1>3. QED
  BY <1>2, ResultParts

(* ... and a set.                                                          *)
LEMMA SetStatus ==
  ASSUME Chosen, Set[key].how # "rate", model \in Set[key].models, NEW v, NEW fs,
         NEW c \in Accepted(v, fs)
  PROVE  c.status \in Statuses
<1>1. SetForm(v, fs, c)
  BY SetForms
<1>2. \E s \in Statuses : \E f, i : c = Change(s, f, i)
  BY <1>1 DEF SetForm, Statuses
<1>3. QED
  BY <1>2, ChangeParts

(* The module of this reader has the parameter.                            *)
Has == model \in Get[key].models /\ model \in Set[key].models

(* A bit that says missing comes from a get that failed, and so does the   *)
(* status.                                                                 *)
KnownInv ==
  /\ Has /\ Remembers /\ confirmed /\ ~present => missed
  /\ Has /\ last.status = "NOT_FOUND" => missed
  /\ stage \in {"probing", "booting"} => last.status # "NOT_FOUND"

(* A call that leaves the bits.                                            *)
LEMMA KnownKept ==
  ASSUME KnownInv, UNCHANGED <<fixed, bits, missed>>, last'.status # "NOT_FOUND"
  PROVE  KnownInv'
BY DEF KnownInv, Has, Remembers, fixed, bits

(* A step of boot leaves them, and the status that boot began with.        *)
LEMMA KnownBoot ==
  ASSUME KnownInv, stage = "booting", Advance, UNCHANGED <<bits, missed>>
  PROVE  KnownInv'
<1>1. last'.status # "NOT_FOUND"
  BY DEF KnownInv, Advance
<1>2. QED
  BY <1>1, KnownKept DEF Advance

(* No step reports a parameter as missing that is not.                     *)
LEMMA KnownStep ==
  ASSUME KnownInv, Chosen, {present, confirmed, missed} \subseteq BOOLEAN,
         [SettingNext]_settingVars
  PROVE  KnownInv'
<1> USE DEF settingVars, bits, wire, stageVars, ghosts, Idle
<1>1. CASE Connect \/ RestartModule
  <2>1. UNCHANGED <<fixed, bits, missed>> /\ last' = Idle
    BY <1>1 DEF Connect, RestartModule
  <2>2. QED
    BY <2>1, KnownKept
<1>2. CASE ProbeContact
  <2>1. UNCHANGED <<fixed, bits, ghosts>> /\ stage = "probing"
    BY <1>2 DEF ProbeContact
  <2>2. QED
    BY <2>1, KnownKept DEF KnownInv
<1>3. CASE ProbeTimesOut \/ BootFails
  <2>1. UNCHANGED <<fixed, bits, missed>> /\ \E o \in {"refused", "timeout"} : GivesUp(o)
    BY <1>3 DEF ProbeTimesOut, BootFails
  <2>2. QED
    BY <2>1, KnownKept DEF GivesUp
<1>4. CASE ProbeStopsStream
  <2>1. UNCHANGED <<fixed, bits, missed>> /\ (GivesUp("timeout") \/ UNCHANGED <<stageVars, last>>)
    BY <1>4 DEF ProbeStopsStream
  <2>2. stage = "probing"
    BY <1>4 DEF ProbeStopsStream
  <2>3. QED
    BY <2>1, <2>2, KnownKept DEF GivesUp, KnownInv
<1>5. CASE BootProgram
  BY <1>5, KnownBoot DEF BootProgram, Booting
<1>6. CASE BootPowerMode
  BY <1>6, KnownBoot DEF BootPowerMode, Booting
<1>7. CASE BootTransport
  BY <1>7, KnownBoot DEF BootTransport, Booting
<1>8. CASE BootBaudRate
  BY <1>8, KnownBoot DEF BootBaudRate, Booting
<1>9. CASE BootParameters
  <2>1. /\ present' = confirmed' /\ missed' = FALSE
        /\ stage = "booting" /\ Advance
    BY <1>9 DEF BootParameters, Booting
  <2>2. last'.status # "NOT_FOUND"
    BY <2>1 DEF Advance, KnownInv
  <2>3. QED
    BY <2>1, <2>2 DEF KnownInv
<1>10. CASE BootProduct
  BY <1>10, KnownBoot DEF BootProduct, Booting
<1>11. CASE BootRegion
  BY <1>11, KnownBoot DEF BootRegion, Booting
<1>12. CASE BootProtocol
  BY <1>12, KnownBoot DEF BootProtocol, Booting
<1>13. CASE BootAntennas
  BY <1>13, KnownBoot DEF BootAntennas, Booting
<1>14. CASE BootM5e
  BY <1>14, KnownBoot DEF BootM5e, Booting
<1>15. CASE BootFilter
  BY <1>15, KnownBoot DEF BootFilter, Booting
<1>17. CASE BootInterrupted
  <2>1. /\ UNCHANGED <<fixed, bits, missed>>
        /\ last' = last \/ \E s \in {"FIRMWARE_UPDATE_ON_AUTOREAD", "autoread"} : GivesUp(s)
    BY <1>17 DEF BootInterrupted
  <2>2. stage = "booting"
    BY <1>17 DEF BootInterrupted
  <2>3. QED
    BY <2>1, <2>2, KnownKept DEF GivesUp, KnownInv
<1>18. CASE ParamGet
  <2>0. stage' \in {"closed", "ready"} /\ UNCHANGED fixed
    BY <1>18 DEF ParamGet
  <2>1. CASE NotFound
    <3>1. last'.status = "NOT_FOUND" /\ UNCHANGED <<bits, missed>>
      BY <1>18, <2>1 DEF ParamGet
    <3>2. QED
      BY <2>0, <2>1, <3>1 DEF KnownInv, NotFound, Has, Remembers, fixed
  <2>2. CASE ~NotFound
    <3>1. PICK r \in GetResults(fields) :
            /\ last'.status = r.status
            /\ missed' = (missed \/ r.status # "ok")
            /\ present' = IF Remembers /\ ~confirmed THEN Settled(r) ELSE present
            /\ confirmed' = (confirmed \/ Remembers)
      BY <1>18, <2>2 DEF ParamGet
    <3>2. Has => r.status # "NOT_FOUND"
      BY GetStatus, NotMissing DEF Has
    <3>3. Has' = Has /\ Remembers' = Remembers
      BY <2>0 DEF Has, Remembers, fixed
    <3>4. ASSUME Has, Remembers, ~present' PROVE missed'
      <4>1. CASE confirmed
        BY <2>2, <3>1, <3>4, <4>1 DEF NotFound
      <4>2. CASE ~confirmed
        BY <3>1, <3>4, <4>2 DEF Settled
      <4>3. QED
        BY <4>1, <4>2
    <3>5. QED
      BY <2>0, <3>1, <3>2, <3>3, <3>4 DEF KnownInv
  <2>3. QED
    BY <2>1, <2>2
<1>19. CASE ParamSet
  <2>0. stage' \in {"closed", "ready"} /\ UNCHANGED fixed /\ Set[key].how # "rate"
    BY <1>19 DEF ParamSet
  <2>a. PICK v \in Values : \E r \in SetResults(v) : SetTo(v, r)
    BY <1>19 DEF ParamSet
  <2>r. PICK r \in SetResults(v) : SetTo(v, r)
    BY <2>a
  <2>1. /\ last'.status = r.change.status
        /\ present' = r.present /\ confirmed' = r.confirmed /\ missed' = r.missed
    BY <2>r DEF SetTo
  <2>3. Has' = Has /\ Remembers' = Remembers
    BY <2>0 DEF Has, Remembers, fixed
  <2>4. CASE Remembers /\ ~confirmed
    <3>1. PICK probe \in GetResults(fields) :
            /\ r.present = Settled(probe)
            /\ r.missed = (missed \/ probe.status # "ok")
            /\ ~Settled(probe) \/ r.change.status \in
                 {"ILLEGAL_VALUE"} \cup {c.status : c \in Accepted(v, probe.fields)}
      BY <2>4, SetBits
    <3>2. Settled(probe) /\ Has => r.change.status # "NOT_FOUND"
      BY <2>0, <3>1, SetStatus, NotMissing DEF Has
    <3>3. ~Settled(probe) => r.missed
      BY <3>1 DEF Settled
    <3>4. QED
      BY <2>0, <2>1, <2>3, <3>1, <3>2, <3>3 DEF KnownInv
  <2>5. CASE ~(Remembers /\ ~confirmed)
    <3>1. /\ r.present = present /\ r.confirmed = confirmed /\ r.missed = missed
          /\ ~(present \/ ~Remembers) \/ r.change.status \in
               {"ILLEGAL_VALUE"} \cup {c.status : c \in Accepted(v, fields)}
      BY <2>5, SetBits
    <3>2. (present \/ ~Remembers) /\ Has => r.change.status # "NOT_FOUND"
      BY <2>0, <3>1, SetStatus, NotMissing DEF Has
    <3>3. QED
      BY <2>0, <2>1, <2>3, <2>5, <3>1, <3>2 DEF KnownInv
  <2>6. QED
    BY <2>4, <2>5
<1>20. CASE SetBaudRate
  <2>1. /\ last'.status \in Outcomes \cup {"ok"} /\ UNCHANGED <<fixed, missed>>
        /\ present' = (present \/ ~confirmed)
    BY <1>20 DEF SetBaudRate
  <2>2. last'.status # "NOT_FOUND"
    BY <2>1, OutcomesKnown
  <2>3. QED
    BY <2>1, <2>2 DEF KnownInv, Has, Remembers, fixed
<1>21. CASE ChangeProtocol
  <2>1. UNCHANGED <<fixed, bits, missed>> /\ last'.status = "ok"
    BY <1>21 DEF ChangeProtocol
  <2>2. QED
    BY <2>1, KnownKept
<1>22. CASE SaveProfile
  <2>1. UNCHANGED <<fixed, bits, missed>> /\ ProfileDone("save")
    BY <1>22 DEF SaveProfile
  <2>2. QED
    BY <2>1, KnownKept DEF ProfileDone
<1>23. CASE RestoreProfile
  <2>1. /\ UNCHANGED <<fixed, bits, missed>>
        /\ \/ ProfileDone("restore")
           \/ last' = [call |-> "restore", value |-> "none", status |-> "timeout"]
    BY <1>23 DEF RestoreProfile
  <2>2. last'.status # "NOT_FOUND"
    BY <2>1 DEF ProfileDone
  <2>3. QED
    BY <2>1, <2>2, KnownKept
<1>24. CASE FirmwareLoad \/ Reboot \/ Destroy
  <2>1. UNCHANGED <<fixed, bits, missed>> /\ last'.status \in {"none", "refused", "ok"}
    BY <1>24 DEF FirmwareLoad, Reboot, Destroy
  <2>2. QED
    BY <2>1, KnownKept
<1>28. CASE UNCHANGED settingVars
  BY <1>28 DEF KnownInv, Has, Remembers, fixed
<1>29. QED
  BY <1>1, <1>2, <1>3, <1>4, <1>5, <1>6, <1>7, <1>8, <1>9, <1>10, <1>11, <1>12, <1>13, <1>14,
     <1>15, <1>17, <1>18, <1>19, <1>20, <1>21, <1>22, <1>23, <1>24, <1>28 DEF SettingNext

(* A parameter the module has is only reported as missing when a get of it *)
(* has failed since the last boot.                                         *)
THEOREM KnownCorrect == SettingSpec => []KnownParameter
<1>1. SettingInit => TypeInv
  BY TypeInit
<1>2. TypeInv /\ [SettingNext]_settingVars => TypeInv'
  BY TypeStep
<1>3. SettingInit => KnownInv
  BY DEF SettingInit, KnownInv, Idle
<1>4. TypeInv /\ KnownInv /\ [SettingNext]_settingVars => KnownInv'
  <2>1. TypeInv => Chosen /\ {present, confirmed, missed} \subseteq BOOLEAN
    BY DEF TypeInv, Kinds
  <2>2. QED
    BY <2>1, KnownStep
<1>5. KnownInv => KnownParameter
  BY DEF KnownInv, KnownParameter, Has
<1>6. QED
  BY <1>1, <1>2, <1>3, <1>4, <1>5, PTL DEF SettingSpec

-------------------------------------------------------------------------------

(* What boot carries over: the rate, then the region.                        *)

(* From the fourth step of boot on host and module talk at the rate set.   *)
RateInv ==
  /\ DOMAIN module = ModuleFields
  /\ stage = "probing" => step = 1
  /\ stage = "booting" => step \in Nat
  /\ stage = "booting" /\ step > 4 => line = fields["baudRate"] /\ module.rate = line

(* A step of boot that changes neither rate nor port.                      *)
LEMMA BootStepKeeps ==
  ASSUME RateInv, NEW n \in 1..Steps, n # 4, Booting(n), Advance,
         DOMAIN module' = ModuleFields, module'.rate = module.rate, line' = line,
         fields'["baudRate"] = fields["baudRate"]
  PROVE  RateInv'
<1>1. stage = "booting" /\ step = n
  BY DEF Booting
<1>2. CASE n = Steps
  BY <1>1, <1>2 DEF Advance, RateInv, Steps
<1>3. CASE n # Steps
  BY <1>1, <1>3 DEF Advance, RateInv, Steps
<1>4. QED
  BY <1>2, <1>3

(* No step breaks the agreement on the rate.                               *)
LEMMA RateStep ==
  ASSUME RateInv, [SettingNext]_settingVars
  PROVE  RateInv'
<1> USE DEF settingVars, fixed, bits, wire, stageVars, ghosts, ModuleFields
<1>a. DOMAIN module = ModuleFields
  BY DEF RateInv
<1>b. \A f, v : f # "baudRate" => SetField(f, v)["baudRate"] = fields["baudRate"]
  BY DEF SetField
<1>1. CASE Connect
  BY <1>1 DEF Connect, RateInv
<1>2. CASE ProbeContact
  BY <1>2 DEF ProbeContact, RateInv
<1>3. CASE ProbeTimesOut
  BY <1>3 DEF ProbeTimesOut, GivesUp, RateInv
<1>4. CASE ProbeStopsStream
  <2>1. stage = "probing" /\ stage' \in {"probing", "failed"} /\ step' = step
    BY <1>4 DEF ProbeStopsStream, GivesUp
  <2>2. DOMAIN module' = ModuleFields
    BY <1>4, <1>a DEF ProbeStopsStream, VerifySearchStatus
  <2>3. QED
    BY <2>1, <2>2 DEF RateInv
<1>5. CASE BootProgram
  BY <1>5, <1>a, BootStepKeeps DEF BootProgram, Steps
<1>6. CASE BootPowerMode
  <2>1. fields'["baudRate"] = fields["baudRate"]
    BY <1>6, <1>b DEF BootPowerMode
  <2>2. QED
    BY <1>6, <1>a, <2>1, BootStepKeeps DEF BootPowerMode, Steps
<1>7. CASE BootTransport
  <2>1. DOMAIN module' = ModuleFields /\ module'.rate = module.rate
    BY <1>7, <1>a DEF BootTransport
  <2>2. QED
    BY <1>7, <2>1, BootStepKeeps DEF BootTransport, Steps
<1>8. CASE BootBaudRate
  <2>1. /\ DOMAIN module' = ModuleFields /\ module'.rate = fields["baudRate"]
        /\ line' = fields["baudRate"] /\ fields' = fields
        /\ step' = 5 /\ stage' = "booting"
    BY <1>8, <1>a DEF BootBaudRate, Booting, Advance, Steps
  <2>2. QED
    BY <2>1 DEF RateInv
<1>9. CASE BootParameters
  BY <1>9, <1>a, BootStepKeeps DEF BootParameters, Steps
<1>10. CASE BootProduct
  <2>1. DOMAIN module' = ModuleFields /\ module'.rate = module.rate
    BY <1>10, <1>a DEF BootProduct
  <2>2. QED
    BY <1>10, <2>1, BootStepKeeps DEF BootProduct, Steps
<1>11. CASE BootRegion
  <2>1. DOMAIN module' = ModuleFields /\ module'.rate = module.rate
    BY <1>11, <1>a DEF BootRegion
  <2>2. QED
    BY <1>11, <2>1, BootStepKeeps DEF BootRegion, Steps
<1>12. CASE BootProtocol
  <2>1. fields'["baudRate"] = fields["baudRate"]
    BY <1>12, <1>b DEF BootProtocol
  <2>2. QED
    BY <1>12, <1>a, <2>1, BootStepKeeps DEF BootProtocol, Steps
<1>13. CASE BootAntennas
  <2>1. fields'["baudRate"] = fields["baudRate"]
    BY <1>13, <1>b DEF BootAntennas
  <2>2. QED
    BY <1>13, <1>a, <2>1, BootStepKeeps DEF BootAntennas, Steps
<1>14. CASE BootM5e
  <2>1. fields'["baudRate"] = fields["baudRate"]
    BY <1>14, <1>b DEF BootM5e
  <2>2. DOMAIN module' = ModuleFields /\ module'.rate = module.rate
    BY <1>14, <1>a DEF BootM5e
  <2>3. QED
    BY <1>14, <2>1, <2>2, BootStepKeeps DEF BootM5e, Steps
<1>15. CASE BootFilter
  <2>1. fields'["baudRate"] = fields["baudRate"]
    BY <1>15, <1>b DEF BootFilter
  <2>2. QED
    BY <1>15, <1>a, <2>1, BootStepKeeps DEF BootFilter, Steps
<1>16. CASE BootFails
  BY <1>16 DEF BootFails, GivesUp, RateInv
<1>17. CASE BootInterrupted
  <2>1. stage' = "failed" \/ (stage' = "booting" /\ step' = 1)
    BY <1>17 DEF BootInterrupted, GivesUp
  <2>2. DOMAIN module' = ModuleFields
    BY <1>17, <1>a DEF BootInterrupted, VerifySearchStatus
  <2>3. QED
    BY <2>1, <2>2 DEF RateInv
<1>18. CASE ParamGet
  BY <1>18 DEF ParamGet, RateInv
<1>19. CASE ParamSet
  BY <1>19 DEF ParamSet, SetTo, RateInv
<1>20. CASE SetBaudRate
  BY <1>20 DEF SetBaudRate, RateInv
<1>21. CASE ChangeProtocol
  <2>1. \E items : module' = [module EXCEPT !.items = items]
    BY <1>21 DEF ChangeProtocol
  <2>2. stage' = "ready"
    BY <1>21 DEF ChangeProtocol
  <2>3. QED
    BY <2>1, <2>2 DEF RateInv
<1>22. CASE SaveProfile
  BY <1>22 DEF SaveProfile, RateInv
<1>23. CASE RestoreProfile
  BY <1>23 DEF RestoreProfile, RateInv
<1>24. CASE FirmwareLoad
  BY <1>24 DEF FirmwareLoad, RateInv
<1>25. CASE Reboot
  BY <1>25 DEF Reboot, RateInv
<1>26. CASE RestartModule
  BY <1>26 DEF RestartModule, RateInv
<1>27. CASE Destroy
  BY <1>27 DEF Destroy, RateInv
<1>28. CASE UNCHANGED settingVars
  BY <1>28 DEF RateInv
<1>29. QED
  BY <1>1, <1>2, <1>3, <1>4, <1>5, <1>6, <1>7, <1>8, <1>9, <1>10, <1>11, <1>12, <1>13, <1>14,
     <1>15, <1>16, <1>17, <1>18, <1>19, <1>20, <1>21, <1>22, <1>23, <1>24, <1>25, <1>26,
     <1>27, <1>28 DEF SettingNext

(* What a boot that succeeds leaves behind.                                *)
BootedRate == line' = fields'["baudRate"] /\ module'.rate = line'

(* Only the last step of boot ends it well.                                *)
LEMMA BootEnds ==
  ASSUME SettingNext, stage = "booting", stage' = "ready"
  PROVE  BootFilter
<1> USE DEF stageVars
<1>0. \A n \in 1..10 : ~(Booting(n) /\ Advance)
  BY DEF Booting, Advance, Steps
<1>1. ~(Connect \/ ProbeContact \/ ProbeTimesOut \/ ProbeStopsStream)
  BY DEF Connect, ProbeContact, ProbeTimesOut, ProbeStopsStream, GivesUp
<1>2. ~(BootProgram \/ BootPowerMode \/ BootTransport \/ BootBaudRate \/ BootParameters)
  <2>1. ~BootProgram
    BY <1>0 DEF BootProgram
  <2>2. ~BootPowerMode
    BY <1>0 DEF BootPowerMode
  <2>3. ~BootTransport
    <3>1. BootTransport => Booting(3) /\ Advance
      BY Zenon DEF BootTransport
    <3>2. QED
      BY <1>0, <3>1
  <2>4. ~BootBaudRate
    BY <1>0 DEF BootBaudRate
  <2>5. ~BootParameters
    BY <1>0 DEF BootParameters
  <2>6. QED
    BY <2>1, <2>2, <2>3, <2>4, <2>5
<1>3. ~(BootProduct \/ BootRegion \/ BootProtocol \/ BootAntennas \/ BootM5e)
  BY <1>0 DEF BootProduct, BootRegion, BootProtocol, BootAntennas, BootM5e
<1>4. ~(BootFails \/ BootInterrupted)
  BY DEF BootFails, BootInterrupted, GivesUp
<1>5. ~(ParamGet \/ ParamSet \/ SetBaudRate \/ ChangeProtocol)
  BY DEF ParamGet, ParamSet, SetBaudRate, ChangeProtocol
<1>6. ~(SaveProfile \/ RestoreProfile \/ FirmwareLoad \/ Reboot \/ RestartModule \/ Destroy)
  BY DEF SaveProfile, RestoreProfile, FirmwareLoad, Reboot, RestartModule, Destroy
<1>7. QED
  BY <1>1, <1>2, <1>3, <1>4, <1>5, <1>6 DEF SettingNext

(* That one changes neither port nor rate.                                 *)
LEMMA BootedAtRate ==
  ASSUME RateInv, BootFilter
  PROVE  BootedRate
<1>1. stage = "booting" /\ step = 11 /\ line' = line /\ module' = module
  BY DEF BootFilter, Booting
<1>2. \A f, v : f # "baudRate" => SetField(f, v)["baudRate"] = fields["baudRate"]
  BY DEF SetField
<1>3. fields'["baudRate"] = fields["baudRate"]
  BY <1>2 DEF BootFilter
<1>4. QED
  BY <1>1, <1>3 DEF RateInv, BootedRate

(* Once boot has sent the region that was set, it is the module's.         *)
RegionSent ==
  fields["regionId"] # "NONE" =>
    module.items[Written.Region] = Codes(Written.Region, model)[fields["regionId"]]

(* From its eighth step on, boot has sent it.                              *)
RegionInv == stage = "booting" /\ step > 7 /\ key = "REGION_ID" => RegionSent

(* The parameter of the region, its field and its item.                    *)
LEMMA RegionRow ==
  ASSUME TypeInv, key = "REGION_ID"
  PROVE  /\ "regionId" \in DOMAIN fields
         /\ Written.Region \in DOMAIN module.items
<1>0. Like(Set["REGION_ID"], "keep send connected", "regionId", Written.Region, Models,
          "NOT_FOUND")
  BY SetARows
<1>1. Set[key].field = "regionId" /\ Set[key].item = Written.Region
  BY <1>0 DEF Like, FieldOf, ItemOf
<1>2. "regionId" # "none" /\ Written.Region # NoItem
  BY DEF Written, NoItem
<1>3. QED
  BY <1>1, <1>2, Fielded DEF TypeInv, FieldsOK, ModuleOK

(* A step of boot that leaves the region and its field.                    *)
LEMMA RegionKept ==
  ASSUME RateInv, RegionInv, NEW n \in 1..Steps, n # 7, Booting(n), Advance,
         key = "REGION_ID" => /\ fields'["regionId"] = fields["regionId"]
                              /\ module'.items[Written.Region] = module.items[Written.Region]
  PROVE  RegionInv'
<1>1. stage = "booting" /\ step = n
  BY DEF Booting
<1>2. key' = key /\ model' = model
  BY DEF Advance, fixed
<1>3. CASE n = Steps
  BY <1>1, <1>3 DEF Advance, RegionInv, Steps
<1>4. CASE n # Steps
  BY <1>1, <1>2, <1>4 DEF Advance, RegionInv, RegionSent, Steps
<1>5. QED
  BY <1>3, <1>4

(* A field of another name.                                                *)
LEMMA OtherField ==
  ASSUME NEW f, f # "regionId", NEW v
  PROVE  SetField(f, v)["regionId"] = fields["regionId"]
BY DEF SetField

(* No step of boot after that changes the region.                          *)
LEMMA RegionStep ==
  ASSUME TypeInv, RateInv, RegionInv, [SettingNext]_settingVars
  PROVE  RegionInv'
<1> USE DEF settingVars, fixed, bits, wire, stageVars, ghosts
<1>a. DOMAIN module = ModuleFields
  BY DEF RateInv
<1>1. CASE Connect \/ ProbeContact \/ ProbeTimesOut \/ ProbeStopsStream
  <2>1. stage' # "booting" \/ (stage = "probing" /\ step' = step)
    BY <1>1 DEF Connect, ProbeContact, ProbeTimesOut, ProbeStopsStream, GivesUp
  <2>2. QED
    BY <2>1 DEF RateInv, RegionInv
<1>5. CASE BootProgram
  <2>1. module'.items = module.items /\ fields' = fields
    BY <1>5, <1>a DEF BootProgram, ModuleFields
  <2>2. QED
    BY <1>5, <2>1, RegionKept DEF BootProgram, Steps
<1>6. CASE BootPowerMode
  <2>1. fields'["regionId"] = fields["regionId"]
    BY <1>6, OtherField DEF BootPowerMode
  <2>2. QED
    BY <1>6, <2>1, RegionKept DEF BootPowerMode, Steps
<1>7. CASE BootTransport
  <2>1. module'.items = module.items /\ fields' = fields
    BY <1>7, <1>a DEF BootTransport, ModuleFields
  <2>2. QED
    BY <1>7, <2>1, RegionKept DEF BootTransport, Steps
<1>8. CASE BootBaudRate
  <2>1. module'.items = module.items /\ fields' = fields
    BY <1>8, <1>a DEF BootBaudRate, ModuleFields
  <2>2. QED
    BY <1>8, <2>1, RegionKept DEF BootBaudRate, Steps
<1>9. CASE BootParameters
  BY <1>9, RegionKept DEF BootParameters, Steps
<1>10. CASE BootProduct
  <2>1. step' = 7
    BY <1>10 DEF BootProduct, Booting, Advance, Steps
  <2>2. QED
    BY <2>1 DEF RegionInv
<1>11. CASE BootRegion
  <2>1. ASSUME key = "REGION_ID" PROVE RegionSent'
    <3>1. /\ "regionId" \in DOMAIN fields
          /\ Written.Region \in DOMAIN module.items
      BY <2>1, RegionRow
    <3>2. CASE fields["regionId"] # "NONE"
      <4> DEFINE code == Codes(Written.Region, model)[fields["regionId"]]
      <4>1. Written1(Written.Region, code, "ok")[Written.Region] = code
        BY <3>1, WrittenParts DEF Arrived
      <4>2. module' = [module EXCEPT !.items = Written1(Written.Region, code, "ok")]
        BY <1>11, <3>1, <3>2 DEF BootRegion
      <4>3. module'.items[Written.Region] = code
        BY <1>a, <4>1, <4>2 DEF ModuleFields
      <4>4. model' = model /\ fields' = fields
        BY <1>11 DEF BootRegion, Advance
      <4>5. QED
        BY <4>3, <4>4 DEF RegionSent
    <3>3. CASE fields["regionId"] = "NONE"
      BY <1>11, <3>3 DEF BootRegion, RegionSent
    <3>4. QED
      BY <3>2, <3>3
  <2>2. key' = key
    BY <1>11 DEF BootRegion, Advance
  <2>3. QED
    BY <2>1, <2>2 DEF RegionInv
<1>12. CASE BootProtocol
  <2>1. fields'["regionId"] = fields["regionId"]
    BY <1>12, OtherField DEF BootProtocol
  <2>2. QED
    BY <1>12, <2>1, RegionKept DEF BootProtocol, Steps
<1>13. CASE BootAntennas
  <2>1. fields'["regionId"] = fields["regionId"]
    BY <1>13, OtherField DEF BootAntennas
  <2>2. QED
    BY <1>13, <2>1, RegionKept DEF BootAntennas, Steps
<1>14. CASE BootM5e
  <2>1. fields'["regionId"] = fields["regionId"]
    BY <1>14, OtherField DEF BootM5e
  <2>2. ASSUME key = "REGION_ID"
        PROVE  module'.items[Written.Region] = module.items[Written.Region]
    <3>1. Written.Region \in DOMAIN module.items
      BY <2>2, RegionRow
    <3>2. Written.Region \notin {Config("EXTENDED_EPC"), Config("RSSI_IN_DBM")}
      BY DEF Written, Config
    <3>3. CASE model # "M5e"
      BY <1>14, <3>3 DEF BootM5e
    <3>4. CASE model = "M5e"
      <4>1. module'.items = [i \in DOMAIN module.items |->
                               IF i \in {Config("EXTENDED_EPC"), Config("RSSI_IN_DBM")}
                               THEN "1" ELSE module.items[i]]
        BY <1>14, <3>4, <1>a DEF BootM5e, ModuleFields
      <4>2. QED
        BY <3>1, <3>2, <4>1
    <3>5. QED
      BY <3>3, <3>4
  <2>3. QED
    BY <1>14, <2>1, <2>2, RegionKept DEF BootM5e, Steps
<1>15. CASE BootFilter
  <2>1. stage' = "ready"
    BY <1>15 DEF BootFilter, Booting, Advance, Steps
  <2>2. QED
    BY <2>1 DEF RegionInv
<1>16. CASE BootFails
  BY <1>16 DEF BootFails, GivesUp, RegionInv
<1>17. CASE BootInterrupted
  <2>1. stage' = "failed" \/ step' = 1
    BY <1>17 DEF BootInterrupted, GivesUp
  <2>2. QED
    BY <2>1 DEF RegionInv
<1>18. CASE ParamGet \/ ParamSet \/ SetBaudRate \/ ChangeProtocol
  <2>1. stage' # "booting"
    BY <1>18 DEF ParamGet, ParamSet, SetBaudRate, ChangeProtocol
  <2>2. QED
    BY <2>1 DEF RegionInv
<1>22. CASE SaveProfile \/ RestoreProfile \/ FirmwareLoad \/ Reboot \/ RestartModule \/ Destroy
  <2>1. stage' # "booting" \/ step' = 1
    BY <1>22 DEF SaveProfile, RestoreProfile, FirmwareLoad, Reboot, RestartModule, Destroy
  <2>2. QED
    BY <2>1 DEF RegionInv
<1>28. CASE UNCHANGED settingVars
  BY <1>28 DEF RegionInv, RegionSent
<1>29. QED
  BY <1>1, <1>5, <1>6, <1>7, <1>8, <1>9, <1>10, <1>11, <1>12, <1>13, <1>14, <1>15, <1>16,
     <1>17, <1>18, <1>22, <1>28 DEF SettingNext

(* The last step of boot leaves it.                                        *)
LEMMA RegionCarried ==
  ASSUME RegionInv, BootFilter
  PROVE  key = "REGION_ID" => RegionSent'
<1>1. /\ stage = "booting" /\ step = 11 /\ module' = module
      /\ key' = key /\ model' = model
  BY DEF BootFilter, Booting, Advance, fixed
<1>2. fields'["regionId"] = fields["regionId"]
  BY OtherField DEF BootFilter
<1>3. QED
  BY <1>1, <1>2 DEF RegionInv, RegionSent

(* Whatever the reader and the module did before, a boot that succeeds     *)
(* (TMR_SR_boot, after a connect or a firmware load) leaves them talking   *)
(* at the rate that was set, and the module in the region that was set.    *)
THEOREM BootCarried == SettingSpec => BootCarriesSettings
<1>1. SettingInit => TypeInv
  BY TypeInit
<1>2. TypeInv /\ [SettingNext]_settingVars => TypeInv'
  BY TypeStep
<1>3. SettingInit => RateInv /\ RegionInv
  <2>1. SettingInit => stage = "closed" /\ DOMAIN module = ModuleFields
    BY DEF SettingInit, ModuleFields
  <2>2. QED
    BY <2>1 DEF RateInv, RegionInv
<1>4. RateInv /\ [SettingNext]_settingVars => RateInv'
  BY RateStep
<1>5. TypeInv /\ RateInv /\ RegionInv /\ [SettingNext]_settingVars => RegionInv'
  BY RegionStep
<1> DEFINE Booted == stage = "booting" /\ stage' = "ready" =>
             /\ line' = fields'["baudRate"] /\ module'.rate = line'
             /\ key = "REGION_ID" /\ fields'["regionId"] # "NONE" =>
                  module'.items[Written.Region] = Codes(Written.Region, model)[fields'["regionId"]]
<1>6. RateInv /\ RegionInv /\ [SettingNext]_settingVars => [Booted]_settingVars
  <2> SUFFICES ASSUME RateInv, RegionInv, SettingNext, stage = "booting", stage' = "ready"
               PROVE  Booted
    OBVIOUS
  <2>1. BootFilter
    BY BootEnds
  <2>2. BootedRate /\ (key = "REGION_ID" => RegionSent') /\ model' = model
    BY <2>1, BootedAtRate, RegionCarried DEF BootFilter, Advance, fixed
  <2>3. QED
    BY <2>2 DEF BootedRate, RegionSent
<1>7. QED
  BY <1>1, <1>2, <1>3, <1>4, <1>5, <1>6, PTL DEF SettingSpec, BootCarriesSettings

-------------------------------------------------------------------------------

(* The value that was set last: the module has it, and the next get answers  *)
(* it.                                                                       *)

(* A closed port is not connected, an open one that boots or has booted is.*)
Linked ==
  /\ stage = "closed" => ~connected
  /\ stage \in {"booting", "ready"} => connected

(* The value in the field that a set keeps it in; a list of rates that was *)
(* shortened into the reader's own.                                        *)
InField(fs, v) ==
  Set[key].how \in Keeping =>
    \/ fs[Set[key].field] = Kept(v)
    \/ key = "PROBEBAUDRATES" /\ fs[Set[key].field] = "short"

(* What is true of the value that was set last.                            *)
Held ==
  /\ stage \in {"closed", "ready"}
  /\ Set[key].how \notin {"READONLY", "reset"}
  /\ model \in Set[key].models \/ Set[key].how = "rate"
  /\ WriteItem # NoItem => chosen \in DOMAIN Codes(WriteItem, model)
  /\ ModuleHoldsSetting
  /\ InField(fields, chosen)

(* From the set that chose a value on, until something fails.              *)
HeldInv == Linked /\ (chosen # "none" => Held)

(* What a get may answer after it.                                         *)
Answers(value) ==
  \/ value = chosen
  \/ key = "PROBEBAUDRATES" /\ value = "short"
  \/ key = "REGION_LBT_ENABLE" /\ value = "false"

(* A value is kept as it is, but for the time of the filter.               *)
LEMMA KeptValue ==
  ASSUME NEW v, key = "TAGREADDATA_READFILTERTIMEOUT" => v # "-1"
  PROVE  Kept(v) = v
BY DEF Kept

(* What the module was sent is read back.                                  *)
LEMMA CodeRead ==
  ASSUME ~Lossy, WriteItem # NoItem, Inverse(WriteItem),
         chosen \in DOMAIN Codes(WriteItem, model)
  PROVE  Readings(WriteItem, model)[Codes(WriteItem, model)[chosen]] = chosen
BY DEF Inverse, Lossy

(* A get after a set, and what it leaves.                                  *)
LEMMA GetHolds ==
  ASSUME TypeInv, HeldInv, chosen # "none", NEW r \in GetResults(fields)
  PROVE  /\ r.status = "ok" /\ ~Lossy => Answers(r.value)
         /\ InField(r.fields, chosen)
<1> DEFINE S == Set[key]
           G == Get[key]
           read == Reading(G.item)
           its == G.field
<1>a. /\ Chosen /\ Held /\ Linked /\ DOMAIN fields = FieldsOf(key)
      /\ GetForm(fields, r) /\ WriteItem = S.item
  BY GetForms DEF TypeInv, HeldInv, FieldsOK, WriteItem
<1>b. /\ SetFits(key, S.how, S.field, S.item, S.elsewhere)
      /\ GetFits(key, S.how, S.field, S.item, S.models, G.how, its, G.item, G.models,
                 G.elsewhere)
  BY <1>a, KeyFits
<1>c. S.how \notin {"READONLY", "reset"}
  BY <1>a DEF Held
<1>d. InField(fields, chosen)
  BY <1>a DEF Held
<1>e. "ok" \in Outcomes => stage = "ready"
  BY <1>a, OutcomesKnown DEF Held
<1>f. ASSUME "ok" \in Outcomes, G.item = S.item, S.item # NoItem, Inverse(S.item), ~Lossy
      PROVE  read = chosen
  <2>1. /\ module.items[WriteItem] = Codes(WriteItem, model)[chosen]
        /\ chosen \in DOMAIN Codes(WriteItem, model)
    BY <1>a, <1>e, <1>f DEF Held, ModuleHoldsSetting
  <2>2. read = Readings(WriteItem, model)[module.items[WriteItem]]
    BY <1>a, <1>f DEF Reading
  <2>3. QED
    BY <1>a, <1>f, <2>1, <2>2, CodeRead
<1> DEFINE Fine(s, v, f) == (s = "ok" /\ ~Lossy => Answers(v)) /\ InField(f, chosen)
<1>g. ASSUME S.how \in Keeping, its = S.field, ~Lossy PROVE Answers(fields[its])
  <2>1. fields[its] = Kept(chosen) \/ (key = "PROBEBAUDRATES" /\ fields[its] = "short")
    BY <1>d, <1>g DEF InField
  <2>2. Kept(chosen) = chosen
    BY <1>g, KeptValue DEF Lossy
  <2>3. QED
    BY <2>1, <2>2 DEF Answers
<1> HIDE DEF read
<1>1. ASSUME G.how \in {"keep", "shorten"} PROVE Fine("ok", fields[its], fields)
  BY <1>1, <1>b, <1>c, <1>d, <1>g DEF GetFits
<1>2. ASSUME G.how = "shorten" PROVE Fine("ok", "short", Into(fields, its, "short"))
  <2>1. key = "PROBEBAUDRATES" /\ its = S.field /\ S.how \in Keeping
    BY <1>2, <1>b, <1>c DEF GetFits
  <2>2. its \in DOMAIN fields
    BY <1>a, <1>b, <2>1, Fielded DEF SetFits
  <2>3. Into(fields, its, "short")[its] = "short"
    BY <2>2, IntoParts
  <2>4. QED
    BY <2>1, <2>3 DEF InField, Answers
<1>3. ASSUME G.how \in {"ask", "ask or false"}, "ok" \in Outcomes
      PROVE  Fine("ok", read, fields)
  <2>1. key = "GEN2_BLF" \/ (G.item = S.item /\ S.item # NoItem /\ Inverse(S.item))
    BY <1>3, <1>b, <1>c DEF GetFits
  <2>2. ~Lossy => read = chosen
    BY <1>3, <1>f, <2>1 DEF Lossy
  <2>3. QED
    BY <2>2, <1>d DEF Answers
<1>4. ASSUME G.how = "ask or false" PROVE Fine("ok", "false", fields)
  BY <1>4, <1>b, <1>d DEF GetFits, Answers
<1>5. ASSUME G.how = "ask keep" PROVE Fine("ok", read, Into(fields, its, read))
  <2>1. key = "ANTENNA_PORTSWITCHGPOS" /\ Lossy
    BY <1>5, <1>b DEF GetFits, Lossy
  <2>2. Like(Set["ANTENNA_PORTSWITCHGPOS"], "keep send map", "portmask",
             Config("ANTENNA_CONTROL_GPIO"), Models, "NOT_FOUND")
    BY SetCRows
  <2>3. S.how \notin Keeping
    BY <2>1, <2>2 DEF Like, HowOf, Keeping
  <2>4. QED
    BY <2>1, <2>3 DEF InField
<1>6. ASSUME G.how = "ask keep connected", "ok" \in Outcomes
      PROVE  Fine("ok", read, Into(fields, its, read))
  <2>1. /\ key = "POWERMODE" /\ S.how = "send keep connected"
        /\ its = S.field /\ G.item = S.item /\ S.item # NoItem /\ Inverse(S.item)
    BY <1>6, <1>b DEF GetFits
  <2>2. its \in DOMAIN fields /\ S.how \in Keeping
    BY <1>a, <1>b, <2>1, Fielded DEF SetFits, Keeping
  <2>3. Into(fields, its, read)[its] = read
    BY <2>2, IntoParts
  <2>4. ~Lossy
    <3>1. S.item[1] # "ANTENNA_PORT 4"
      <4>1. Like(Set["POWERMODE"], "send keep connected", "powerMode", Written.PowerMode,
                 Models, "NOT_FOUND")
        BY SetERows
      <4>2. S.item = Written.PowerMode
        BY <2>1, <4>1 DEF Like, ItemOf
      <4>3. QED
        BY <4>2 DEF Written
    <3>2. QED
      BY <1>a, <2>1, <3>1 DEF Lossy
  <2>5. read = chosen
    BY <1>6, <1>f, <2>1, <2>4
  <2>6. Kept(chosen) = chosen
    BY <2>1, KeptValue
  <2>7. QED
    BY <2>1, <2>2, <2>3, <2>5, <2>6 DEF InField, Answers
<1>7. ASSUME G.how = "ask keep connected" PROVE Fine("ok", fields[its], fields)
  BY <1>7, <1>b, <1>d, <1>g DEF GetFits, Keeping
<1>8. ASSUME G.how = "ask if none"
      PROVE  fields[its] # "NONE" /\ Fine("ok", fields[its], fields)
  <2>1. /\ key = "REGION_ID" /\ S.how \in Keeping /\ its = S.field
        /\ S.item # NoItem /\ \A n : "NONE" \notin DOMAIN Codes(S.item, n)
    BY <1>8, <1>b DEF GetFits
  <2>2. fields[its] = chosen
    BY <1>d, <2>1, KeptValue DEF InField
  <2>3. chosen \in DOMAIN Codes(S.item, model)
    BY <1>a, <2>1 DEF Held
  <2>4. QED
    BY <1>d, <1>g, <2>1, <2>2, <2>3
<1>9. ASSUME model \notin G.models PROVE G.elsewhere # "ok"
  BY <1>9, <1>a, <1>b DEF GetFits, Held
<1>10. \E s, v, f : r = Result(s, v, f) /\ Fine(s, v, f)
  <2>1. CASE model \notin G.models /\ r = Result(G.elsewhere, "none", fields)
    BY <2>1, <1>9, <1>d
  <2>2. CASE \E o \in Outcomes \ {"ok"} : r = Result(o, "none", fields)
    BY <2>2, <1>d
  <2>3. CASE G.how \in {"keep", "shorten"} /\ r = Result("ok", fields[its], fields)
    BY <2>3, <1>1
  <2>4. CASE G.how = "shorten" /\ r = Result("ok", "short", Into(fields, its, "short"))
    BY <2>4, <1>2
  <2>5. CASE /\ G.how \in {"ask", "ask or false"} /\ "ok" \in Outcomes
             /\ r = Result("ok", read, fields)
    BY <2>5, <1>3
  <2>6. CASE G.how = "ask or false" /\ r = Result("ok", "false", fields)
    BY <2>6, <1>4
  <2>7. CASE /\ G.how \in {"ask keep", "ask keep connected"} /\ "ok" \in Outcomes
             /\ r = Result("ok", read, Into(fields, its, read))
    BY <2>7, <1>5, <1>6
  <2>8. CASE /\ G.how \in {"ask keep connected", "ask if none"}
             /\ r = Result("ok", fields[its], fields)
    BY <2>8, <1>7, <1>8
  <2>9. QED
    BY <1>a, <1>8, <2>1, <2>2, <2>3, <2>4, <2>5, <2>6, <2>7, <2>8 DEF GetForm, read
<1>11. PICK s, v, f : r = Result(s, v, f) /\ Fine(s, v, f)
  BY <1>10
<1>12. QED
  BY <1>11, ResultParts

(* What a set that is accepted leaves.                                     *)
SetHeld(v, fs, items) ==
  /\ Set[key].how # "READONLY" /\ model \in Set[key].models
  /\ WriteItem # NoItem => v \in DOMAIN Codes(WriteItem, model)
  /\ connected /\ WriteItem # NoItem => items[WriteItem] = Codes(WriteItem, model)[v]
  /\ Set[key].how \in Keeping => fs[Set[key].field] = Kept(v)

(* A value that is sent, and one that is kept.                             *)
LEMMA TakenCode ==
  ASSUME TypeInv, WriteItem # NoItem, NEW v
  PROVE  Taken(v)[WriteItem] = Codes(WriteItem, model)[v]
<1>1. WriteItem \in DOMAIN module.items
  BY Fielded DEF TypeInv, ModuleOK, WriteItem
<1>2. QED
  BY <1>1, WrittenParts DEF Taken, WriteItem, Arrived

(* A value that is not refused outright has a code.                        *)
LEMMA LegalValues ==
  ASSUME NEW v \in Values \ {"illegal", "null", "default"}, Chosen, Set[key].how # "rate",
         WriteItem # NoItem
  PROVE  v \in DOMAIN Codes(WriteItem, model)
<1>1. CASE Set[key].how = "bap"
  <2>1. DOMAIN Codes(WriteItem, model) = {"a", "b"}
    BY <1>1, KeyFits DEF SetFits, WriteItem
  <2>2. QED
    BY <1>1, <2>1 DEF Values
<1>2. CASE Set[key].how # "bap"
  BY <1>2 DEF Values
<1>3. QED
  BY <1>1, <1>2

(* A set that answers ok leaves its value in the field and at the module.  *)
LEMMA SetHolds ==
  ASSUME TypeInv, Set[key].how \notin {"rate", "reset"},
         NEW v \in Values \ {"null", "default"}, NEW r \in SetResults(v),
         r.change.status = "ok"
  PROVE  SetHeld(v, r.change.fields, r.change.items)
<1> DEFINE S == Set[key]
           c == r.change
<1>a. /\ Chosen /\ FieldsOK(fields) /\ ModuleOK(module)
      /\ SetFits(key, S.how, S.field, S.item, S.elsewhere) /\ WriteItem = S.item
  BY KeyFits DEF TypeInv, WriteItem
<1>1. PICK fs : SetGoes(v, fs, r)
  BY <1>a, SetGoesSo
<1>2. v # "illegal" /\ c \in Accepted(v, fs) /\ SetForm(v, fs, c)
  BY <1>1, ChangeParts DEF SetGoes
<1>e. \A s, f, i : c = Change(s, f, i) => s = "ok" /\ c.fields = f /\ c.items = i
  BY ChangeParts
<1>f. S.elsewhere # "ok" /\ S.how \in SetHows
  BY <1>a DEF SetFits
<1> HIDE DEF c
<1>3. DOMAIN fs = FieldsOf(key)
  <2>1. But(S.field, fs, c.fields)
    BY <1>2, <1>a, SetChanges
  <2>2. DOMAIN c.fields = FieldsOf(key)
    BY <1>a, SetKeepsShape DEF FieldsOK, c
  <2>3. QED
    BY <2>1, <2>2 DEF But
<1>4. model \in S.models
  <2>1. SUFFICES ASSUME model \notin S.models PROVE FALSE
    OBVIOUS
  <2>2. c = Change(S.elsewhere, fs, module.items)
    BY <1>2, <2>1 DEF Accepted
  <2>3. QED
    BY <1>e, <1>f, <2>2
<1>5. WriteItem # NoItem => v \in DOMAIN Codes(WriteItem, model)
  BY <1>2, <1>a, LegalValues
<1>6. ASSUME S.how = "merge" PROVE v # "unlisted"
  <2>1. CASE WriteItem # NoItem
    BY <1>5, <1>6, <1>a, <2>1 DEF SetFits
  <2>2. CASE WriteItem = NoItem
    <3>1. Values = {"a", "b"} \cup (IF S.checked THEN {"illegal"} ELSE {})
      BY <1>6, <2>2 DEF Values
    <3>2. QED
      BY <3>1
  <2>3. QED
    BY <2>1, <2>2
<1>7. S.how \in Keeping => Into(fs, S.field, Kept(v))[S.field] = Kept(v)
  <2>1. S.how \in Keeping => S.field \in DOMAIN fs
    BY <1>a, <1>3, Fielded DEF SetFits
  <2>2. QED
    BY <2>1, IntoParts
<1> DEFINE K == Into(fs, S.field, Kept(v))
<1>8. \/ S.how = "keep" /\ c.fields = K
      \/ S.how \in {"send", "merge", "pins", "lbt", "keep send map", "bap"} /\ c.items = Taken(v)
      \/ S.how \in {"send keep", "send keep connected", "keep send", "keep send connected"}
           /\ c.fields = K /\ c.items = Taken(v)
      \/ S.how \in {"send keep connected", "keep send connected"} /\ ~connected /\ c.fields = K
  <2>2. CASE S.how = "keep"
    BY <1>2, <1>4, <1>e, <2>2 DEF SetForm
  <2>3. CASE S.how \in {"send", "merge", "pins", "lbt"}
    BY <1>2, <1>4, <1>6, <1>e, <2>3 DEF SetForm, Arrived
  <2>4. CASE S.how \in {"send keep", "send keep connected"}
    BY <1>2, <1>4, <1>e, <2>4 DEF SetForm, Arrived
  <2>5. CASE S.how \in {"keep send", "keep send connected"}
    BY <1>2, <1>4, <1>e, <2>5 DEF SetForm, Arrived
  <2>6. CASE S.how \in {"keep send map", "bap"}
    BY <1>2, <1>4, <1>e, <2>6 DEF SetForm, Arrived
  <2>7. CASE S.how = "READONLY"
    BY <1>2, <1>4, <1>e, <2>7 DEF SetForm
  <2>9. CASE S.how = "rate" \/ S.how = "reset"
    BY <2>9
  <2>8. QED
    BY <1>f, <2>2, <2>3, <2>4, <2>5, <2>6, <2>7, <2>9 DEF SetHows
<1>9. connected /\ WriteItem # NoItem => c.items[WriteItem] = Codes(WriteItem, model)[v]
  <2>1. S.how = "keep" => WriteItem = NoItem
    BY <1>a DEF SetFits
  <2>2. QED
    BY <1>8, <2>1, TakenCode
<1>10. S.how \in Keeping => c.fields[S.field] = Kept(v)
  BY <1>7, <1>8 DEF Keeping
<1>11. S.how # "READONLY"
  BY <1>8
<1>12. QED
  BY <1>4, <1>5, <1>9, <1>10, <1>11 DEF SetHeld, c

(* What a change of protocol makes of the settings it drops: EPCs get their*)
(* length back and the filter its state and time.                          *)
Dropped == [i \in DOMAIN module.items |->
              CASE i = Config("EXTENDED_EPC") -> "0"
                [] i = Config("ENABLE_READ_FILTER") -> "1"
                [] i = Config("READ_FILTER_TIMEOUT") -> "0"
                [] OTHER -> module.items[i]]

(* ... and what it sends again.                                            *)
SentBack == IF SentAgain
            THEN [Dropped EXCEPT ![WriteItem] = Codes(WriteItem, model)[fields[Set[key].field]]]
            ELSE Dropped

(* The codes of the settings that are dropped.                             *)
LEMMA DroppedCodes ==
  ASSUME NEW m
  PROVE  /\ Codes(Config("EXTENDED_EPC"), m) = Flag("1", "0")
         /\ Codes(Config("READ_FILTER_TIMEOUT"), m)
              = [v \in {"-1", "0", "a"} |-> IF v = "a" THEN "a" ELSE "0"]
<1>1. /\ ConfigCodes("EXTENDED_EPC", m) = Flag("1", "0")
      /\ ConfigCodes("READ_FILTER_TIMEOUT", m)
              = [v \in {"-1", "0", "a"} |-> IF v = "a" THEN "a" ELSE "0"]
  BY DEF ConfigCodes
<1>2. QED
  BY <1>1, ConfigInverse

(* What was set before the change of protocol is at the module after it.   *)
LEMMA SentBackHolds ==
  ASSUME TypeInv, HeldInv, chosen # "none", Set[key].how = "send keep"
  PROVE  /\ SentBack[WriteItem] = Codes(WriteItem, model)[chosen]
         /\ ~(key = "TAGREADDATA_READFILTERTIMEOUT" /\ fields["readFilterTimeout"] = "-1")
<1> DEFINE code == Codes(WriteItem, model)
           value == fields[Set[key].field]
<1>1. /\ Held /\ WriteItem = Set[key].item
      /\ SetFits(key, Set[key].how, Set[key].field, Set[key].item, Set[key].elsewhere)
  BY KeyFits DEF HeldInv, TypeInv, WriteItem
<1>2. \/ /\ key = "EXTENDEDEPC" /\ WriteItem = Config("EXTENDED_EPC")
         /\ Set[key].field = "extendedEPC"
      \/ /\ key = "TAGREADDATA_READFILTERTIMEOUT" /\ WriteItem = Config("READ_FILTER_TIMEOUT")
         /\ Set[key].field = "readFilterTimeout"
      \/ /\ key = "TAGREADDATA_ENABLEREADFILTER" /\ WriteItem = Config("ENABLE_READ_FILTER")
         /\ Set[key].field = "enableReadFiltering"
  BY <1>1 DEF SetFits
<1>3. WriteItem # NoItem /\ WriteItem \in DOMAIN module.items
  <2>1. WriteItem # NoItem
    BY <1>2, RealItems
  <2>2. QED
    BY <2>1, <1>1, Fielded DEF TypeInv, ModuleOK
<1>4. chosen \in DOMAIN code
  BY <1>1, <1>3 DEF Held
<1>5. value = Kept(chosen)
  <2>1. Set[key].how \in Keeping /\ key # "PROBEBAUDRATES"
    BY <1>2 DEF Keeping
  <2>2. QED
    BY <1>1, <2>1 DEF Held, InField
<1>6. DOMAIN Dropped = DOMAIN module.items
  BY DEF Dropped
<1>7. SentAgain => SentBack[WriteItem] = code[value]
  BY <1>3, <1>6 DEF SentBack
<1>8. Config("READ_FILTER_TIMEOUT") # Config("EXTENDED_EPC")
      /\ Config("ENABLE_READ_FILTER") # Config("EXTENDED_EPC")
  BY DEF Config
<1>9. CASE key = "TAGREADDATA_READFILTERTIMEOUT"
  <2>1. SentAgain /\ code = [v \in {"-1", "0", "a"} |-> IF v = "a" THEN "a" ELSE "0"]
    BY <1>2, <1>8, <1>9, DroppedCodes DEF SentAgain
  <2>2. value # "-1" /\ code[value] = code[chosen]
    BY <1>4, <1>5, <1>9, <2>1 DEF Kept
  <2>3. QED
    BY <1>2, <1>7, <1>9, <2>1, <2>2
<1>10. CASE key = "TAGREADDATA_ENABLEREADFILTER"
  <2>1. SentAgain
    BY <1>2, <1>8, <1>10 DEF SentAgain
  <2>2. QED
    BY <1>5, <1>7, <1>10, <2>1, KeptValue
<1>11. CASE key = "EXTENDEDEPC"
  <2>1. code = Flag("1", "0") /\ value = chosen
    <3>1. code = Flag("1", "0")
      <4>1. WriteItem = Config("EXTENDED_EPC")
        BY <1>2, <1>11
      <4>2. Codes(Config("EXTENDED_EPC"), model) = Flag("1", "0")
        BY DroppedCodes
      <4>3. QED
        BY <4>1, <4>2
    <3>2. value = chosen
      BY <1>5, <1>11, KeptValue
    <3>3. QED
      BY <3>1, <3>2
  <2>2. CASE chosen = "true"
    BY <1>2, <1>7, <1>11, <2>1, <2>2 DEF SentAgain
  <2>3. CASE chosen # "true"
    <3>1. chosen = "false" /\ code[chosen] = "0"
      BY <1>4, <2>1, <2>3 DEF Flag
    <3>2. ~SentAgain
      BY <1>2, <1>11, <2>1, <2>3 DEF SentAgain
    <3>3. SentBack[WriteItem] = "0"
      <4>1. SentBack = Dropped
        BY <3>2 DEF SentBack
      <4>2. Dropped[WriteItem] =
              CASE WriteItem = Config("EXTENDED_EPC") -> "0"
                [] WriteItem = Config("ENABLE_READ_FILTER") -> "1"
                [] WriteItem = Config("READ_FILTER_TIMEOUT") -> "0"
                [] OTHER -> module.items[WriteItem]
        BY <1>3 DEF Dropped
      <4>3. WriteItem = Config("EXTENDED_EPC")
        BY <1>2, <1>11
      <4>4. /\ WriteItem # Config("ENABLE_READ_FILTER")
            /\ WriteItem # Config("READ_FILTER_TIMEOUT")
        BY <4>3, <1>8
      <4>5. Dropped[WriteItem] = "0"
        BY <4>2, <4>3, <4>4
      <4>6. QED
        BY <4>1, <4>5
    <3>4. QED
      BY <1>11, <3>1, <3>3
  <2>4. QED
    BY <2>2, <2>3
<1>12. QED
  BY <1>2, <1>9, <1>10, <1>11

(* No step breaks the agreement of port and stage.                         *)
LEMMA LinkStep ==
  ASSUME Linked, [SettingNext]_settingVars
  PROVE  Linked'
<1> USE DEF settingVars, bits, wire, stageVars, ghosts, Linked
<1>1. CASE Connect \/ ProbeContact \/ ProbeTimesOut
  BY <1>1 DEF Connect, ProbeContact, ProbeTimesOut, GivesUp
<1>2. CASE ProbeStopsStream
  <2>1. stage = "probing" /\ stage' \in {"probing", "failed"}
    BY <1>2 DEF ProbeStopsStream, GivesUp
  <2>2. QED
    BY <2>1
<1>3. ASSUME NEW n, Booting(n), Advance PROVE Linked'
  BY <1>3 DEF Booting, Advance
<1>4. CASE BootProgram \/ BootPowerMode \/ BootBaudRate \/ BootParameters
  BY <1>3, <1>4 DEF BootProgram, BootPowerMode, BootBaudRate, BootParameters
<1>5. CASE BootTransport
  <2>1. Booting(3) /\ Advance
    BY Zenon, <1>5 DEF BootTransport
  <2>2. QED
    BY <1>3, <2>1
<1>6. CASE BootProduct \/ BootRegion \/ BootProtocol \/ BootAntennas \/ BootM5e \/ BootFilter
  BY <1>3, <1>6 DEF BootProduct, BootRegion, BootProtocol, BootAntennas, BootM5e, BootFilter
<1>7. CASE BootFails
  BY <1>7 DEF BootFails, GivesUp
<1>8. CASE BootInterrupted
  <2>1. stage' = "failed" \/ (stage = "booting" /\ stage' = stage /\ connected' = connected)
    BY <1>8 DEF BootInterrupted, GivesUp
  <2>2. QED
    BY <2>1
<1>9. CASE ParamGet \/ ParamSet \/ SetBaudRate \/ ChangeProtocol \/ SaveProfile
  <2>1. UNCHANGED stageVars
    BY <1>9 DEF ParamGet, ParamSet, SetBaudRate, ChangeProtocol, SaveProfile
  <2>2. QED
    BY <2>1
<1>10. CASE RestoreProfile
  <2>1. UNCHANGED stageVars \/ stage' = "failed"
    BY <1>10 DEF RestoreProfile
  <2>2. QED
    BY <2>1
<1>11. CASE FirmwareLoad
  <2>1. stage = "ready" /\ stage' \in {"booting", "failed"} /\ connected' = connected
    BY <1>11 DEF FirmwareLoad
  <2>2. QED
    BY <2>1
<1>12. CASE Reboot \/ RestartModule \/ Destroy
  BY <1>12 DEF Reboot, RestartModule, Destroy
<1>13. CASE UNCHANGED settingVars
  BY <1>13
<1>14. QED
  BY <1>1, <1>2, <1>4, <1>5, <1>6, <1>7, <1>8, <1>9, <1>10, <1>11, <1>12, <1>13 DEF SettingNext

(* A step that leaves the stages but those where a program can set and get *)
(* has dropped the value, or had none.                                     *)
LEMMA Forgotten ==
  ASSUME HeldInv, SettingNext,
         ~(ParamGet \/ ParamSet \/ SetBaudRate \/ ChangeProtocol \/ SaveProfile)
  PROVE  chosen' = "none"
<1> USE DEF stageVars, ghosts
<1>1. stage \notin {"closed", "ready"} => chosen = "none"
  BY DEF HeldInv, Held
<1>2. ASSUME NEW n, Booting(n), Advance PROVE chosen' = "none"
  BY <1>1, <1>2 DEF Booting, Advance
<1>3. CASE Connect \/ ProbeContact \/ ProbeTimesOut
  BY <1>1, <1>3 DEF Connect, ProbeContact, ProbeTimesOut
<1>4. CASE ProbeStopsStream
  BY <1>1, <1>4 DEF ProbeStopsStream
<1>5. CASE BootProgram \/ BootPowerMode \/ BootBaudRate \/ BootParameters
  BY <1>2, <1>5 DEF BootProgram, BootPowerMode, BootBaudRate, BootParameters
<1>6. CASE BootTransport
  <2>1. Booting(3) /\ Advance
    BY Zenon, <1>6 DEF BootTransport
  <2>2. QED
    BY <1>2, <2>1
<1>7. CASE BootProduct \/ BootRegion \/ BootProtocol \/ BootAntennas \/ BootM5e \/ BootFilter
  BY <1>2, <1>7 DEF BootProduct, BootRegion, BootProtocol, BootAntennas, BootM5e, BootFilter
<1>8. CASE BootFails \/ BootInterrupted
  BY <1>1, <1>8 DEF BootFails, BootInterrupted
<1>9. CASE RestoreProfile \/ FirmwareLoad \/ Reboot \/ RestartModule \/ Destroy
  BY <1>9 DEF RestoreProfile, FirmwareLoad, Reboot, RestartModule, Destroy
<1>10. QED
  BY <1>3, <1>4, <1>5, <1>6, <1>7, <1>8, <1>9 DEF SettingNext

(* What was set is held, and the get that follows answers it.              *)
LEMMA HeldStep ==
  ASSUME TypeInv, HeldInv, SetThenGet, [SettingNext]_settingVars
  PROVE  HeldInv' /\ SetThenGet'
<1> USE DEF settingVars, bits, wire, stageVars, ghosts
<1>a. Linked'
  BY LinkStep DEF HeldInv
<1>b. DOMAIN module = ModuleFields
  BY DEF TypeInv, ModuleOK
<1>c. ASSUME chosen' = "none" PROVE HeldInv' /\ SetThenGet'
  BY <1>a, <1>c DEF HeldInv, SetThenGet
<1>1. CASE ParamGet
  <2>1. /\ UNCHANGED <<fixed, stage, module, chosen>> /\ stage \in {"closed", "ready"}
    BY <1>1 DEF ParamGet
  <2>2. CASE NotFound
    <3>1. fields' = fields /\ last'.status = "NOT_FOUND"
      BY <1>1, <2>2 DEF ParamGet
    <3>2. QED
      BY <1>a, <2>1, <3>1 DEF HeldInv, Held, InField, ModuleHoldsSetting, SetThenGet, WriteItem,
                              Kept, fixed
  <2>3. CASE ~NotFound
    <3>1. PICK r \in GetResults(fields) :
            /\ fields' = r.fields
            /\ last' = [call |-> "get", value |-> r.value, status |-> r.status]
      BY <1>1, <2>3 DEF ParamGet
    <3>2. CASE chosen = "none"
      BY <1>c, <2>1, <3>2
    <3>3. CASE chosen # "none"
      <4>1. /\ r.status = "ok" /\ ~Lossy => Answers(r.value)
            /\ InField(r.fields, chosen)
        BY <3>3, GetHolds
      <4>2. Held'
        BY <2>1, <3>1, <3>3, <4>1 DEF HeldInv, Held, InField, ModuleHoldsSetting, WriteItem,
                                     Kept, fixed
      <4>3. Lossy' = Lossy /\ key' = key
        BY <2>1 DEF Lossy, WriteItem, fixed
      <4>4. SetThenGet'
        BY <2>1, <3>1, <4>1, <4>3 DEF SetThenGet, Answers
      <4>5. QED
        BY <1>a, <4>2, <4>4 DEF HeldInv
    <3>4. QED
      BY <3>2, <3>3
  <2>4. QED
    BY <2>2, <2>3
<1>2. CASE ParamSet
  <2>1. PICK v \in Values : \E r \in SetResults(v) : SetTo(v, r)
    BY <1>2 DEF ParamSet
  <2>2. PICK r \in SetResults(v) : SetTo(v, r)
    BY <2>1
  <2>3. /\ UNCHANGED <<fixed, stage, connected>> /\ stage \in {"closed", "ready"}
        /\ Set[key].how # "rate"
    BY <1>2 DEF ParamSet
  <2>4. /\ fields' = r.change.fields /\ module'.items = r.change.items
        /\ last'.call = "set"
        /\ \/ chosen' = "none"
           \/ /\ chosen' = v /\ r.change.status = "ok" /\ Set[key].how # "reset"
              /\ v \notin {"null", "default"}
    BY <1>b, <2>2 DEF SetTo, ModuleFields
  <2>5. CASE chosen' = "none"
    BY <1>c, <2>5
  <2>6. CASE chosen' # "none"
    <3>1. /\ chosen' = v /\ Set[key].how # "reset"
          /\ SetHeld(v, fields', module'.items)
      BY <2>3, <2>4, <2>6, SetHolds
    <3>2. stage = "ready" => connected
      BY DEF HeldInv, Linked
    <3>3. Held'
      BY <2>3, <3>1, <3>2 DEF SetHeld, Held, InField, ModuleHoldsSetting, WriteItem, Kept, fixed
    <3>4. QED
      BY <1>a, <2>4, <3>3 DEF HeldInv, SetThenGet
  <2>7. QED
    BY <2>5, <2>6
<1>3. CASE SetBaudRate
  <2>1. PICK v \in Rates : \E o \in IF connected THEN Outcomes ELSE {"ok"} :
          /\ last' = [call |-> "set", value |-> v, status |-> o]
          /\ fields' = IF o = "ok" THEN [fields EXCEPT !["baudRate"] = v] ELSE fields
          /\ chosen' = IF o = "ok" THEN v ELSE "none"
    BY <1>3 DEF SetBaudRate
  <2>2. CASE chosen' = "none"
    BY <1>c, <2>2
  <2>3. CASE chosen' # "none"
    <3>1. /\ chosen' = v /\ fields' = [fields EXCEPT !["baudRate"] = v] /\ last'.call = "set"
      BY <2>1, <2>3
    <3>2. /\ UNCHANGED <<fixed, stage>> /\ stage \in {"closed", "ready"} /\ Set[key].how = "rate"
      BY <1>3 DEF SetBaudRate
    <3>3. WriteItem = NoItem /\ Set[key].field = "baudRate" /\ key = "BAUDRATE"
      BY <3>2, KeyFits DEF SetFits, WriteItem, TypeInv
    <3>4. fields'["baudRate"] = v
      BY <3>1, Fielded DEF TypeInv, FieldsOK
    <3>5. Held'
      BY <3>1, <3>2, <3>3, <3>4 DEF Held, InField, ModuleHoldsSetting, WriteItem, Kept, fixed
    <3>6. QED
      BY <1>a, <3>1, <3>5 DEF HeldInv, SetThenGet
  <2>4. QED
    BY <2>2, <2>3
<1>4. CASE ChangeProtocol
  <2>1. /\ UNCHANGED <<fixed, stage>> /\ last'.call = "protocol" /\ Set[key].how = "send keep"
    BY <1>4 DEF ChangeProtocol
  <2>2. \/ chosen' = "none"
        \/ /\ module' = [module EXCEPT !.items = SentBack] /\ chosen' = chosen
           /\ fields' = IF /\ key = "TAGREADDATA_READFILTERTIMEOUT"
                           /\ fields["readFilterTimeout"] = "-1"
                        THEN [fields EXCEPT !["readFilterTimeout"] = "0"] ELSE fields
    BY <1>4 DEF ChangeProtocol, SentBack, Dropped
  <2>3. CASE chosen' = "none"
    BY <1>c, <2>3
  <2>4. CASE chosen' # "none"
    <3>1. chosen # "none" /\ chosen' = chosen /\ module' = [module EXCEPT !.items = SentBack]
      BY <2>2, <2>4
    <3>2. /\ SentBack[WriteItem] = Codes(WriteItem, model)[chosen]
          /\ fields' = fields
      BY <2>1, <2>2, <2>4, <3>1, SentBackHolds
    <3>3. module'.items[WriteItem] = Codes(WriteItem, model)[chosen]
      BY <1>b, <3>1, <3>2 DEF ModuleFields
    <3>4. Held'
      BY <2>1, <3>1, <3>2, <3>3 DEF HeldInv, Held, InField, ModuleHoldsSetting, WriteItem,
                                    Kept, fixed
    <3>5. QED
      BY <1>a, <2>1, <3>4 DEF HeldInv, SetThenGet
  <2>5. QED
    BY <2>3, <2>4
<1>5. CASE SaveProfile
  <2>1. UNCHANGED <<fixed, stage, fields>> /\ last'.call = "save"
    BY <1>5 DEF SaveProfile, ProfileDone
  <2>2. chosen' = "none" \/ (chosen' = chosen /\ module'.items = module.items)
    <3>1. CASE module' = [module EXCEPT !.saved = [rate |-> module.rate, items |-> module.items]]
      BY <1>5, <1>b, <3>1 DEF SaveProfile, ModuleFields
    <3>2. CASE Holds(Config("ENABLE_READ_FILTER"))
      BY <1>5, <1>b, <3>2 DEF SaveProfile, ModuleFields
    <3>3. CASE ~Holds(Config("ENABLE_READ_FILTER"))
      <4>1. Written1(Config("ENABLE_READ_FILTER"), "0", "ok") = module.items
        BY <3>3, WrittenParts DEF Holds
      <4>2. QED
        BY <1>5, <1>b, <3>3, <4>1 DEF SaveProfile, ModuleFields
    <3>4. QED
      BY <3>2, <3>3
  <2>3. CASE chosen' = "none"
    BY <1>c, <2>3
  <2>4. CASE chosen' # "none"
    <3>1. Held'
      BY <2>1, <2>2, <2>4 DEF HeldInv, Held, InField, ModuleHoldsSetting, WriteItem, Kept, fixed
    <3>2. QED
      BY <1>a, <2>1, <3>1 DEF HeldInv, SetThenGet
  <2>5. QED
    BY <2>3, <2>4
<1>6. CASE UNCHANGED settingVars
  BY <1>6 DEF HeldInv, Linked, Held, InField, ModuleHoldsSetting, SetThenGet, Lossy, WriteItem,
              Kept, fixed
<1>7. QED
  BY <1>c, <1>1, <1>2, <1>3, <1>4, <1>5, <1>6, Forgotten

(* Both hold in every state.                                               *)
LEMMA HeldInvariant == SettingSpec => [](HeldInv /\ SetThenGet)
<1>1. SettingInit => TypeInv /\ HeldInv /\ SetThenGet
  BY TypeInit DEF SettingInit, HeldInv, Linked, SetThenGet, Idle
<1>2. TypeInv /\ [SettingNext]_settingVars => TypeInv'
  BY TypeStep
<1>3. TypeInv /\ HeldInv /\ SetThenGet /\ [SettingNext]_settingVars => HeldInv' /\ SetThenGet'
  BY HeldStep
<1>4. QED
  BY <1>1, <1>2, <1>3, PTL DEF SettingSpec

(* As long as nothing failed since a parameter was set, the module has the *)
(* value that the program set, on every model and for every parameter that *)
(* TMR_SR_paramSet sends: a change of protocol sends it again.             *)
THEOREM ModuleHolds == SettingSpec => []ModuleHoldsSetting
<1>1. HeldInv => ModuleHoldsSetting
  BY DEF HeldInv, Held, ModuleHoldsSetting
<1>2. QED
  BY <1>1, HeldInvariant, PTL

(* What a program set last is what it gets, for every parameter that both  *)
(* switches have.                                                          *)
THEOREM GetCorrect == SettingSpec => []SetThenGet
BY HeldInvariant, PTL

-------------------------------------------------------------------------------

(* A value that is refused.                                                  *)

(* The answers of a set that refuse a value.                               *)
Refusals == {"refused", "READONLY", "UNSUPPORTED", "ILLEGAL_VALUE", "NOT_FOUND"}

(* A set that was refused has not sent anything; it has left the fields, or*)
(* they are not what a get answers from.                                   *)
Spared(fs) == \/ fs = fields
              \/ Get[key].how = "ask"
              \/ Get[key].how = "ask keep connected" /\ connected

(* The get before a set (the bits' test whether the parameter is there)    *)
(* leaves the fields, or what a get does not answer from.                  *)
LEMMA ProbeSpares ==
  ASSUME Chosen, key \notin Exempt, NEW r \in GetResults(fields)
  PROVE  r.fields = fields \/ (Get[key].how = "ask keep connected" /\ connected)
<1> DEFINE G == Get[key]
           read == Reading(G.item)
<1>1. GetForm(fields, r)
  BY GetForms
<1>2. G.how \notin {"shorten", "ask keep", "ask if none"}
  BY KeyFits DEF GetFits, Exempt
<1> HIDE DEF read
<1> DEFINE Asked == G.how = "ask keep connected" /\ connected
<1>3. \/ r = Result(G.elsewhere, "none", fields)
      \/ r = Result("ok", fields[G.field], fields)
      \/ r = Result("ok", read, fields)
      \/ r = Result("ok", "false", fields)
      \/ \E o \in Outcomes : r = Result(o, "none", fields)
      \/ Asked
  <2>1. CASE G.how = "ask keep connected"
    <3>1. CASE connected
      BY <2>1, <3>1
    <3>2. CASE ~connected
      BY <1>1, <2>1, <3>2 DEF GetForm
    <3>3. QED
      BY <3>1, <3>2
  <2>2. CASE G.how # "ask keep connected"
    BY <1>1, <1>2, <2>2 DEF GetForm, read
  <2>3. QED
    BY <2>1, <2>2
<1>4. \A s, v : r = Result(s, v, fields) => r.fields = fields
  BY ResultParts
<1>5. QED
  BY <1>3, <1>4

(* So does a set that is refused as a whole.                               *)
LEMMA RefusedSpares ==
  ASSUME Chosen, key \notin Exempt, Set[key].how # "rate", NEW v, NEW r \in SetResults(v),
         r.change.status \in Refusals
  PROVE  r.change.items = module.items /\ Spared(r.change.fields)
<1> DEFINE S == Set[key]
           c == r.change
<1>1. PICK fs : SetGoes(v, fs, r)
  BY SetGoesSo
<1>2. fs = fields \/ (Get[key].how = "ask keep connected" /\ connected)
  BY <1>1, ProbeSpares DEF SetGoes
<1>3. /\ S.how \notin {"keep send", "keep send connected", "keep send map", "pins", "lbt", "rate"}
      /\ S.how = "bap" => Get[key].how = "ask"
      /\ S.how \in SetHows
  BY KeyFits DEF SetFits, GetFits
<1>4. \A s, f, i : c = Change(s, f, i) => s \in Refusals /\ c.fields = f /\ c.items = i
  BY ChangeParts
<1>5. \A s \in Refusals : ~Arrived(s) /\ s # "ok"
  BY DEF Refusals, Arrived
<1> HIDE DEF c
<1>6. c.items = module.items /\ (c.fields = fs \/ S.how = "bap")
  <2>1. CASE \/ c = Change("NOT_FOUND", fs, module.items)
             \/ c = Change("ILLEGAL_VALUE", fs, module.items)
    BY <1>4, <2>1
  <2>2. CASE SetForm(v, fs, c)
    <3>1. CASE model \notin S.models /\ c = Change(S.elsewhere, fs, module.items)
      BY <1>4, <3>1
    <3>2. CASE S.how \in {"READONLY", "keep"}
      BY <1>4, <1>5, <2>2, <3>2 DEF SetForm
    <3>3. CASE S.how \in {"send", "merge"}
      BY <1>4, <1>5, <2>2, <3>3 DEF SetForm
    <3>4. CASE S.how \in {"send keep", "send keep connected"}
      BY <1>4, <1>5, <2>2, <3>4 DEF SetForm
    <3>5. CASE S.how = "bap"
      BY <1>4, <1>5, <2>2, <3>5 DEF SetForm
    <3>6. CASE S.how = "reset"
      BY <1>4, <1>5, <2>2, <3>6 DEF SetForm
    <3>7. QED
      BY <1>3, <3>1, <3>2, <3>3, <3>4, <3>5, <3>6 DEF SetHows
  <2>3. QED
    BY <1>1, <2>1, <2>2 DEF SetGoes, c
<1>7. QED
  BY <1>2, <1>3, <1>6 DEF Spared, c

(* A get then answers what it would have answered before.                  *)
LEMMA SeenSame ==
  ASSUME UNCHANGED <<key, model, connected>>, connected \in BOOLEAN,
         module'.items = module.items, Spared(fields')
  PROVE  Seen' = Seen
<1> DEFINE G == Get[key]
<1>1. /\ Reading(G.item)' = Reading(G.item) /\ Get[key]' = G
      /\ model' = model /\ connected' = connected
  BY DEF Reading
<1>0. /\ (G.how)' = G.how /\ (G.models)' = G.models
      /\ (G.field)' = G.field /\ (G.elsewhere)' = G.elsewhere
  OBVIOUS
<1>2. CASE fields' = fields
  BY <1>0, <1>1, <1>2 DEF Seen
<1>3. CASE G.how = "ask" \/ (G.how = "ask keep connected" /\ connected)
  <2>1. Seen = IF model \notin G.models THEN G.elsewhere ELSE Reading(G.item)
    BY <1>3 DEF Seen
  <2>2. Seen' = IF model \notin G.models THEN G.elsewhere ELSE Reading(G.item)
    <3>1. CASE model \notin G.models
      BY <1>1, <3>1 DEF Seen
    <3>2. CASE model \in G.models /\ G.how = "ask"
      BY <1>1, <3>2 DEF Seen
    <3>3. CASE model \in G.models /\ G.how = "ask keep connected" /\ connected
      <4>1. model' \in Get[key'].models /\ Get[key'].how = "ask keep connected"
        BY <1>1, <3>3
      <4>0. connected'
        <5>1. connected = TRUE
          BY <3>3
        <5>2. connected' = TRUE
          BY <1>1, <5>1
        <5>3. QED
          BY <5>2
      <4>2. Seen' = Reading(Get[key].item)'
        BY <4>0, <4>1 DEF Seen
      <4>3. QED
        BY <1>1, <3>3, <4>2
    <3>4. QED
      BY <1>3, <3>1, <3>2, <3>3
  <2>3. QED
    BY <2>1, <2>2
<1>4. QED
  BY <1>2, <1>3 DEF Spared

(* A boot begins with a call of its own.                                   *)
Called == stage \in {"probing", "booting"} => last.call # "set"

(* No step forgets it, and a step that sets is one of the two calls that   *)
(* set.                                                                    *)
LEMMA CalledStep ==
  ASSUME Called, [SettingNext]_settingVars
  PROVE  /\ Called'
         /\ UNCHANGED settingVars \/ ParamSet \/ SetBaudRate \/ last'.call # "set"
<1> USE DEF settingVars, bits, wire, stageVars, ghosts, Called, Idle
<1> DEFINE Other == Called' /\ last'.call # "set"
<1>1. CASE Connect \/ RestartModule
  BY <1>1 DEF Connect, RestartModule
<1>2. CASE ProbeContact
  BY <1>2 DEF ProbeContact
<1>3. ASSUME NEW s, GivesUp(s) PROVE Other
  BY <1>3 DEF GivesUp
<1>4. CASE ProbeTimesOut
  <2>1. GivesUp("timeout")
    BY <1>4 DEF ProbeTimesOut
  <2>2. QED
    BY <1>3, <2>1
<1>5. CASE ProbeStopsStream
  <2>1. stage = "probing" /\ (GivesUp("timeout") \/ UNCHANGED <<stageVars, last>>)
    BY <1>5 DEF ProbeStopsStream
  <2>2. QED
    BY <1>3, <2>1
<1>6. ASSUME NEW n, Booting(n), Advance PROVE Other
  BY <1>6 DEF Booting, Advance
<1>7. CASE BootProgram \/ BootPowerMode \/ BootBaudRate \/ BootParameters
  BY <1>6, <1>7 DEF BootProgram, BootPowerMode, BootBaudRate, BootParameters
<1>8. CASE BootTransport
  <2>1. Booting(3) /\ Advance
    BY Zenon, <1>8 DEF BootTransport
  <2>2. QED
    BY <1>6, <2>1
<1>9. CASE BootProduct \/ BootRegion \/ BootProtocol \/ BootAntennas \/ BootM5e \/ BootFilter
  BY <1>6, <1>9 DEF BootProduct, BootRegion, BootProtocol, BootAntennas, BootM5e, BootFilter
<1>10. CASE BootFails
  BY <1>3, <1>10 DEF BootFails
<1>11. CASE BootInterrupted
  <2>1. \/ \E s : GivesUp(s)
        \/ stage = "booting" /\ last' = last
    BY <1>11 DEF BootInterrupted
  <2>2. QED
    BY <1>3, <2>1
<1>12. CASE ParamSet \/ SetBaudRate
  <2>1. stage' \in {"closed", "ready"}
    BY <1>12 DEF ParamSet, SetBaudRate
  <2>2. QED
    BY <1>12, <2>1
<1>13. CASE ParamGet
  <2>1. last'.call = "get"
    BY <1>13 DEF ParamGet
  <2>2. QED
    BY <2>1
<1>14. CASE ChangeProtocol
  <2>1. last'.call = "protocol"
    BY <1>14 DEF ChangeProtocol
  <2>2. QED
    BY <2>1
<1>15. CASE SaveProfile \/ RestoreProfile
  <2>1. last'.call \in {"save", "restore"}
    <3>1. CASE SaveProfile
      BY <3>1 DEF SaveProfile, ProfileDone
    <3>2. CASE RestoreProfile
      <4>1. \/ ProfileDone("restore")
            \/ last' = [call |-> "restore", value |-> "none", status |-> "timeout"]
        BY <3>2 DEF RestoreProfile
      <4>2. QED
        BY <4>1 DEF ProfileDone
    <3>3. QED
      BY <1>15, <3>1, <3>2
  <2>2. QED
    BY <2>1
<1>16. CASE FirmwareLoad \/ Reboot \/ Destroy
  <2>1. last'.call \in {"load", "reboot", "destroy"}
    BY <1>16 DEF FirmwareLoad, Reboot, Destroy
  <2>2. QED
    BY <2>1
<1>17. CASE UNCHANGED settingVars
  BY <1>17
<1>18. QED
  BY <1>1, <1>2, <1>4, <1>5, <1>7, <1>8, <1>9, <1>10, <1>11, <1>12, <1>13, <1>14, <1>15, <1>16,
     <1>17 DEF SettingNext

(* A call that is refused leaves what a get answers.                       *)
LEMMA RefusedStep ==
  ASSUME TypeInv, ParamSet \/ SetBaudRate, last'.status \in Refusals, key \notin Exempt
  PROVE  Seen' = Seen
<1> USE DEF stageVars
<1>a. DOMAIN module = ModuleFields /\ Chosen /\ connected \in BOOLEAN
  BY DEF TypeInv, ModuleOK, Kinds
<1>1. CASE ParamSet
  <2>1. PICK v \in Values : \E r \in SetResults(v) : SetTo(v, r)
    BY <1>1 DEF ParamSet
  <2>2. PICK r \in SetResults(v) : SetTo(v, r)
    BY <2>1
  <2>3. /\ UNCHANGED <<key, model, connected>> /\ Set[key].how # "rate"
    BY <1>1 DEF ParamSet, fixed
  <2>4. /\ fields' = r.change.fields /\ module'.items = r.change.items
        /\ last'.status = r.change.status
    BY <1>a, <2>2 DEF SetTo, ModuleFields
  <2>5. module'.items = module.items /\ Spared(fields')
    BY <1>a, <2>3, <2>4, RefusedSpares
  <2>6. QED
    BY <1>a, <2>3, <2>5, SeenSame
<1>2. CASE SetBaudRate
  <2>1. /\ UNCHANGED <<key, model, connected>>
        /\ module'.items = module.items /\ (last'.status = "ok" \/ fields' = fields)
    BY <1>2, <1>a DEF SetBaudRate, fixed, ModuleFields
  <2>2. Spared(fields')
    BY <2>1 DEF Spared, Refusals
  <2>3. QED
    BY <1>a, <2>1, <2>2, SeenSame
<1>3. QED
  BY <1>1, <1>2

(* A value that is refused is not taken over: whatever TMR_SR_paramSet was *)
(* given, and whether or not it had to ask for the parameter first, a get  *)
(* would answer the same after it.                                         *)
THEOREM RefusalCorrect == SettingSpec => RefusedKeepsValue
<1>1. SettingInit => TypeInv /\ Called
  BY TypeInit DEF SettingInit, Called
<1>2. TypeInv /\ [SettingNext]_settingVars => TypeInv'
  BY TypeStep
<1>3. Called /\ [SettingNext]_settingVars => Called'
  BY CalledStep
<1> DEFINE Kept1 == last'.call = "set" /\ last'.status \in {"refused", "READONLY", "UNSUPPORTED",
                                             "ILLEGAL_VALUE", "NOT_FOUND"}
       /\ key \notin {"REGION_ID", "TAGOP_ANTENNA", "TAGOP_PROTOCOL", "GPIO_INPUTLIST",
                      "GPIO_OUTPUTLIST", "REGION_LBT_ENABLE", "PROBEBAUDRATES",
                      "ANTENNA_PORTSWITCHGPOS"}
     => Seen' = Seen
<1>4. TypeInv /\ Called /\ [SettingNext]_settingVars => [Kept1]_settingVars
  BY CalledStep, RefusedStep DEF Refusals, Exempt
<1>5. QED
  BY <1>1, <1>2, <1>3, <1>4, PTL DEF SettingSpec, RefusedKeepsValue

-------------------------------------------------------------------------------

(* The tag operations.                                                     *)

(* What can become of the data of a tag (HowParsed).                       *)
HowParsedValues == {"split", "whole", "garbled", "none"}

(* What TagTypeOK rests on: counts are counts.                             *)
TagTypeInv ==
  /\ TagTypeOK
  /\ found \in [left : Nat, data : {"banks", "plain", "none"}]
  /\ parsed \in Seq(HowParsedValues)

(* The reader's password, the operation's structure and the tags of a      *)
(* search stay in their types, whatever is executed or searched.           *)
THEOREM TagTypeCorrect == TagSpec => []TagTypeOK
<1> USE MaxTagsAssumption DEF opVars, bankVars, passwordVars
<1>1. TagInit => TagTypeInv
  <2> SUFFICES ASSUME TagInit PROVE TagTypeInv
    OBVIOUS
  <2>1. /\ found \in [left : Nat, data : {"banks", "plain", "none"}] /\ found.left = 0
        /\ parsed \in Seq(HowParsedValues) /\ Len(parsed) = 0
    BY DEF TagInit
  <2>2. QED
    <3>1. found.left + Len(parsed) <= MaxTags
      BY <2>1
    <3>2. op = NoOp
      BY DEF TagInit
    <3>3. /\ readerType \in {"serial", "llrp"}
          /\ gen2AccessPassword \in Passwords \cup {"zero", "own"}
          /\ asked \in Passwords \cup {"zero"}
          /\ gen2AllMemoryBankEnabled \in BOOLEAN /\ borrowed \in BOOLEAN
      BY DEF TagInit
    <3>4. QED
      BY <2>1, <3>1, <3>2, <3>3, Zenon DEF TagTypeInv, TagTypeOK
<1>2. TagTypeInv /\ [TagNext]_tagVars => TagTypeInv'
  <2> SUFFICES ASSUME TagTypeInv, [TagNext]_tagVars PROVE TagTypeInv'
    OBVIOUS
  <2>1. CASE SetAccessPassword
    BY <2>1 DEF SetAccessPassword, TagTypeInv, TagTypeOK
  <2>2. CASE InitTagOp
    <3>0. PICK o \in OpName : \E c \in Filler[o].chips, all \in BOOLEAN :
            /\ op' = [name |-> o, chip |-> c, allBanks |-> all]
            /\ memory' = [f \in Fields[o] |-> IF f \in Filler[o].sets THEN "own"
                                                                      ELSE "leftover"]
            /\ UNCHANGED <<readerType, passwordVars, bankVars>>
      BY <2>2 DEF InitTagOp
    <3>1. PICK c \in Filler[o].chips, all \in BOOLEAN :
            /\ op' = [name |-> o, chip |-> c, allBanks |-> all]
            /\ memory' = [f \in Fields[o] |-> IF f \in Filler[o].sets THEN "own"
                                                                      ELSE "leftover"]
            /\ UNCHANGED <<readerType, passwordVars, bankVars>>
      BY <3>0
    <3>2. op'.name = o /\ DOMAIN memory' = Fields[o]
      BY <3>1
    <3>3. QED
      BY <3>1, <3>2 DEF TagTypeInv, TagTypeOK
  <2>3. CASE ExecuteTagOp
    BY <2>3 DEF ExecuteTagOp, TagTypeInv, TagTypeOK
  <2>4. CASE SearchWithTagOp
    <3>1. CASE RefusedInSearch
      BY <2>4, <3>1 DEF SearchWithTagOp, TagTypeInv, TagTypeOK
    <3>2. CASE ~RefusedInSearch
      <4>1. PICK n \in 0..MaxTags : found' = [left |-> n, data |-> DataOf(op)]
        BY <2>4, <3>2 DEF SearchWithTagOp
      <4>2. DataOf(op) \in {"banks", "plain", "none"}
        BY DEF DataOf
      <4>3. /\ parsed' = <<>> /\ UNCHANGED <<readerType, opVars, asked>>
            /\ gen2AllMemoryBankEnabled' \in BOOLEAN /\ borrowed' \in BOOLEAN
            /\ gen2AccessPassword' \in {gen2AccessPassword, "own"}
        BY <2>4, <3>2 DEF SearchWithTagOp, TagTypeInv, TagTypeOK
      <4>4. QED
        BY <4>1, <4>2, <4>3 DEF TagTypeInv, TagTypeOK
    <3>3. QED
      BY <3>1, <3>2
  <2>5. CASE ParseTag
    <3>1. HowParsed \in HowParsedValues
      <4>1. CASE gen2AllMemoryBankEnabled
        BY <4>1 DEF HowParsed, HowParsedValues
      <4>2. CASE ~gen2AllMemoryBankEnabled
        BY <4>2 DEF HowParsed, HowParsedValues
      <4>3. QED
        BY <4>1, <4>2
    <3>2. /\ found' \in [left : Nat, data : {"banks", "plain", "none"}]
          /\ found'.left = found.left - 1
      BY <2>5 DEF ParseTag, TagTypeInv
    <3>3. parsed' \in Seq(HowParsedValues) /\ Len(parsed') = Len(parsed) + 1
      <4>1. parsed \in Seq(HowParsedValues) /\ HowParsed \in HowParsedValues
        BY <3>1 DEF TagTypeInv
      <4>2. parsed' = Append(parsed, HowParsed)
        BY <2>5 DEF ParseTag
      <4>3. QED
        BY <4>1, <4>2
    <3>4. found.left + Len(parsed) <= MaxTags /\ found.left \in Nat /\ Len(parsed) \in Nat
      BY DEF TagTypeInv, TagTypeOK
    <3>5. found'.left + Len(parsed') <= MaxTags
      BY <3>2, <3>3, <3>4
    <3>6. /\ UNCHANGED <<readerType, opVars, passwordVars>>
          /\ gen2AllMemoryBankEnabled' \in BOOLEAN
      BY <2>5 DEF ParseTag
    <3>7. QED
      BY <3>2, <3>3, <3>5, <3>6 DEF TagTypeInv, TagTypeOK
  <2>6. CASE AddAccessSpec
    BY <2>6 DEF AddAccessSpec, TagTypeInv, TagTypeOK
  <2>7. CASE TakeReport
    BY <2>7 DEF TakeReport, TagTypeInv, TagTypeOK
  <2>8. CASE UNCHANGED tagVars
    BY <2>8 DEF tagVars, TagTypeInv, TagTypeOK
  <2>9. QED
    BY <2>1, <2>2, <2>3, <2>4, <2>5, <2>6, <2>7, <2>8 DEF TagNext
<1>3. TagTypeInv => TagTypeOK
  BY DEF TagTypeInv
<1>4. QED
  BY <1>1, <1>2, <1>3, PTL DEF TagSpec

-------------------------------------------------------------------------------
(* A message selects with the reader's setting, with the operation's own   *)
(* password or with none.                                                  *)
LEMMA SelectionFacts ==
  ASSUME NEW select
  PROVE  SelectionPassword(select) \in {gen2AccessPassword, "own", "none"}
BY DEF SelectionPassword

(* The elements of a sequence that is two pairs.                           *)
LEMMA TwoPairs ==
  ASSUME NEW a, NEW b, NEW c, NEW d
  PROVE  LET s == <<a, b>> \o <<c, d>>
         IN  /\ Len(s) = 4
             /\ s[1] = a /\ s[2] = b /\ s[3] = c /\ s[4] = d
<1> DEFINE S == {a, b, c, d}
<1>1. <<a, b>> \in Seq(S) /\ <<c, d>> \in Seq(S)
  OBVIOUS
<1>2. QED
  BY <1>1

(* The messages of an embedded operation: one head and one command, or two *)
(* of each.                                                                *)
LEMMA EmbeddedFacts ==
  ASSUME ~Borrows
  PROVE  \A k \in 1..Len(Embedded) :
           Embedded[k].select \in {gen2AccessPassword, "own", "none"}
<1> DEFINE Selects(o) == SelectionPassword(Embed[o].select)
           Inner(o) == [Message(o, Builder[o].formals, Embed[o]) EXCEPT !.select = "none"]
           Two(o) == <<SearchHead(Selects(o)), Inner(o)>>
<1>1. ASSUME NEW o PROVE Inner(o).select = "none"
  BY DEF Message
<1>2. ASSUME NEW o
      PROVE SearchHead(Selects(o)).select \in {gen2AccessPassword, "own", "none"}
  BY SelectionFacts DEF SearchHead
<1>3. CASE op.name = "GetMeasurementSetup"
  <2>1. Embedded = Two(op.name) \o Two("GetLogState")
    BY <1>3 DEF Embedded
  <2> HIDE DEF Inner, Selects
  <2>2. /\ Len(Embedded) = 4
        /\ Embedded[1] = SearchHead(Selects(op.name)) /\ Embedded[2] = Inner(op.name)
        /\ Embedded[3] = SearchHead(Selects("GetLogState"))
        /\ Embedded[4] = Inner("GetLogState")
    BY <2>1, TwoPairs
  <2>3. QED
    BY <2>2, <1>1, <1>2
<1>4. CASE op.name # "GetMeasurementSetup"
  <2>1. Embedded = Two(op.name)
    BY <1>4 DEF Embedded
  <2> HIDE DEF Inner, Selects
  <2>2. QED
    BY <2>1, <1>1, <1>2
<1>5. QED
  BY <1>3, <1>4

(* Whatever was executed in between, a tag is selected with the password   *)
(* that paramSet was given last, unless a secure read has put its own into *)
(* the setting since.                                                      *)
THEOREM PasswordCorrect == TagSpec => []PasswordAsAsked
<1> USE DEF opVars, bankVars, passwordVars
<1>1. TagInit => PasswordAsAsked
  BY DEF TagInit, PasswordAsAsked
<1>2. PasswordAsAsked /\ [TagNext]_tagVars => PasswordAsAsked'
  <2> SUFFICES ASSUME PasswordAsAsked, [TagNext]_tagVars, ~borrowed'
               PROVE  /\ gen2AccessPassword' = asked'
                      /\ \A k \in 1..Len(sent') : sent'[k].select \in {asked', "own", "none"}
    BY DEF PasswordAsAsked
  <2>1. CASE SetAccessPassword
    BY <2>1 DEF SetAccessPassword
  <2>2. CASE InitTagOp
    <3>1. sent' = <<>> /\ UNCHANGED passwordVars
      BY <2>2 DEF InitTagOp
    <3>2. QED
      BY <3>1 DEF PasswordAsAsked
  <2>3. CASE ExecuteTagOp
    <3>1. UNCHANGED passwordVars
      BY <2>3 DEF ExecuteTagOp
    <3>2. sent' \in {<<>>, <<Message(op.name, DirectFormals(op.name), Execute[op.name])>>}
      BY <2>3 DEF ExecuteTagOp
    <3>3. Message(op.name, DirectFormals(op.name), Execute[op.name]).select
            \in {gen2AccessPassword, "own", "none"}
      BY SelectionFacts DEF Message
    <3>4. QED
      BY <3>1, <3>2, <3>3 DEF PasswordAsAsked
  <2>4. CASE SearchWithTagOp
    <3>1. CASE RefusedInSearch
      BY <2>4, <3>1 DEF SearchWithTagOp, PasswordAsAsked
    <3>2. CASE ~RefusedInSearch
      <4>1. sent' = Embedded /\ asked' = asked /\ ~borrowed /\ ~Borrows
        BY <2>4, <3>2 DEF SearchWithTagOp
      <4>2. gen2AccessPassword' = gen2AccessPassword
        BY <2>4, <3>2, <4>1 DEF SearchWithTagOp
      <4>3. QED
        BY <4>1, <4>2, EmbeddedFacts DEF PasswordAsAsked
    <3>3. QED
      BY <3>1, <3>2
  <2>5. CASE ParseTag
    BY <2>5 DEF ParseTag, PasswordAsAsked
  <2>6. CASE AddAccessSpec
    <3>1. UNCHANGED passwordVars
      BY <2>6 DEF AddAccessSpec
    <3>2. sent' = <<>> \/ \E locks : sent' = <<AccessSpec(op.name, locks)>>
      BY <2>6 DEF AddAccessSpec
    <3>3. ASSUME NEW locks
          PROVE AccessSpec(op.name, locks).select \in {gen2AccessPassword, "own", "none"}
      BY SelectionFacts DEF AccessSpec
    <3>4. QED
      BY <3>1, <3>2, <3>3 DEF PasswordAsAsked
  <2>7. CASE TakeReport
    BY <2>7 DEF TakeReport, PasswordAsAsked
  <2>8. CASE UNCHANGED tagVars
    BY <2>8 DEF tagVars, PasswordAsAsked
  <2>9. QED
    BY <2>1, <2>2, <2>3, <2>4, <2>5, <2>6, <2>7, <2>8 DEF TagNext
<1>3. QED
  BY <1>1, <1>2, PTL DEF TagSpec

-------------------------------------------------------------------------------
(* The tables of the tag operations: what an answer and an LLRP result     *)
(* say.                                                                    *)

(* The operations whose answer has data, other than those that an LLRP     *)
(* reader does not execute.                                                *)
AllData == DataA \cup DataB \cup DataC \cup DataIDS \cup DataIAVA \cup DataIAVB
SerialOnly == {"SecureReadData", "UntraceableTam1", "UntraceableAccess", "AuthenticateTam1",
               "AuthenticateTam2", "ReadBufferTam1", "ReadBufferTam2", "FullPass",
               "G0PAAuth", "ReadSec", "WriteSec", "GetTokenId"}

(* What a row of Builder says of its answer.                               *)
RowAnswers(o, row) ==
  row.answer # 0 =>
    /\ row.code = "WRITE_TAG_SPECIFIC" => row.answer = 5 + Len(row.head)
    /\ o \in AllData \cup SerialOnly \cup {"FifoWrite"}

Answering(f) == \A o \in DOMAIN f : RowAnswers(o, f[o])

(* A row whose answer has no data.                                         *)
LEMMA NoData ==
  ASSUME NEW o, NEW code, NEW head, NEW formals, NEW body
  PROVE  RowAnswers(o, Built(code, head, formals, body, 0))
BY DEF RowAnswers, Built

(* Data behind a head of three or four bytes.                              *)
LEMMA DataBehindHead ==
  ASSUME NEW o, o \in AllData \cup SerialOnly \cup {"FifoWrite"},
         NEW a, NEW b, NEW c, NEW d, NEW formals, NEW body
  PROVE  /\ RowAnswers(o, Specific(<<a, b, c>>, formals, body, 8))
         /\ RowAnswers(o, Specific(<<a, b, c, d>>, formals, body, 9))
<1>1. ASSUME NEW row, NEW head, row.head = head, row.answer = 5 + Len(head)
      PROVE  RowAnswers(o, row)
  BY <1>1 DEF RowAnswers
<1>2. 8 = 5 + Len(<<a, b, c>>) /\ 9 = 5 + Len(<<a, b, c, d>>)
  OBVIOUS
<1>3. ASSUME NEW head, NEW answer
      PROVE  /\ Specific(head, formals, body, answer).head = head
             /\ Specific(head, formals, body, answer).answer = answer
  BY DEF Specific, Built
<1>4. RowAnswers(o, Specific(<<a, b, c>>, formals, body, 8))
  <2>1. PICK head : head = <<a, b, c>>
    OBVIOUS
  <2>2. 8 = 5 + Len(head)
    BY <1>2, <2>1
  <2>3. PICK row : row = Specific(head, formals, body, 8)
    OBVIOUS
  <2>4. row.head = head /\ row.answer = 8
    BY <1>3, <2>3
  <2>5. RowAnswers(o, row)
    BY <1>1, <2>2, <2>4
  <2>6. QED
    BY <2>1, <2>3, <2>5
<1>5. RowAnswers(o, Specific(<<a, b, c, d>>, formals, body, 9))
  <2>1. PICK head : head = <<a, b, c, d>>
    OBVIOUS
  <2>2. 9 = 5 + Len(head)
    BY <1>2, <2>1
  <2>3. PICK row : row = Specific(head, formals, body, 9)
    OBVIOUS
  <2>4. row.head = head /\ row.answer = 9
    BY <1>3, <2>3
  <2>5. RowAnswers(o, row)
    BY <1>1, <2>2, <2>4
  <2>6. QED
    BY <2>1, <2>3, <2>5
<1>6. QED
  BY <1>4, <1>5

(* Tables put together.                                                    *)
LEMMA AnsweringJoin ==
  ASSUME NEW f, NEW g, Answering(f), Answering(g)
  PROVE  Answering(f ++ g)
BY DEF Answering, ++

(* Every command's answer is taken from behind its echo.                   *)
LEMMA BuilderAnswers == Answering(Builder)
<1> USE DEF Answering
<1>1. Answering(BuildStandard)
  BY NoData DEF BuildStandard, Specific
<1>2. Answering(BuildISO)
  BY DEF BuildISO, Built, RowAnswers, AllData, DataIAVB
<1>3. Answering(BuildHiggs)
  BY NoData, AnsweringJoin DEF BuildHiggs, BuildHiggs2, BuildHiggs3, Specific
<1>4. Answering(BuildNXP)
  <2>1. Answering(BuildNXPA)
    BY NoData DEF BuildNXPA, InOrder, Specific
  <2>2. Answering(BuildNXPB)
    <3>1. {"EASAlarm", "Calibrate"} \subseteq AllData
      BY DEF AllData, DataA, DataB
    <3>2. RowAnswers("EASAlarm", BuildNXPB["EASAlarm"])
      BY <3>1, DataBehindHead, Zenon DEF BuildNXPB, InOrder
    <3>3. RowAnswers("Calibrate", BuildNXPB["Calibrate"])
      BY <3>1, DataBehindHead, Zenon DEF BuildNXPB, InOrder
    <3>4. QED
      BY <3>2, <3>3 DEF BuildNXPB
  <2>3. Answering(BuildNXPC)
    <3>1. {"ChangeConfig"} \subseteq AllData
      BY DEF AllData, DataB
    <3>2. RowAnswers("ChangeConfig", BuildNXPC["ChangeConfig"])
      BY <3>1, DataBehindHead, Zenon DEF BuildNXPC, InOrder
    <3>3. QED
      BY <3>2 DEF BuildNXPC
  <2>4. QED
    BY <2>1, <2>2, <2>3, AnsweringJoin DEF BuildNXP
<1>5. Answering(BuildAES)
  <2>1. Answering(BuildUntraceable)
    BY NoData DEF BuildUntraceable, Specific
  <2>2. Answering(BuildAuthenticate)
    <3>1. {"AuthenticateTam1", "AuthenticateTam2"} \subseteq SerialOnly
      BY DEF SerialOnly
    <3>2. RowAnswers("AuthenticateTam1", BuildAuthenticate["AuthenticateTam1"])
      BY <3>1, DataBehindHead, Zenon DEF BuildAuthenticate
    <3>3. RowAnswers("AuthenticateTam2", BuildAuthenticate["AuthenticateTam2"])
      BY <3>1, DataBehindHead, Zenon DEF BuildAuthenticate
    <3>4. QED
      BY <3>2, <3>3 DEF BuildAuthenticate
  <2>3. Answering(BuildReadBuffer)
    <3>1. {"ReadBufferTam1", "ReadBufferTam2"} \subseteq SerialOnly
      BY DEF SerialOnly
    <3>2. RowAnswers("ReadBufferTam1", BuildReadBuffer["ReadBufferTam1"])
      BY <3>1, DataBehindHead, Zenon DEF BuildReadBuffer
    <3>3. RowAnswers("ReadBufferTam2", BuildReadBuffer["ReadBufferTam2"])
      BY <3>1, DataBehindHead, Zenon DEF BuildReadBuffer
    <3>4. QED
      BY <3>2, <3>3 DEF BuildReadBuffer
  <2>4. QED
    BY <2>1, <2>2, <2>3, AnsweringJoin DEF BuildAES
<1>6. Answering(BuildMonza)
  <2>1. "QTReadWrite" \in AllData
    BY DEF AllData, DataC
  <2>2. RowAnswers("QTReadWrite", BuildMonza["QTReadWrite"])
    BY <2>1, DataBehindHead, Zenon DEF BuildMonza
  <2>3. QED
    BY <2>2 DEF BuildMonza
<1>7. Answering(BuildIDS)
  <2>0. ASSUME NEW o, NEW arguments
        PROVE  /\ RowAnswers(o, IDSCommand(arguments, 0))
               /\ o \in AllData \cup {"FifoWrite"} =>
                    RowAnswers(o, IDSCommand(arguments, 9))
    BY NoData, DataBehindHead DEF IDSCommand, Specific
  <2>1. Answering(BuildIDSA)
    BY <2>0 DEF BuildIDSA, AllData, DataC, DataIDS
  <2>2. Answering(BuildIDSB)
    BY <2>0 DEF BuildIDSB, AllData, DataC, DataIDS
  <2>3. Answering(BuildIDSC)
    BY <2>0 DEF BuildIDSC
  <2>4. Answering(BuildIDSD)
    BY <2>0, NoData DEF BuildIDSD, Specific
  <2>5. Answering(BuildIDSE)
    BY <2>0 DEF BuildIDSE, AllData, DataIDS
  <2>6. Answering(BuildIDSF)
    BY <2>0 DEF BuildIDSF
  <2>7. Answering(BuildIDSG)
    BY <2>0 DEF BuildIDSG, AllData, DataIDS
  <2>8. Answering(BuildIDSH) /\ Answering(BuildIDSI)
    BY <2>0 DEF BuildIDSH, BuildIDSI
  <2>9. QED
    BY <2>1, <2>2, <2>3, <2>4, <2>5, <2>6, <2>7, <2>8, AnsweringJoin DEF BuildIDS
<1>8. Answering(BuildIAV)
  <2>0. ASSUME NEW o, o \in AllData \cup SerialOnly, NEW arguments
        PROVE  RowAnswers(o, IAVCommand(arguments))
    BY <2>0, DataBehindHead DEF IAVCommand
  <2>1. Answering(BuildIAVA)
    <3>1. Answering([o \in IAVOps |-> IAVCommand(<<"payload">>)])
      BY <2>0 DEF IAVOps, AllData, SerialOnly, DataIAVA, DataIAVB
    <3>2. Answering([ReadMemMap |-> IAVCommand(<<"payload", "readPtr">>)])
      BY <2>0 DEF AllData, DataIAVB
    <3>3. QED
      BY <3>1, <3>2, AnsweringJoin DEF BuildIAVA
  <2>2. Answering(BuildIAVB)
    <3>1. {"Siniav", "SiniavToken"} \subseteq AllData /\ "ReadSec" \in SerialOnly
      BY DEF AllData, SerialOnly, DataIAVA
    <3>2. RowAnswers("ReadSec", BuildIAVB["ReadSec"])
      BY <2>0, <3>1 DEF BuildIAVB
    <3>3. RowAnswers("Siniav", BuildIAVB["Siniav"])
      BY <3>1, DataBehindHead, Zenon DEF BuildIAVB
    <3>4. RowAnswers("SiniavToken", BuildIAVB["SiniavToken"])
      BY <3>1, DataBehindHead, Zenon DEF BuildIAVB
    <3>5. QED
      BY <3>2, <3>3, <3>4 DEF BuildIAVB
  <2>3. Answering(BuildIAVC)
    BY <2>0 DEF BuildIAVC, AllData, DataIAVB
  <2>4. Answering(BuildIAVD)
    BY <2>0 DEF BuildIAVD, SerialOnly
  <2>5. QED
    BY <2>1, <2>2, <2>3, <2>4, AnsweringJoin DEF BuildIAV
<1>9. QED
  BY <1>1, <1>2, <1>3, <1>4, <1>5, <1>6, <1>7, <1>8, AnsweringJoin DEF Builder

(* The data of an answer is taken from behind the command's head.          *)
THEOREM AnswerPastEchoCorrect == TagSpec => []AnswerPastEcho
<1>1. AnswerPastEcho
  BY BuilderAnswers DEF AnswerPastEcho, Answering, RowAnswers
<1>2. QED
  BY <1>1, PTL DEF TagSpec

(* The operations that an LLRP reader executes.                            *)
LlrpOps ==
  Custom6 \cup CustomNXP \cup CustomIDSA \cup CustomIDSB \cup CustomIAV
    \cup {"ReadData", "WriteData", "Kill", "Lock", "BlockErase", "BlockWrite"}

(* The switch over results has a case for each of them.                    *)
LEMMA ResultsFacts ==
  /\ LlrpOps \subseteq DOMAIN OutcomesOf
  /\ \A o \in DOMAIN OutcomesOf : "success" \in OutcomesOf[o]
<1> DEFINE Saying(f) == \A o \in DOMAIN f : "success" \in f[o]
           Rest == Custom6 \cup CustomNXP \cup CustomIDSA \cup CustomIDSB \cup CustomIAV
           OutcomesRest == [o \in Rest |-> CustomOutcomes]
<1>1. /\ Saying(OutcomesA) /\ Saying(OutcomesB) /\ Saying(OutcomesC) /\ Saying(OutcomesRest)
  <2>1. ASSUME NEW others PROVE "success" \in CustomOutcomes \cup others
    BY DEF CustomOutcomes
  <2>2. Saying(OutcomesA) /\ Saying(OutcomesB)
    <3>1. "success" \in OutcomesA["ReadData"] /\ "success" \in OutcomesA["WriteData"]
      BY <2>1 DEF OutcomesA
    <3>2. "success" \in OutcomesB["Kill"] /\ "success" \in OutcomesB["Lock"]
      BY <2>1 DEF OutcomesB
    <3>3. DOMAIN OutcomesA = {"ReadData", "WriteData"} /\ DOMAIN OutcomesB = {"Kill", "Lock"}
      BY DEF OutcomesA, OutcomesB
    <3>4. QED
      BY <3>1, <3>2, <3>3
  <2>3. Saying(OutcomesC) /\ Saying(OutcomesRest)
    BY <2>1 DEF OutcomesC, CustomOutcomes
  <2>4. QED
    BY <2>2, <2>3
<1>2. ASSUME NEW f, NEW g, Saying(f), Saying(g) PROVE Saying(f ++ g)
  BY <1>2 DEF ++
<1>3. OutcomesOf = OutcomesA ++ OutcomesB ++ OutcomesC ++ OutcomesRest
  BY DEF OutcomesOf
<1>4. Saying(OutcomesOf)
  <2> HIDE DEF Saying, OutcomesRest
  <2> QED
    BY <1>1, <1>2, <1>3
<1>5. DOMAIN OutcomesOf = DOMAIN OutcomesA \cup DOMAIN OutcomesB \cup DOMAIN OutcomesC
                            \cup DOMAIN OutcomesRest
  BY <1>3 DEF ++
<1>6. LlrpOps \subseteq DOMAIN OutcomesOf
  BY <1>5 DEF LlrpOps, OutcomesA, OutcomesB, OutcomesC
<1>7. QED
  BY <1>4, <1>6

(* The OpSpecs are those of these operations.                              *)
LEMMA OpSpecNames == DOMAIN OpSpecs \subseteq LlrpOps
<1> DEFINE Inside(f) == DOMAIN f \subseteq LlrpOps
<1>0. ASSUME NEW f, NEW g, Inside(f), Inside(g) PROVE Inside(f ++ g)
  BY <1>0 DEF ++
<1> USE DEF LlrpOps, Custom6, CustomNXP, CustomIDSA, CustomIDSB, CustomIAV
<1>1. Inside(OpSpecA) /\ Inside(OpSpecB) /\ Inside(OpSpecHiggs3) /\ Inside(OpSpecLock)
  BY DEF OpSpecA, OpSpecB, OpSpecHiggs3, OpSpecLock
<1>2. Inside(OpSpecC) /\ Inside(OpSpecNXP) /\ Inside(OpSpecD)
  BY DEF OpSpecC, OpSpecNXP, OpSpecD
<1>3. Inside(OpSpecIDSA) /\ Inside(OpSpecIDSB) /\ Inside(OpSpecE) /\ Inside(OpSpecIDSC)
  BY DEF OpSpecIDSA, OpSpecIDSB, OpSpecE, OpSpecIDSC
<1>4. Inside(OpSpecIDSD) /\ Inside(OpSpecIDSE) /\ Inside(OpSpecF)
  BY DEF OpSpecIDSD, OpSpecIDSE, OpSpecF
<1>5. Inside(OpSpecIAVA)
  BY DEF OpSpecIAVA, ++
<1>6. Inside(OpSpecIAVB) /\ Inside(OpSpecISO)
  BY DEF OpSpecIAVB, OpSpecISO
<1>7. QED
  <2> HIDE DEF Inside, LlrpOps
  <2>1. Inside(OpSpecs1)
    BY <1>0, <1>1, <1>2 DEF OpSpecs1
  <2>2. Inside(OpSpecs2)
    BY <1>0, <1>2, <1>3, <1>4 DEF OpSpecs2
  <2>3. Inside(OpSpecs3)
    BY <1>0, <1>4, <1>5, <1>6 DEF OpSpecs3
  <2>4. Inside(OpSpecs)
    BY <1>0, <2>1, <2>2, <2>3 DEF OpSpecs
  <2>5. QED
    BY <2>4 DEF Inside

-------------------------------------------------------------------------------
(* The rows of the four tables, out of the parts they are put together     *)
(* from.                                                                   *)

(* What a table's part has, the table has, when the rows put before it are *)
(* under other names.                                                      *)
LEMMA PartRight2 ==
  ASSUME NEW f, NEW g, NEW h, Apart(f, g), Part(h, g)
  PROVE  Part(h, f ++ g)
BY DEF Part, Apart, ++

(* The names in StandardFields.                                            *)
LEMMA StandardFieldsNames ==
  DOMAIN StandardFields =
    {"ReadData", "BlockErase", "WriteTag", "WriteData", "BlockPermaLock",
     "Lock", "Kill", "BlockWrite", "SecureReadData"}
BY DEF StandardFields

(* The names in ISOFields.                                                 *)
LEMMA ISOFieldsNames ==
  DOMAIN ISOFields =
    {"ISOReadData", "ISOWriteData", "ISOLock"}
BY DEF ISOFields

(* The names in AlienFields.                                               *)
LEMMA AlienFieldsNames ==
  DOMAIN AlienFields =
    {"Higgs2PartialLoad", "Higgs2FullLoad", "Higgs3FastLoad", "Higgs3Load",
     "Higgs3BlockReadLock"}
BY DEF AlienFields

(* The names in NXPFields.                                                 *)
LEMMA NXPFieldsNames ==
  DOMAIN NXPFields =
    {"SetReadProtect", "ResetReadProtect", "ChangeEAS", "EASAlarm",
     "Calibrate", "ChangeConfig"}
BY DEF NXPFields

(* The names in AESFields.                                                 *)
LEMMA AESFieldsNames ==
  DOMAIN AESFields =
    {"UntraceableTam1", "UntraceableAccess", "AuthenticateTam1",
     "AuthenticateTam2", "ReadBufferTam1", "ReadBufferTam2"}
BY DEF AESFields

(* The names in MonzaFields.                                               *)
LEMMA MonzaFieldsNames ==
  DOMAIN MonzaFields =
    {"QTReadWrite"}
BY DEF MonzaFields

(* The names in IAVFields.                                                 *)
LEMMA IAVFieldsNames ==
  DOMAIN IAVFields =
    {"ActivateSecure", "FullPass2", "ReadMemMap", "WriteMemMap", "Siniav",
     "SiniavToken", "ReadSec", "WriteSec", "GetTokenId", "AuthenticateOBU",
     "OBUAuthID", "FullPass1", "FullPass", "G0PAAuth"}
BY DEF IAVFields, IAVOps, ++

(* The names in IDSFieldsA.                                                *)
LEMMA IDSFieldsANames ==
  DOMAIN IDSFieldsA =
    {"GetSensor", "Initialize", "InitializeTimer", "SetLogMode", "GetLogState",
     "EndLog"}
BY DEF IDSFieldsA

(* The names in IDSFieldsB.                                                *)
LEMMA IDSFieldsBNames ==
  DOMAIN IDSFieldsB =
    {"SetSfe", "GetMeasurementSetup", "GetBattery", "SetLogLimits", "StartLog",
     "FifoStatus", "FifoWrite", "FifoRead", "GetCalibration", "SetCalibration"}
BY DEF IDSFieldsB

(* The names in IDSFieldsC.                                                *)
LEMMA IDSFieldsCNames ==
  DOMAIN IDSFieldsC =
    {"SetShelfLife", "SetPassword"}
BY DEF IDSFieldsC

(* The names in ChipFields.                                                *)
LEMMA ChipFieldsNames ==
  DOMAIN ChipFields =
    {"Higgs2PartialLoad", "Higgs2FullLoad", "Higgs3FastLoad", "Higgs3Load",
     "Higgs3BlockReadLock", "SetReadProtect", "ResetReadProtect", "ChangeEAS",
     "EASAlarm", "Calibrate", "ChangeConfig", "UntraceableTam1",
     "UntraceableAccess", "AuthenticateTam1", "AuthenticateTam2",
     "ReadBufferTam1", "ReadBufferTam2", "QTReadWrite"}
BY AlienFieldsNames, NXPFieldsNames, AESFieldsNames, MonzaFieldsNames DEF ChipFields, ++

(* The names in IDSFields.                                                 *)
LEMMA IDSFieldsNames ==
  DOMAIN IDSFields =
    {"GetSensor", "Initialize", "InitializeTimer", "SetLogMode", "GetLogState",
     "EndLog", "SetSfe", "GetMeasurementSetup", "GetBattery", "SetLogLimits",
     "StartLog", "FifoStatus", "FifoWrite", "FifoRead", "GetCalibration",
     "SetCalibration", "SetShelfLife", "SetPassword"}
BY IDSFieldsANames, IDSFieldsBNames, IDSFieldsCNames DEF IDSFields, ++

(* The chips' structures.                                                  *)
LEMMA ChipFieldsParts ==
  /\ Part(AlienFields, ChipFields)
  /\ Part(NXPFields, ChipFields)
  /\ Part(AESFields, ChipFields)
  /\ Part(MonzaFields, ChipFields)
<1>1. \A f \in {AlienFields} : Apart(f, NXPFields)
  BY AlienFieldsNames, NXPFieldsNames DEF Apart
<1>2. \A f \in {AlienFields, NXPFields} : Apart(f, AESFields)
  BY AlienFieldsNames, NXPFieldsNames, AESFieldsNames DEF Apart
<1>3. \A f \in {AlienFields, NXPFields, AESFields} : Apart(f, MonzaFields)
  BY AlienFieldsNames, NXPFieldsNames, AESFieldsNames, MonzaFieldsNames DEF Apart
<1>4. QED
  BY <1>1, <1>2, <1>3, PartSelf, PartLeft, PartRight, ApartJoin DEF ChipFields

(* The SL900A's structures.                                                *)
LEMMA IDSFieldsParts ==
  /\ Part(IDSFieldsA, IDSFields)
  /\ Part(IDSFieldsB, IDSFields)
  /\ Part(IDSFieldsC, IDSFields)
<1>1. \A f \in {IDSFieldsA} : Apart(f, IDSFieldsB)
  BY IDSFieldsANames, IDSFieldsBNames DEF Apart
<1>2. \A f \in {IDSFieldsA, IDSFieldsB} : Apart(f, IDSFieldsC)
  BY IDSFieldsANames, IDSFieldsBNames, IDSFieldsCNames DEF Apart
<1>3. QED
  BY <1>1, <1>2, PartSelf, PartLeft, PartRight, ApartJoin DEF IDSFields

(* The tables of structures, and Fields.                                   *)
LEMMA FieldsParts ==
  /\ Part(StandardFields, Fields)
  /\ Part(ISOFields, Fields)
  /\ Part(ChipFields, Fields)
  /\ Part(IAVFields, Fields)
  /\ Part(IDSFields, Fields)
<1>1. \A f \in {StandardFields} : Apart(f, ISOFields)
  BY StandardFieldsNames, ISOFieldsNames DEF Apart
<1>2. \A f \in {StandardFields, ISOFields} : Apart(f, ChipFields)
  BY StandardFieldsNames, ISOFieldsNames, ChipFieldsNames DEF Apart
<1>3. \A f \in {StandardFields, ISOFields, ChipFields} : Apart(f, IAVFields)
  BY StandardFieldsNames, ISOFieldsNames, ChipFieldsNames, IAVFieldsNames DEF Apart
<1>4. \A f \in {StandardFields, ISOFields, ChipFields, IAVFields} : Apart(f, IDSFields)
  BY StandardFieldsNames, ISOFieldsNames, ChipFieldsNames, IAVFieldsNames,
     IDSFieldsNames DEF Apart
<1>5. QED
  BY <1>1, <1>2, <1>3, <1>4, PartSelf, PartLeft, PartRight, ApartJoin DEF Fields

(* The names in BuildStandard.                                             *)
LEMMA BuildStandardNames ==
  DOMAIN BuildStandard =
    {"ReadData", "BlockErase", "WriteTag", "WriteData", "BlockPermaLock",
     "Lock", "Kill", "BlockWrite", "SecureReadData"}
BY DEF BuildStandard

(* The names in BuildISO.                                                  *)
LEMMA BuildISONames ==
  DOMAIN BuildISO =
    {"ISOReadData", "ISOWriteData", "ISOLock"}
BY DEF BuildISO

(* The names in BuildHiggs2.                                               *)
LEMMA BuildHiggs2Names ==
  DOMAIN BuildHiggs2 =
    {"Higgs2PartialLoad", "Higgs2FullLoad"}
BY DEF BuildHiggs2

(* The names in BuildHiggs3.                                               *)
LEMMA BuildHiggs3Names ==
  DOMAIN BuildHiggs3 =
    {"Higgs3FastLoad", "Higgs3Load", "Higgs3BlockReadLock"}
BY DEF BuildHiggs3

(* The names in BuildNXPA.                                                 *)
LEMMA BuildNXPANames ==
  DOMAIN BuildNXPA =
    {"SetReadProtect", "ResetReadProtect", "ChangeEAS"}
BY DEF BuildNXPA

(* The names in BuildNXPB.                                                 *)
LEMMA BuildNXPBNames ==
  DOMAIN BuildNXPB =
    {"EASAlarm", "Calibrate"}
BY DEF BuildNXPB

(* The names in BuildNXPC.                                                 *)
LEMMA BuildNXPCNames ==
  DOMAIN BuildNXPC =
    {"ChangeConfig"}
BY DEF BuildNXPC

(* The names in BuildUntraceable.                                          *)
LEMMA BuildUntraceableNames ==
  DOMAIN BuildUntraceable =
    {"UntraceableTam1", "UntraceableAccess"}
BY DEF BuildUntraceable

(* The names in BuildAuthenticate.                                         *)
LEMMA BuildAuthenticateNames ==
  DOMAIN BuildAuthenticate =
    {"AuthenticateTam1", "AuthenticateTam2"}
BY DEF BuildAuthenticate

(* The names in BuildReadBuffer.                                           *)
LEMMA BuildReadBufferNames ==
  DOMAIN BuildReadBuffer =
    {"ReadBufferTam1", "ReadBufferTam2"}
BY DEF BuildReadBuffer

(* The names in BuildMonza.                                                *)
LEMMA BuildMonzaNames ==
  DOMAIN BuildMonza =
    {"QTReadWrite"}
BY DEF BuildMonza

(* The names in BuildIDSA.                                                 *)
LEMMA BuildIDSANames ==
  DOMAIN BuildIDSA =
    {"GetBattery", "GetSensor"}
BY DEF BuildIDSA

(* The names in BuildIDSB.                                                 *)
LEMMA BuildIDSBNames ==
  DOMAIN BuildIDSB =
    {"GetMeasurementSetup", "GetLogState"}
BY DEF BuildIDSB

(* The names in BuildIDSC.                                                 *)
LEMMA BuildIDSCNames ==
  DOMAIN BuildIDSC =
    {"Initialize", "InitializeTimer", "SetLogMode"}
BY DEF BuildIDSC

(* The names in BuildIDSD.                                                 *)
LEMMA BuildIDSDNames ==
  DOMAIN BuildIDSD =
    {"SetPassword", "EndLog"}
BY DEF BuildIDSD

(* The names in BuildIDSE.                                                 *)
LEMMA BuildIDSENames ==
  DOMAIN BuildIDSE =
    {"FifoStatus", "FifoRead"}
BY DEF BuildIDSE

(* The names in BuildIDSF.                                                 *)
LEMMA BuildIDSFNames ==
  DOMAIN BuildIDSF =
    {"StartLog", "FifoWrite"}
BY DEF BuildIDSF

(* The names in BuildIDSG.                                                 *)
LEMMA BuildIDSGNames ==
  DOMAIN BuildIDSG =
    {"GetCalibration", "SetCalibration"}
BY DEF BuildIDSG

(* The names in BuildIDSH.                                                 *)
LEMMA BuildIDSHNames ==
  DOMAIN BuildIDSH =
    {"SetSfe", "SetLogLimits"}
BY DEF BuildIDSH

(* The names in BuildIDSI.                                                 *)
LEMMA BuildIDSINames ==
  DOMAIN BuildIDSI =
    {"SetShelfLife"}
BY DEF BuildIDSI

(* The names in BuildIAVA.                                                 *)
LEMMA BuildIAVANames ==
  DOMAIN BuildIAVA =
    {"ActivateSecure", "FullPass2", "ReadMemMap", "AuthenticateOBU",
     "OBUAuthID", "FullPass1", "FullPass", "G0PAAuth"}
BY DEF BuildIAVA, IAVOps, ++

(* The names in BuildIAVB.                                                 *)
LEMMA BuildIAVBNames ==
  DOMAIN BuildIAVB =
    {"Siniav", "SiniavToken", "ReadSec"}
BY DEF BuildIAVB

(* The names in BuildIAVC.                                                 *)
LEMMA BuildIAVCNames ==
  DOMAIN BuildIAVC =
    {"WriteMemMap"}
BY DEF BuildIAVC

(* The names in BuildIAVD.                                                 *)
LEMMA BuildIAVDNames ==
  DOMAIN BuildIAVD =
    {"WriteSec", "GetTokenId"}
BY DEF BuildIAVD

(* The names in BuildHiggs.                                                *)
LEMMA BuildHiggsNames ==
  DOMAIN BuildHiggs =
    {"Higgs2PartialLoad", "Higgs2FullLoad", "Higgs3FastLoad", "Higgs3Load",
     "Higgs3BlockReadLock"}
BY BuildHiggs2Names, BuildHiggs3Names DEF BuildHiggs, ++

(* The tables in BuildHiggs.                                               *)
LEMMA BuildHiggsParts ==
  /\ Part(BuildHiggs2, BuildHiggs)
  /\ Part(BuildHiggs3, BuildHiggs)
<1>1. \A f \in {BuildHiggs2} : Apart(f, BuildHiggs3)
  BY BuildHiggs2Names, BuildHiggs3Names DEF Apart
<1>2. QED
  BY <1>1, PartSelf, PartLeft, PartRight, ApartJoin DEF BuildHiggs

(* The names in BuildNXP.                                                  *)
LEMMA BuildNXPNames ==
  DOMAIN BuildNXP =
    {"SetReadProtect", "ResetReadProtect", "ChangeEAS", "EASAlarm",
     "Calibrate", "ChangeConfig"}
BY BuildNXPANames, BuildNXPBNames, BuildNXPCNames DEF BuildNXP, ++

(* The tables in BuildNXP.                                                 *)
LEMMA BuildNXPParts ==
  /\ Part(BuildNXPA, BuildNXP)
  /\ Part(BuildNXPB, BuildNXP)
  /\ Part(BuildNXPC, BuildNXP)
<1>1. \A f \in {BuildNXPA} : Apart(f, BuildNXPB)
  BY BuildNXPANames, BuildNXPBNames DEF Apart
<1>2. \A f \in {BuildNXPA, BuildNXPB} : Apart(f, BuildNXPC)
  BY BuildNXPANames, BuildNXPBNames, BuildNXPCNames DEF Apart
<1>3. QED
  BY <1>1, <1>2, PartSelf, PartLeft, PartRight, ApartJoin DEF BuildNXP

(* The names in BuildAES.                                                  *)
LEMMA BuildAESNames ==
  DOMAIN BuildAES =
    {"UntraceableTam1", "UntraceableAccess", "AuthenticateTam1",
     "AuthenticateTam2", "ReadBufferTam1", "ReadBufferTam2"}
BY BuildUntraceableNames, BuildAuthenticateNames, BuildReadBufferNames DEF BuildAES, ++

(* The tables in BuildAES.                                                 *)
LEMMA BuildAESParts ==
  /\ Part(BuildUntraceable, BuildAES)
  /\ Part(BuildAuthenticate, BuildAES)
  /\ Part(BuildReadBuffer, BuildAES)
<1>1. \A f \in {BuildUntraceable} : Apart(f, BuildAuthenticate)
  BY BuildUntraceableNames, BuildAuthenticateNames DEF Apart
<1>2. \A f \in {BuildUntraceable, BuildAuthenticate} : Apart(f, BuildReadBuffer)
  BY BuildUntraceableNames, BuildAuthenticateNames, BuildReadBufferNames DEF Apart
<1>3. QED
  BY <1>1, <1>2, PartSelf, PartLeft, PartRight, ApartJoin DEF BuildAES

(* The names in BuildIAV.                                                  *)
LEMMA BuildIAVNames ==
  DOMAIN BuildIAV =
    {"ActivateSecure", "FullPass2", "ReadMemMap", "AuthenticateOBU",
     "OBUAuthID", "FullPass1", "FullPass", "G0PAAuth", "Siniav", "SiniavToken",
     "ReadSec", "WriteMemMap", "WriteSec", "GetTokenId"}
BY BuildIAVANames, BuildIAVBNames, BuildIAVCNames, BuildIAVDNames DEF BuildIAV, ++

(* The tables in BuildIAV.                                                 *)
LEMMA BuildIAVParts ==
  /\ Part(BuildIAVA, BuildIAV)
  /\ Part(BuildIAVB, BuildIAV)
  /\ Part(BuildIAVC, BuildIAV)
  /\ Part(BuildIAVD, BuildIAV)
<1>1. \A f \in {BuildIAVA} : Apart(f, BuildIAVB)
  BY BuildIAVANames, BuildIAVBNames DEF Apart
<1>2. \A f \in {BuildIAVA, BuildIAVB} : Apart(f, BuildIAVC)
  BY BuildIAVANames, BuildIAVBNames, BuildIAVCNames DEF Apart
<1>3. \A f \in {BuildIAVA, BuildIAVB, BuildIAVC} : Apart(f, BuildIAVD)
  BY BuildIAVANames, BuildIAVBNames, BuildIAVCNames, BuildIAVDNames DEF Apart
<1>4. QED
  BY <1>1, <1>2, <1>3, PartSelf, PartLeft, PartRight, ApartJoin DEF BuildIAV

(* The names in BuildIDS.                                                  *)
LEMMA BuildIDSNames ==
  DOMAIN BuildIDS =
    {"GetBattery", "GetSensor", "GetMeasurementSetup", "GetLogState",
     "Initialize", "InitializeTimer", "SetLogMode", "SetPassword", "EndLog",
     "FifoStatus", "FifoRead", "StartLog", "FifoWrite", "GetCalibration",
     "SetCalibration", "SetSfe", "SetLogLimits", "SetShelfLife"}
BY BuildIDSANames, BuildIDSBNames, BuildIDSCNames, BuildIDSDNames, BuildIDSENames,
   BuildIDSFNames, BuildIDSGNames, BuildIDSHNames, BuildIDSINames DEF BuildIDS, ++

(* The tables in BuildIDS.                                                 *)
LEMMA BuildIDSParts ==
  /\ Part(BuildIDSA, BuildIDS)
  /\ Part(BuildIDSB, BuildIDS)
  /\ Part(BuildIDSC, BuildIDS)
  /\ Part(BuildIDSD, BuildIDS)
  /\ Part(BuildIDSE, BuildIDS)
  /\ Part(BuildIDSF, BuildIDS)
  /\ Part(BuildIDSG, BuildIDS)
  /\ Part(BuildIDSH, BuildIDS)
  /\ Part(BuildIDSI, BuildIDS)
<1> DEFINE First == BuildIDSA ++ BuildIDSB ++ BuildIDSC ++ BuildIDSD
           Second == BuildIDSE ++ BuildIDSF ++ BuildIDSG ++ BuildIDSH ++ BuildIDSI
<1>1. \A f \in {BuildIDSA} :
       Apart(f, BuildIDSB)
  BY BuildIDSANames, BuildIDSBNames DEF Apart
<1>2. \A f \in {BuildIDSA, BuildIDSB} :
       Apart(f, BuildIDSC)
  BY BuildIDSANames, BuildIDSBNames, BuildIDSCNames DEF Apart
<1>3. \A f \in {BuildIDSA, BuildIDSB, BuildIDSC} :
       Apart(f, BuildIDSD)
  BY BuildIDSANames, BuildIDSBNames, BuildIDSCNames, BuildIDSDNames DEF Apart
<1>4. \A f \in {BuildIDSA, BuildIDSB, BuildIDSC, BuildIDSD} :
       Part(f, First)
  BY <1>1, <1>2, <1>3, PartSelf, PartLeft, PartRight, ApartJoin
<1>5. \A f \in {BuildIDSE} :
       Apart(f, BuildIDSF)
  BY BuildIDSENames, BuildIDSFNames DEF Apart
<1>6. \A f \in {BuildIDSE, BuildIDSF} :
       Apart(f, BuildIDSG)
  BY BuildIDSENames, BuildIDSFNames, BuildIDSGNames DEF Apart
<1>7. \A f \in {BuildIDSE, BuildIDSF, BuildIDSG} :
       Apart(f, BuildIDSH)
  BY BuildIDSENames, BuildIDSFNames, BuildIDSGNames, BuildIDSHNames DEF Apart
<1>8. \A f \in {BuildIDSE, BuildIDSF, BuildIDSG, BuildIDSH} :
       Apart(f, BuildIDSI)
  BY BuildIDSENames, BuildIDSFNames, BuildIDSGNames, BuildIDSHNames, BuildIDSINames DEF
     Apart
<1>9. \A f \in {BuildIDSE, BuildIDSF, BuildIDSG, BuildIDSH, BuildIDSI} :
       Part(f, Second)
  BY <1>5, <1>6, <1>7, <1>8, PartSelf, PartLeft, PartRight, ApartJoin
<1>10. \A f \in {BuildIDSA, BuildIDSB, BuildIDSC, BuildIDSD},
           g \in {BuildIDSE, BuildIDSF, BuildIDSG} :
       Apart(f, g)
  BY BuildIDSANames, BuildIDSBNames, BuildIDSCNames, BuildIDSDNames, BuildIDSENames,
     BuildIDSFNames, BuildIDSGNames DEF Apart
<1>11. \A f \in {BuildIDSA, BuildIDSB, BuildIDSC, BuildIDSD}, g \in {BuildIDSH, BuildIDSI} :
       Apart(f, g)
  BY BuildIDSANames, BuildIDSBNames, BuildIDSCNames, BuildIDSDNames, BuildIDSHNames,
     BuildIDSINames DEF Apart
<1>12. Apart(First, Second)
  <2>1. ASSUME NEW f, NEW g, NEW h, Apart(h, f), Apart(h, g) PROVE Apart(h, f ++ g)
    BY <2>1 DEF Apart, ++
  <2>2. \A g \in {BuildIDSE, BuildIDSF, BuildIDSG, BuildIDSH, BuildIDSI} :
          Apart(First, g)
    BY <1>10, <1>11, ApartJoin
  <2>3. QED
    BY <2>1, <2>2
<1>13. BuildIDS = First ++ Second
  BY DEF BuildIDS
<1> HIDE DEF First, Second
<1>14. QED
  BY <1>4, <1>9, <1>12, <1>13, PartLeft, PartRight2

(* The tables of commands, and Builder.                                    *)
LEMMA BuilderParts ==
  /\ Part(BuildStandard, Builder)
  /\ Part(BuildISO, Builder)
  /\ Part(BuildHiggs, Builder)
  /\ Part(BuildNXP, Builder)
  /\ Part(BuildAES, Builder)
  /\ Part(BuildMonza, Builder)
  /\ Part(BuildIDS, Builder)
  /\ Part(BuildIAV, Builder)
<1>1. \A f \in {BuildStandard} : Apart(f, BuildISO)
  BY BuildStandardNames, BuildISONames DEF Apart
<1>2. \A f \in {BuildStandard, BuildISO} : Apart(f, BuildHiggs)
  BY BuildStandardNames, BuildISONames, BuildHiggsNames DEF Apart
<1>3. \A f \in {BuildStandard, BuildISO, BuildHiggs} : Apart(f, BuildNXP)
  BY BuildStandardNames, BuildISONames, BuildHiggsNames, BuildNXPNames DEF Apart
<1>4. \A f \in {BuildStandard, BuildISO, BuildHiggs, BuildNXP} : Apart(f, BuildAES)
  BY BuildStandardNames, BuildISONames, BuildHiggsNames, BuildNXPNames, BuildAESNames
     DEF Apart
<1>5. \A f \in {BuildStandard, BuildISO, BuildHiggs, BuildNXP, BuildAES} : Apart(f, BuildMonza)
  BY BuildStandardNames, BuildISONames, BuildHiggsNames, BuildNXPNames, BuildAESNames,
     BuildMonzaNames DEF Apart
<1>6. \A f \in {BuildStandard, BuildISO, BuildHiggs, BuildNXP, BuildAES, BuildMonza} :
       Apart(f, BuildIDS)
  BY BuildStandardNames, BuildISONames, BuildHiggsNames, BuildNXPNames, BuildAESNames,
     BuildMonzaNames, BuildIDSNames DEF Apart
<1>7. \A f \in {BuildStandard, BuildISO, BuildHiggs, BuildNXP, BuildAES, BuildMonza,
                BuildIDS} :
       Apart(f, BuildIAV)
  BY BuildStandardNames, BuildISONames, BuildHiggsNames, BuildNXPNames, BuildAESNames,
     BuildMonzaNames, BuildIDSNames, BuildIAVNames DEF Apart
<1>8. QED
  BY <1>1, <1>2, <1>3, <1>4, <1>5, <1>6, <1>7, PartSelf, PartLeft, PartRight, ApartJoin
     DEF Builder
(* The names in InitA.                                                     *)
LEMMA InitANames ==
  DOMAIN InitA =
    {"ReadData", "WriteTag", "SecureReadData"}
BY DEF InitA

(* The names in InitB.                                                     *)
LEMMA InitBNames ==
  DOMAIN InitB =
    {"WriteData", "Lock", "Kill", "ISOReadData", "ISOWriteData", "ISOLock"}
BY DEF InitB

(* The names in InitC.                                                     *)
LEMMA InitCNames ==
  DOMAIN InitC =
    {"BlockErase", "BlockPermaLock", "BlockWrite"}
BY DEF InitC

(* The names in InitAlien.                                                 *)
LEMMA InitAlienNames ==
  DOMAIN InitAlien =
    {"Higgs2PartialLoad", "Higgs2FullLoad", "Higgs3FastLoad", "Higgs3Load",
     "Higgs3BlockReadLock"}
BY DEF InitAlien

(* The names in InitNXP.                                                   *)
LEMMA InitNXPNames ==
  DOMAIN InitNXP =
    {"SetReadProtect", "ResetReadProtect", "ChangeEAS"}
BY DEF InitNXP

(* The names in InitAES.                                                   *)
LEMMA InitAESNames ==
  DOMAIN InitAES =
    {"EASAlarm", "UntraceableTam1", "UntraceableAccess", "AuthenticateTam1",
     "AuthenticateTam2", "ReadBufferTam1", "ReadBufferTam2"}
BY DEF InitAES

(* The names in InitNXPMonza.                                              *)
LEMMA InitNXPMonzaNames ==
  DOMAIN InitNXPMonza =
    {"Calibrate", "ChangeConfig", "QTReadWrite"}
BY DEF InitNXPMonza

(* The names in InitIAVA.                                                  *)
LEMMA InitIAVANames ==
  DOMAIN InitIAVA =
    {"ActivateSecure", "FullPass2", "ReadMemMap", "Siniav", "SiniavToken",
     "AuthenticateOBU", "OBUAuthID", "FullPass1"}
BY DEF InitIAVA

(* The names in InitIAVB.                                                  *)
LEMMA InitIAVBNames ==
  DOMAIN InitIAVB =
    {"WriteMemMap", "ReadSec", "WriteSec", "GetTokenId", "FullPass", "G0PAAuth"}
BY DEF InitIAVB

(* The names in InitIDSA.                                                  *)
LEMMA InitIDSANames ==
  DOMAIN InitIDSA =
    {"SetSfe", "GetMeasurementSetup", "SetPassword", "GetSensor",
     "GetCalibration", "SetCalibration"}
BY DEF InitIDSA

(* The names in InitIDSB.                                                  *)
LEMMA InitIDSBNames ==
  DOMAIN InitIDSB =
    {"Initialize", "InitializeTimer", "SetLogMode", "GetLogState", "EndLog"}
BY DEF InitIDSB

(* The names in InitIDSC.                                                  *)
LEMMA InitIDSCNames ==
  DOMAIN InitIDSC =
    {"GetBattery", "StartLog", "FifoStatus", "FifoWrite", "FifoRead"}
BY DEF InitIDSC

(* The names in InitIDSD.                                                  *)
LEMMA InitIDSDNames ==
  DOMAIN InitIDSD =
    {"SetLogLimits", "SetShelfLife"}
BY DEF InitIDSD

(* The names in InitIDS.                                                   *)
LEMMA InitIDSNames ==
  DOMAIN InitIDS =
    {"SetSfe", "GetMeasurementSetup", "SetPassword", "GetSensor",
     "GetCalibration", "SetCalibration", "Initialize", "InitializeTimer",
     "SetLogMode", "GetLogState", "EndLog", "GetBattery", "StartLog",
     "FifoStatus", "FifoWrite", "FifoRead", "SetLogLimits", "SetShelfLife"}
BY InitIDSANames, InitIDSBNames, InitIDSCNames, InitIDSDNames DEF InitIDS, ++

(* The names in InitChip.                                                  *)
LEMMA InitChipNames ==
  DOMAIN InitChip =
    {"Higgs2PartialLoad", "Higgs2FullLoad", "Higgs3FastLoad", "Higgs3Load",
     "Higgs3BlockReadLock", "SetReadProtect", "ResetReadProtect", "ChangeEAS",
     "EASAlarm", "UntraceableTam1", "UntraceableAccess", "AuthenticateTam1",
     "AuthenticateTam2", "ReadBufferTam1", "ReadBufferTam2", "Calibrate",
     "ChangeConfig", "QTReadWrite"}
BY InitAlienNames, InitNXPNames, InitAESNames, InitNXPMonzaNames DEF InitChip, ++

(* What the tables of the SL900A's init functions say is what InitIDS says.*)
LEMMA InitIDSParts ==
  /\ Part(InitIDSA, InitIDS)
  /\ Part(InitIDSB, InitIDS)
  /\ Part(InitIDSC, InitIDS)
  /\ Part(InitIDSD, InitIDS)
<1>1. \A f \in {InitIDSA} : Apart(f, InitIDSB)
  BY InitIDSANames, InitIDSBNames DEF Apart
<1>2. \A f \in {InitIDSA, InitIDSB} : Apart(f, InitIDSC)
  BY InitIDSANames, InitIDSBNames, InitIDSCNames DEF Apart
<1>3. \A f \in {InitIDSA, InitIDSB, InitIDSC} : Apart(f, InitIDSD)
  BY InitIDSANames, InitIDSBNames, InitIDSCNames, InitIDSDNames DEF Apart
<1>4. QED
  BY <1>1, <1>2, <1>3, PartSelf, PartLeft, PartRight, ApartJoin DEF InitIDS

(* The chips' tables, and InitChip.                                        *)
LEMMA InitChipParts ==
  /\ Part(InitAlien, InitChip)
  /\ Part(InitNXP, InitChip)
  /\ Part(InitAES, InitChip)
  /\ Part(InitNXPMonza, InitChip)
<1>1. \A f \in {InitAlien} : Apart(f, InitNXP)
  BY InitAlienNames, InitNXPNames DEF Apart
<1>2. \A f \in {InitAlien, InitNXP} : Apart(f, InitAES)
  BY InitAlienNames, InitNXPNames, InitAESNames DEF Apart
<1>3. \A f \in {InitAlien, InitNXP, InitAES} : Apart(f, InitNXPMonza)
  BY InitAlienNames, InitNXPNames, InitAESNames, InitNXPMonzaNames DEF Apart
<1>4. QED
  BY <1>1, <1>2, <1>3, PartSelf, PartLeft, PartRight, ApartJoin DEF InitChip

(* The tables, and Filler.                                                 *)
LEMMA FillerParts ==
  /\ Part(InitA, Filler)
  /\ Part(InitB, Filler)
  /\ Part(InitC, Filler)
  /\ Part(InitChip, Filler)
  /\ Part(InitIAVA, Filler)
  /\ Part(InitIAVB, Filler)
  /\ Part(InitIDS, Filler)
<1>1. \A f \in {InitA} : Apart(f, InitB)
  BY InitANames, InitBNames DEF Apart
<1>2. \A f \in {InitA, InitB} : Apart(f, InitC)
  BY InitANames, InitBNames, InitCNames DEF Apart
<1>3. \A f \in {InitA, InitB, InitC} : Apart(f, InitChip)
  BY InitANames, InitBNames, InitCNames, InitChipNames DEF Apart
<1>4. \A f \in {InitA, InitB, InitC, InitChip} : Apart(f, InitIAVA)
  BY InitANames, InitBNames, InitCNames, InitChipNames, InitIAVANames DEF Apart
<1>5. \A f \in {InitA, InitB, InitC, InitChip, InitIAVA} : Apart(f, InitIAVB)
  BY InitANames, InitBNames, InitCNames, InitChipNames, InitIAVANames, InitIAVBNames DEF
     Apart
<1>6. \A f \in {InitA, InitB, InitC, InitChip, InitIAVA, InitIAVB} : Apart(f, InitIDS)
  BY InitANames, InitBNames, InitCNames, InitChipNames, InitIAVANames, InitIAVBNames,
     InitIDSNames DEF Apart
<1>7. QED
  BY <1>1, <1>2, <1>3, <1>4, <1>5, <1>6, PartSelf, PartLeft, PartRight, ApartJoin DEF
     Filler

-------------------------------------------------------------------------------
(* What an LLRP operation's result comes to.                               *)

(* Each of them is laid out for the serial protocol too, and none of those *)
(* that only a serial reader executes is among them.                       *)
LEMMA LlrpOpsBuilt ==
  /\ LlrpOps \subseteq DOMAIN Builder
  /\ LlrpOps \cap SerialOnly = {}
<1> USE DEF LlrpOps, Custom6, CustomNXP, CustomIDSA, CustomIDSB, CustomIAV
<1>1. /\ DOMAIN BuildStandard \subseteq DOMAIN Builder
      /\ DOMAIN BuildISO \subseteq DOMAIN Builder
      /\ DOMAIN BuildHiggs \subseteq DOMAIN Builder
      /\ DOMAIN BuildNXP \subseteq DOMAIN Builder
      /\ DOMAIN BuildMonza \subseteq DOMAIN Builder
      /\ DOMAIN BuildIDS \subseteq DOMAIN Builder
      /\ DOMAIN BuildIAV \subseteq DOMAIN Builder
  BY BuilderParts DEF Part
<1>2. Custom6 \cup CustomNXP \subseteq DOMAIN Builder
  BY <1>1, BuildStandardNames, BuildHiggsNames, BuildNXPNames, BuildMonzaNames
<1>3. CustomIDSA \cup CustomIDSB \subseteq DOMAIN Builder
  BY <1>1, BuildStandardNames, BuildIDSNames
<1>4. CustomIAV \subseteq DOMAIN Builder
  BY <1>1, BuildIAVNames, BuildISONames
<1>5. {"ReadData", "WriteData", "Kill", "Lock", "BlockErase", "BlockWrite"}
        \subseteq DOMAIN Builder
  BY <1>1, BuildStandardNames
<1>6. LlrpOps \subseteq DOMAIN Builder
  <2> HIDE DEF Custom6, CustomNXP, CustomIDSA, CustomIDSB, CustomIAV
  <2> QED
    BY <1>2, <1>3, <1>4, <1>5
<1>7. LlrpOps \cap SerialOnly = {}
  BY DEF SerialOnly
<1>8. QED
  BY <1>6, <1>7

(* Their status is a success exactly when the reader says so.              *)
LEMMA StatusOfSuccess ==
  ASSUME NEW o \in LlrpOps, NEW outcome
  PROVE  Status(o, outcome) = "success" <=> outcome = "success"
BY ResultsFacts DEF Status

(* The data that their answer has is taken, but for four operations.       *)
LEMMA DataTaken ==
  ASSUME NEW o \in LlrpOps, NEW room,
         o = "ReadData" \/ Builder[o].answer # 0,
         o \notin {"FifoWrite", "BlockPermaLock", "QTReadWrite", "ISOReadData"}
  PROVE  Parsed(o, room) = "taken"
<1>1. o \in AllData
  <2>1. CASE o = "ReadData"
    BY <2>1 DEF AllData, DataA
  <2>2. CASE Builder[o].answer # 0
    BY <2>2, LlrpOpsBuilt, BuilderAnswers DEF Answering, RowAnswers
  <2>3. QED
    BY <2>1, <2>2
<1>2. QED
  BY <1>1 DEF Parsed, AllData

(* An LLRP reader reports on an operation that it executes.                *)
SentInv == readerType = "llrp" /\ sent # <<>> => op.name \in LlrpOps

(* The status of an LLRP operation is the reader's, and a success has its  *)
(* data in the caller's list.                                              *)
THEOREM AnswerTakenCorrect == TagSpec => []AnswerTaken
<1>1. TagInit => AnswerTaken /\ SentInv
  BY DEF TagInit, NoAnswer, AnswerTaken, SentInv
<1>2. AnswerTaken /\ SentInv /\ [TagNext]_tagVars => AnswerTaken' /\ SentInv'
  <2> SUFFICES ASSUME AnswerTaken, SentInv, [TagNext]_tagVars
               PROVE  AnswerTaken' /\ SentInv'
    OBVIOUS
  <2>0. ASSUME answered' = NoAnswer PROVE AnswerTaken'
    BY <2>0 DEF AnswerTaken, NoAnswer
  <2>1. ASSUME answered' = answered, op' = op PROVE AnswerTaken'
    BY <2>1 DEF AnswerTaken
  <2>2. CASE SetAccessPassword
    BY <2>0, <2>2 DEF SetAccessPassword, SentInv
  <2>3. CASE InitTagOp
    BY <2>0, <2>3 DEF InitTagOp, SentInv
  <2>4. CASE ExecuteTagOp
    BY <2>1, <2>4 DEF ExecuteTagOp, SentInv, opVars
  <2>5. CASE SearchWithTagOp
    BY <2>1, <2>5 DEF SearchWithTagOp, SentInv, opVars
  <2>6. CASE ParseTag
    BY <2>1, <2>6 DEF ParseTag, SentInv, opVars
  <2>7. CASE AddAccessSpec
    <3>1. AnswerTaken'
      BY <2>0, <2>7 DEF AddAccessSpec
    <3>2. sent' = <<>> \/ op.name \in DOMAIN OpSpecs \cup {"Lock"}
      BY <2>7 DEF AddAccessSpec
    <3>3. op' = op
      BY <2>7 DEF AddAccessSpec, opVars
    <3>4. SentInv'
      BY <3>2, <3>3, OpSpecNames DEF SentInv, LlrpOps
    <3>5. QED
      BY <3>1, <3>4
  <2>8. CASE TakeReport
    <3>1. op.name \in LlrpOps /\ sent' = <<>> /\ op' = op
      BY <2>8 DEF TakeReport, SentInv, opVars
    <3>2. CASE answered' = [NoAnswer EXCEPT !.outcome = "no tag", !.status = "success"]
      BY <3>1, <3>2 DEF AnswerTaken, NoAnswer, SentInv
    <3>3. ASSUME NEW outcome \in TagOutcomes, NEW room \in {"none", "exact", "ample"},
                 answered' =
                   [outcome |-> outcome, status |-> Status(op.name, outcome),
                    data |-> IF Status(op.name, outcome) = "success" /\ room # "none"
                             THEN Parsed(op.name, room) ELSE "none",
                    room |-> room]
          PROVE  AnswerTaken'
      <4>1. Status(op.name, outcome) = "success" <=> outcome = "success"
        BY <3>1, StatusOfSuccess
      <4>2. outcome # "no tag"
        BY DEF TagOutcomes, CustomOutcomes
      <4>3. answered'.status = "success" <=> answered'.outcome \in {"success", "no tag"}
        BY <3>3, <4>1, <4>2
      <4>4. ASSUME answered'.outcome = "success", answered'.room # "none",
                   op.name = "ReadData" \/ Builder[op.name].answer # 0,
                   op.name \notin {"FifoWrite", "BlockPermaLock", "QTReadWrite",
                                   "ISOReadData"}
            PROVE  answered'.data = "taken"
        BY <3>1, <3>3, <4>1, <4>4, DataTaken
      <4>5. QED
        BY <3>1, <4>3, <4>4 DEF AnswerTaken
    <3>4. QED
      BY <2>8, <3>1, <3>2, <3>3 DEF TakeReport, SentInv
  <2>9. CASE UNCHANGED tagVars
    BY <2>9 DEF AnswerTaken, SentInv, tagVars, opVars
  <2>10. QED
    BY <2>2, <2>3, <2>4, <2>5, <2>6, <2>7, <2>8, <2>9 DEF TagNext
<1>3. QED
  BY <1>1, <1>2, PTL DEF TagSpec

-------------------------------------------------------------------------------
(* Where the arguments go.                                                 *)

(* What is in a sequence.                                                  *)
Members(s) == {s[i] : i \in 1..Len(s)}

(* A command lays out arguments that it is given.                          *)
RowOrdered(row) == Members(row.body) \subseteq Members(row.formals)

Ordered(f) == \A o \in DOMAIN f : RowOrdered(f[o])

(* The rows as the two functions write them.                               *)
LEMMA OrderedRow ==
  ASSUME NEW code, NEW head, NEW formals, NEW body, NEW answer,
         Members(body) \subseteq Members(formals)
  PROVE  /\ RowOrdered(Built(code, head, formals, body, answer))
         /\ RowOrdered(Specific(head, formals, body, answer))
BY DEF RowOrdered, Built, Specific

(* A sequence, of whatever.                                                *)
Listed(s) == Len(s) \in Nat /\ s = [i \in 1..Len(s) |-> s[i]]

(* Two sequences, one after the other.                                     *)
LEMMA ListedJoined ==
  ASSUME NEW s, NEW t, Listed(s), Listed(t)
  PROVE  Listed(s \o t)
<1>1. ASSUME NEW u, Listed(u) PROVE \E U : u \in Seq(U)
  <2>1. u \in Seq({u[i] : i \in 1..Len(u)})
    BY <1>1 DEF Listed
  <2>2. QED
    BY <2>1
<1>2. PICK S : s \in Seq(S)
  BY <1>1
<1>3. PICK T : t \in Seq(T)
  BY <1>1
<1>4. s \in Seq(S \cup T) /\ t \in Seq(S \cup T)
  BY <1>2, <1>3
<1>5. s \o t \in Seq(S \cup T)
  BY <1>4
<1>6. ASSUME NEW U, NEW u \in Seq(U) PROVE Listed(u)
  BY <1>6 DEF Listed
<1>7. QED
  BY <1>5, <1>6

(* What is in two sequences, one after the other.                          *)
LEMMA MembersJoined ==
  ASSUME NEW s, NEW t, Listed(s), Listed(t)
  PROVE  Members(s \o t) = Members(s) \cup Members(t)
<1> USE DEF Listed, Members
<1>1. ASSUME NEW i \in 1..Len(s) PROVE s[i] \in Members(s \o t)
  <2>1. i \in 1..Len(s \o t) /\ (s \o t)[i] = s[i]
    OBVIOUS
  <2>2. QED
    BY <2>1
<1>2. ASSUME NEW i \in 1..Len(t) PROVE t[i] \in Members(s \o t)
  <2>1. Len(s) + i \in 1..Len(s \o t) /\ (s \o t)[Len(s) + i] = t[i]
    OBVIOUS
  <2>2. QED
    BY <2>1
<1>3. ASSUME NEW i \in 1..Len(s \o t)
      PROVE  (s \o t)[i] \in Members(s) \cup Members(t)
  <2>1. CASE i \in 1..Len(s)
    BY <2>1
  <2>2. CASE i \notin 1..Len(s)
    <3>1. i - Len(s) \in 1..Len(t) /\ (s \o t)[i] = t[i - Len(s)]
      BY <2>2
    <3>2. QED
      BY <3>1
  <2>3. QED
    BY <2>1, <2>2
<1>4. QED
  BY <1>1, <1>2, <1>3

(* Tables put together.                                                    *)
LEMMA OrderedJoin ==
  ASSUME NEW f, NEW g, Ordered(f), Ordered(g)
  PROVE  Ordered(f ++ g)
BY DEF Ordered, ++

(* No command lays out an argument that its function is not given.         *)
LEMMA BuilderOrdered == Ordered(Builder)
<1> USE DEF Ordered
<1>1. Ordered(BuildStandard)
  <2>1. Members(<<"wordAddress", "bank", "data">>)
          \subseteq Members(<<"bank", "wordAddress", "data">>)
    BY DEF Members
  <2>2. Members(<<"accessPassword", "mask", "action">>)
          \subseteq Members(<<"mask", "action", "accessPassword">>)
    BY DEF Members
  <2>3. Members(<<"bank", "wordAddress", "len">>)
          \subseteq Members(<<"bank", "wordAddress", "len", "type">>)
    BY DEF Members
  <2>4. \A o \in {"WriteTag", "ReadData", "SecureReadData", "Kill"} :
          RowOrdered(BuildStandard[o])
    BY <2>3, OrderedRow DEF BuildStandard
  <2>5. \A o \in {"WriteData", "Lock"} : RowOrdered(BuildStandard[o])
    BY <2>1, <2>2, OrderedRow DEF BuildStandard
  <2>6. /\ RowOrdered(BuildStandard["BlockWrite"])
        /\ RowOrdered(BuildStandard["BlockPermaLock"])
        /\ RowOrdered(BuildStandard["BlockErase"])
    BY OrderedRow, Zenon DEF BuildStandard
  <2>7. QED
    BY <2>4, <2>5, <2>6, BuildStandardNames
<1>2. Ordered(BuildISO)
  <2>1. Members(<<"len", "byteAddress">>) \subseteq Members(<<"byteAddress", "len">>)
    BY DEF Members
  <2>2. QED
    BY <2>1, OrderedRow DEF BuildISO
<1>3. Ordered(BuildHiggs)
  <2>1. Members(<<"killPassword", "accessPassword", "epcptr">>)
          \subseteq Members(<<"accessPassword", "killPassword", "epcptr">>)
    BY DEF Members
  <2>2. Members(<<"killPassword", "accessPassword", "lockBits", "pcWord", "epcptr">>)
          \subseteq
            Members(<<"accessPassword", "killPassword", "lockBits", "pcWord", "epcptr">>)
    BY DEF Members
  <2>3. Ordered(BuildHiggs2)
    BY <2>1, <2>2, OrderedRow DEF BuildHiggs2
  <2>4. Members(<<"currentAccessPassword", "killPassword", "accessPassword", "pcWord",
                  "epcptr">>)
          \subseteq Members(<<"currentAccessPassword", "accessPassword", "killPassword",
                              "pcWord", "epcptr">>)
    BY DEF Members
  <2>5. Members(<<"currentAccessPassword", "killPassword", "accessPassword", "pcWord",
                  "epcAndUserData">>)
          \subseteq Members(<<"currentAccessPassword", "accessPassword", "killPassword",
                              "pcWord", "epcAndUserData">>)
    BY DEF Members
  <2>6. Ordered(BuildHiggs3)
    BY <2>4, <2>5, OrderedRow DEF BuildHiggs3
  <2>7. QED
    BY <2>3, <2>6, OrderedJoin DEF BuildHiggs
<1>4. Ordered(BuildNXP)
  <2>1. ASSUME NEW head, NEW arguments, Listed(arguments), NEW answer
        PROVE  RowOrdered(InOrder(head, arguments, answer))
    <3>1. Listed(<<"chipType">>)
      BY DEF Listed
    <3>2. QED
      BY <2>1, <3>1, MembersJoined, OrderedRow DEF InOrder
  <2>2. Ordered(BuildNXPA)
    <3>1. Listed(<<"accessPassword">>) /\ Listed(<<"accessPassword", "reset">>)
      BY DEF Listed
    <3>2. QED
      BY <2>1, <3>1 DEF BuildNXPA
  <2>3. Ordered(BuildNXPB)
    <3>1. Listed(<<"dr", "m", "trExt">>) /\ Listed(<<"accessPassword">>)
      BY DEF Listed
    <3>2. QED
      BY <2>1, <3>1 DEF BuildNXPB
  <2>4. Ordered(BuildNXPC)
    <3>1. Listed(<<"configWord">>)
      BY DEF Listed
    <3>2. QED
      BY <2>1, <3>1 DEF BuildNXPC
  <2>5. QED
    BY <2>2, <2>3, <2>4, OrderedJoin DEF BuildNXP
<1>5. Ordered(BuildAES)
  <2>1. Listed(<<"chipType", "subCommand">>)
    BY DEF Listed
  <2>2. Ordered(BuildUntraceable)
    <3> DEFINE config == <<"epc", "epcLength", "tid", "userMemory", "range">>
    <3>1. Listed(config)
      BY DEF Listed
    <3>2. Listed(<<"tam1Auth">>) /\ Listed(<<"auth.accessPassword">>)
      BY DEF Listed
    <3>3. ASSUME NEW s, Listed(s)
          PROVE  Members(config \o s)
                   \subseteq Members(<<"chipType", "subCommand">> \o config \o s)
      <4> HIDE DEF config
      <4>1. /\ Listed(config \o s)
            /\ Listed(<<"chipType", "subCommand">> \o config)
        BY <2>1, <3>1, <3>3, ListedJoined
      <4>2. /\ Members(config \o s) = Members(config) \cup Members(s)
            /\ Members(<<"chipType", "subCommand">> \o config \o s)
                 = Members(<<"chipType", "subCommand">>) \cup Members(config) \cup Members(s)
        BY <2>1, <3>1, <3>3, <4>1, MembersJoined
      <4>3. QED
        BY <4>2
    <3>4. QED
      BY <3>2, <3>3, OrderedRow DEF BuildUntraceable
  <2>3. Ordered(BuildAuthenticate)
    <3>1. Listed(<<"tam1Auth">>) /\ Listed(<<"tam1Auth", "tam2Auth">>)
      BY DEF Listed
    <3>2. QED
      BY <2>1, <3>1, MembersJoined, OrderedRow DEF BuildAuthenticate
  <2>4. Ordered(BuildReadBuffer)
    <3>1. /\ Listed(<<"wordPointer", "bitCount", "tam1Auth">>)
          /\ Listed(<<"wordPointer", "bitCount", "tam1Auth", "tam2Auth">>)
      BY DEF Listed
    <3>2. QED
      BY <2>1, <3>1, MembersJoined, OrderedRow DEF BuildReadBuffer
  <2>5. QED
    BY <2>2, <2>3, <2>4, OrderedJoin DEF BuildAES
<1>6. Ordered(BuildMonza)
  BY OrderedRow DEF BuildMonza
<1>7. Ordered(BuildIDS)
  <2>0. ASSUME NEW arguments, Listed(arguments), NEW answer
        PROVE  RowOrdered(IDSCommand(arguments, answer))
    <3>1. /\ Listed(<<"CommandCode", "Password", "level">>)
          /\ Listed(<<"level", "Password">>)
      BY DEF Listed
    <3>2. Members(<<"level", "Password">>)
            \subseteq Members(<<"CommandCode", "Password", "level">>)
      BY DEF Members
    <3>3. Members(<<"level", "Password">> \o arguments)
            \subseteq Members(<<"CommandCode", "Password", "level">> \o arguments)
      BY <2>0, <3>1, <3>2, MembersJoined
    <3>4. QED
      BY <3>3, OrderedRow DEF IDSCommand
  <2>1. Ordered(BuildIDSA)
    <3>1. Listed(<<"batteryType">>) /\ Listed(<<"sensortype">>)
      BY DEF Listed
    <3>2. QED
      BY <2>0, <3>1 DEF BuildIDSA
  <2>2. Ordered(BuildIDSB)
    <3>1. Listed(<<>>)
      BY DEF Listed
    <3>2. QED
      BY <2>0, <3>1 DEF BuildIDSB
  <2>3. Ordered(BuildIDSC)
    <3>1. Listed(<<"delayTime", "applicationData">>)
      BY DEF Listed
    <3>2. Listed(<<"dataLog", "rule", "Ext1Enable", "Ext2Enable", "TempEnable",
                   "BattEnable", "LogInterval">>)
      BY DEF Listed
    <3>3. QED
      BY <2>0, <3>1, <3>2 DEF BuildIDSC
  <2>4. Ordered(BuildIDSD)
    <3>1. Members(<<"level", "Password", "NewPasswordLevel", "NewPassword">>)
            \subseteq Members(<<"CommandCode", "Password", "level", "NewPassword",
                                "NewPasswordLevel">>)
      BY DEF Members
    <3>2. Listed(<<>>)
      BY DEF Listed
    <3>3. RowOrdered(BuildIDSD["EndLog"])
      BY <2>0, <3>2 DEF BuildIDSD
    <3>4. RowOrdered(BuildIDSD["SetPassword"])
      BY <3>1, OrderedRow, Zenon DEF BuildIDSD
    <3>5. QED
      BY <3>3, <3>4, BuildIDSDNames
  <2>5. Ordered(BuildIDSE)
    <3>1. Listed(<<"operation">>) /\ Listed(<<"operation", "length">>)
      BY DEF Listed
    <3>2. QED
      BY <2>0, <3>1 DEF BuildIDSE
  <2>6. Ordered(BuildIDSF)
    <3>1. Listed(<<"startTime">>) /\ Listed(<<"operation", "payLoad">>)
      BY DEF Listed
    <3>2. QED
      BY <2>0, <3>1 DEF BuildIDSF
  <2>7. Ordered(BuildIDSG)
    <3>1. Listed(<<>>) /\ Listed(<<"cal">>)
      BY DEF Listed
    <3>2. QED
      BY <2>0, <3>1 DEF BuildIDSG
  <2>8. Ordered(BuildIDSH) /\ Ordered(BuildIDSI)
    <3>1. Listed(<<"sfe">>)
      BY DEF Listed
    <3>2. Listed(<<"extremeLower", "lower", "upper", "extremeUpper">>)
      BY DEF Listed
    <3>3. Listed(<<"shelfLifeBlock0", "shelfLifeBlock1">>)
      BY DEF Listed
    <3>4. QED
      BY <2>0, <3>1, <3>2, <3>3 DEF BuildIDSH, BuildIDSI
  <2>9. QED
    BY <2>1, <2>2, <2>3, <2>4, <2>5, <2>6, <2>7, <2>8, OrderedJoin DEF BuildIDS
<1>8. Ordered(BuildIAV)
  <2>0. ASSUME NEW arguments, Listed(arguments)
        PROVE  RowOrdered(IAVCommand(arguments))
    <3>1. Listed(<<"mode">>)
      BY DEF Listed
    <3>2. QED
      BY <2>0, <3>1, MembersJoined, OrderedRow DEF IAVCommand
  <2>1. Listed(<<"payload">>) /\ Listed(<<"payload", "readPtr">>)
    BY DEF Listed
  <2>2. Ordered(BuildIAVA)
    <3>1. Ordered([o \in IAVOps |-> IAVCommand(<<"payload">>)])
      BY <2>0, <2>1
    <3>2. Ordered([ReadMemMap |-> IAVCommand(<<"payload", "readPtr">>)])
      BY <2>0, <2>1
    <3>3. QED
      BY <3>1, <3>2, OrderedJoin DEF BuildIAVA
  <2>3. Ordered(BuildIAVB)
    <3>1. Members(<<"payload">>)
            \subseteq Members(<<"mode", "payload", "isTokenDesc", "token">>)
      BY DEF Members
    <3>2. Members(<<"payload", "token">>)
            \subseteq Members(<<"mode", "payload", "isTokenDesc", "token">>)
      BY DEF Members
    <3>3. QED
      BY <2>0, <2>1, <3>1, <3>2, OrderedRow DEF BuildIAVB
  <2>4. Ordered(BuildIAVC)
    <3>1. Listed(<<"payload", "writePtr", "wordData", "tagIdentification", "dataBuf">>)
      BY DEF Listed
    <3>2. QED
      BY <2>0, <3>1 DEF BuildIAVC
  <2>5. Ordered(BuildIAVD)
    <3>1. Listed(<<>>) /\ Listed(<<"payload", "dataWords", "dataBuf">>)
      BY DEF Listed
    <3>2. QED
      BY <2>0, <3>1 DEF BuildIAVD
  <2>6. QED
    BY <2>2, <2>3, <2>4, <2>5, OrderedJoin DEF BuildIAV
<1>9. QED
  BY <1>1, <1>2, <1>3, <1>4, <1>5, <1>6, <1>7, <1>8, OrderedJoin DEF Builder

(* Arguments by position: of the function that lays out, of the call.      *)
LEMMA Positions ==
  /\ \A code, head, formals, body, answer :
       /\ Built(code, head, formals, body, answer).formals = formals
       /\ Specific(head, formals, body, answer).formals = formals
  /\ \A head, arguments, answer :
       InOrder(head, arguments, answer).formals = <<"chipType">> \o arguments
  /\ \A arguments, answer : IDSCommand(arguments, answer).formals = IDSCall(arguments).actuals
  /\ \A arguments : IAVCommand(arguments).formals = IAVCall(arguments).actuals
  /\ \A select, actuals : Call(select, actuals).actuals = actuals
<1>1. \A code, head, formals, body, answer :
        /\ Built(code, head, formals, body, answer).formals = formals
        /\ Specific(head, formals, body, answer).formals = formals
  BY DEF Built, Specific
<1>2. \A select, actuals : Call(select, actuals).actuals = actuals
  BY DEF Call
<1>3. \A head, arguments, answer :
        InOrder(head, arguments, answer).formals = <<"chipType">> \o arguments
  BY DEF InOrder, Specific, Built
<1>4. \A arguments, answer : IDSCommand(arguments, answer).formals = IDSCall(arguments).actuals
  BY <1>1, <1>2 DEF IDSCommand, IDSCall
<1>5. \A arguments : IAVCommand(arguments).formals = IAVCall(arguments).actuals
  BY <1>1, <1>2 DEF IAVCommand, IAVCall
<1>6. QED
  BY <1>1, <1>2, <1>3, <1>4, <1>5

(* Sequences with the same elements.                                       *)
LEMMA SameList ==
  ASSUME NEW s, NEW t, Listed(s), Listed(t), Len(s) = Len(t),
         \A i \in 1..Len(s) : s[i] = t[i]
  PROVE  s = t
BY DEF Listed

(* Tuples, one after the other.                                            *)
LEMMA TuplesJoined ==
  /\ \A a, b : <<a>> \o <<b>> = <<a, b>>
  /\ \A a, b, c : <<a>> \o <<b, c>> = <<a, b, c>>
  /\ \A a, b, c, d : <<a>> \o <<b, c, d>> = <<a, b, c, d>>
  /\ \A a, b, c, d, e : <<a, b, c>> \o <<d, e>> = <<a, b, c, d, e>>
<1>1. ASSUME NEW a, NEW b
      PROVE  <<a>> \o <<b>> = <<a, b>>
  <2>1. \A i \in 1..2 : (<<a>> \o <<b>>)[i] = <<a, b>>[i]
    OBVIOUS
  <2>2. Len(<<a>> \o <<b>>) = 2 /\ Len(<<a, b>>) = 2
    OBVIOUS
  <2>3. Listed(<<a>>) /\ Listed(<<b>>) /\ Listed(<<a, b>>)
    BY DEF Listed
  <2>4. Listed(<<a>> \o <<b>>)
    BY <2>3, ListedJoined
  <2>5. QED
    BY <2>1, <2>2, <2>3, <2>4, SameList
<1>2. ASSUME NEW a, NEW b, NEW c
      PROVE  <<a>> \o <<b, c>> = <<a, b, c>>
  <2>1. \A i \in 1..3 : (<<a>> \o <<b, c>>)[i] = <<a, b, c>>[i]
    OBVIOUS
  <2>2. Len(<<a>> \o <<b, c>>) = 3 /\ Len(<<a, b, c>>) = 3
    OBVIOUS
  <2>3. Listed(<<a>>) /\ Listed(<<b, c>>) /\ Listed(<<a, b, c>>)
    BY DEF Listed
  <2>4. Listed(<<a>> \o <<b, c>>)
    BY <2>3, ListedJoined
  <2>5. QED
    BY <2>1, <2>2, <2>3, <2>4, SameList
<1>3. ASSUME NEW a, NEW b, NEW c, NEW d
      PROVE  <<a>> \o <<b, c, d>> = <<a, b, c, d>>
  <2>1. \A i \in 1..4 : (<<a>> \o <<b, c, d>>)[i] = <<a, b, c, d>>[i]
    OBVIOUS
  <2>2. Len(<<a>> \o <<b, c, d>>) = 4 /\ Len(<<a, b, c, d>>) = 4
    OBVIOUS
  <2>3. Listed(<<a>>) /\ Listed(<<b, c, d>>) /\ Listed(<<a, b, c, d>>)
    BY DEF Listed
  <2>4. Listed(<<a>> \o <<b, c, d>>)
    BY <2>3, ListedJoined
  <2>5. QED
    BY <2>1, <2>2, <2>3, <2>4, SameList
<1>4. ASSUME NEW a, NEW b, NEW c, NEW d, NEW e
      PROVE  <<a, b, c>> \o <<d, e>> = <<a, b, c, d, e>>
  <2>1. \A i \in 1..5 : (<<a, b, c>> \o <<d, e>>)[i] = <<a, b, c, d, e>>[i]
    OBVIOUS
  <2>2. Len(<<a, b, c>> \o <<d, e>>) = 5 /\ Len(<<a, b, c, d, e>>) = 5
    OBVIOUS
  <2>3. Listed(<<a, b, c>>) /\ Listed(<<d, e>>) /\ Listed(<<a, b, c, d, e>>)
    BY DEF Listed
  <2>4. Listed(<<a, b, c>> \o <<d, e>>)
    BY <2>3, ListedJoined
  <2>5. QED
    BY <2>1, <2>2, <2>3, <2>4, SameList
<1>5. QED
  BY Zenon, <1>1, <1>2, <1>3, <1>4

(* A direct execution gives the arguments in the order in which the        *)
(* function that it calls takes them.                                      *)
Direct(f) == \A o \in DOMAIN f : o \in DOMAIN Builder /\ f[o].actuals = DirectFormals(o)

(* Tables put together.                                                    *)
LEMMA DirectJoin ==
  ASSUME NEW f, NEW g, Direct(f), Direct(g)
  PROVE  Direct(f ++ g)
BY DEF Direct, ++

(* ... which is mostly the order of the function that lays them out.       *)
Matching(f, t) ==
  \A o \in DOMAIN f : o \in DOMAIN t /\ f[o].actuals = t[o].formals

(* The Denatran commands, whose functions take what they lay out.          *)
LEMMA MatchingDirect ==
  ASSUME NEW f, NEW t, Matching(f, t), Part(t, Builder), "BlockErase" \notin DOMAIN f
  PROVE  Direct(f)
BY DEF Matching, Part, Direct, DirectFormals

(* The commands of IAV: with the payload only, with a token, with the      *)
(* place to be read.                                                       *)
LEMMA IAVMatching ==
  /\ Matching([o \in IAVOps |-> IAVCall(<<"payload">>)], BuildIAV)
  /\ Matching([o \in {"Siniav", "SiniavToken"} |->
                 IAVCall(<<"payload", "isTokenDesc", "token">>)], BuildIAV)
  /\ Matching([o \in {"ReadMemMap", "ReadSec"} |-> IAVCall(<<"payload", "readPtr">>)],
              BuildIAV)
<1>1. \A o \in IAVOps : o \in DOMAIN BuildIAVA /\ BuildIAVA[o] = IAVCommand(<<"payload">>)
  BY DEF BuildIAVA, ++
<1>2. Matching([o \in IAVOps |-> IAVCall(<<"payload">>)], BuildIAV)
  BY <1>1, Positions, BuildIAVParts DEF Matching, Part
<1>3. \A o \in {"Siniav", "SiniavToken"} :
        BuildIAV[o].formals = <<"mode", "payload", "isTokenDesc", "token">>
  <2>1. \A o \in {"Siniav", "SiniavToken"} :
          BuildIAVB[o].formals = <<"mode", "payload", "isTokenDesc", "token">>
    BY DEF BuildIAVB, Specific, Built
  <2>2. QED
    BY <2>1, BuildIAVParts, BuildIAVBNames DEF Part
<1>4. IAVCall(<<"payload", "isTokenDesc", "token">>).actuals
        = <<"mode", "payload", "isTokenDesc", "token">>
  <2>1. <<"mode">> \o <<"payload", "isTokenDesc", "token">>
          = <<"mode", "payload", "isTokenDesc", "token">>
    BY TuplesJoined
  <2>2. IAVCall(<<"payload", "isTokenDesc", "token">>).actuals
          = <<"mode">> \o <<"payload", "isTokenDesc", "token">>
    BY DEF IAVCall, Call
  <2>3. QED
    BY <2>1, <2>2
<1>5. Matching([o \in {"Siniav", "SiniavToken"} |->
                  IAVCall(<<"payload", "isTokenDesc", "token">>)], BuildIAV)
  BY <1>3, <1>4, BuildIAVNames DEF Matching
<1>6. \A o \in {"ReadMemMap", "ReadSec"} : BuildIAV[o] = IAVCommand(<<"payload", "readPtr">>)
  <2>1. "ReadMemMap" \notin IAVOps
    BY DEF IAVOps
  <2>2. BuildIAVA["ReadMemMap"] = IAVCommand(<<"payload", "readPtr">>)
    BY <2>1 DEF BuildIAVA, ++
  <2>3. BuildIAVB["ReadSec"] = IAVCommand(<<"payload", "readPtr">>)
    BY DEF BuildIAVB
  <2>4. QED
    BY <2>2, <2>3, BuildIAVParts, BuildIAVANames, BuildIAVBNames DEF Part
<1>7. Matching([o \in {"ReadMemMap", "ReadSec"} |-> IAVCall(<<"payload", "readPtr">>)],
               BuildIAV)
  BY <1>6, Positions, BuildIAVNames DEF Matching
<1>8. QED
  BY <1>2, <1>5, <1>7

(* Each table of TMR_SR_executeTagOp.                                      *)
LEMMA TablesDirect ==
  /\ Direct(ExecuteStandard) /\ Direct(ExecuteHiggs) /\ Direct(ExecuteNXP)
  /\ Direct(ExecuteAES) /\ Direct(ExecuteMonza) /\ Direct(ExecuteIDSA)
  /\ Direct(ExecuteIDSB) /\ Direct(ExecuteIDSC) /\ Direct(ExecuteIAVA)
  /\ Direct(ExecuteIAVB) /\ Direct(ExecuteISO)
<1>1. Direct(ExecuteStandard)
  <2>1. \A o \in DOMAIN BuildStandard \ {"BlockErase", "SecureReadData"} :
          ExecuteStandard[o].actuals = BuildStandard[o].formals
    BY Positions DEF BuildStandard, ExecuteStandard
  <2>2. ExecuteStandard["BlockErase"].actuals = DirectFormals("BlockErase")
    BY Positions DEF ExecuteStandard, DirectFormals
  <2>3. DOMAIN ExecuteStandard = DOMAIN BuildStandard \ {"SecureReadData"}
    BY BuildStandardNames DEF ExecuteStandard
  <2>4. QED
    BY <2>1, <2>2, <2>3, BuilderParts DEF Direct, Part, DirectFormals
<1>2. Direct(ExecuteHiggs)
  <2>1. \A o \in DOMAIN BuildHiggs2 : ExecuteHiggs[o].actuals = BuildHiggs2[o].formals
    BY Positions DEF BuildHiggs2, ExecuteHiggs
  <2>2. \A o \in DOMAIN BuildHiggs3 : ExecuteHiggs[o].actuals = BuildHiggs3[o].formals
    BY Positions DEF BuildHiggs3, ExecuteHiggs
  <2>3. DOMAIN ExecuteHiggs = DOMAIN BuildHiggs
    BY BuildHiggsNames DEF ExecuteHiggs
  <2>4. Matching(ExecuteHiggs, BuildHiggs)
    BY <2>1, <2>2, <2>3, BuildHiggsParts, BuildHiggsNames, BuildHiggs2Names,
       BuildHiggs3Names DEF Matching, Part
  <2>5. QED
    BY <2>3, <2>4, MatchingDirect, BuilderParts, BuildHiggsNames
<1>3. Direct(ExecuteNXP)
  <2>1. /\ <<"chipType">> \o <<"accessPassword">> = <<"chipType", "accessPassword">>
        /\ <<"chipType">> \o <<"accessPassword", "reset">>
             = <<"chipType", "accessPassword", "reset">>
        /\ <<"chipType">> \o <<"dr", "m", "trExt">> = <<"chipType", "dr", "m", "trExt">>
        /\ <<"chipType">> \o <<"configWord">> = <<"chipType", "configWord">>
    BY TuplesJoined
  <2>2. \A o \in {"SetReadProtect", "ResetReadProtect", "Calibrate"} :
          /\ BuildNXP[o].formals = <<"chipType">> \o <<"accessPassword">>
          /\ ExecuteNXP[o].actuals = <<"chipType", "accessPassword">>
    <3>1. \A o \in {"SetReadProtect", "ResetReadProtect"} :
            BuildNXPA[o].formals = <<"chipType">> \o <<"accessPassword">>
      BY DEF BuildNXPA, InOrder, Specific, Built
    <3>2. BuildNXPB["Calibrate"].formals = <<"chipType">> \o <<"accessPassword">>
      BY DEF BuildNXPB, InOrder, Specific, Built
    <3>3. \A o \in {"SetReadProtect", "ResetReadProtect", "Calibrate"} :
            ExecuteNXP[o].actuals = <<"chipType", "accessPassword">>
      BY Positions DEF ExecuteNXP
    <3>4. QED
      BY <3>1, <3>2, <3>3, BuildNXPParts, BuildNXPANames, BuildNXPBNames DEF Part
  <2>3. /\ BuildNXP["ChangeEAS"].formals = <<"chipType">> \o <<"accessPassword", "reset">>
        /\ ExecuteNXP["ChangeEAS"].actuals = <<"chipType", "accessPassword", "reset">>
    <3>1. BuildNXPA["ChangeEAS"].formals = <<"chipType">> \o <<"accessPassword", "reset">>
      BY DEF BuildNXPA, InOrder, Specific, Built
    <3>2. ExecuteNXP["ChangeEAS"].actuals = <<"chipType", "accessPassword", "reset">>
      BY Positions DEF ExecuteNXP
    <3>3. QED
      BY <3>1, <3>2, BuildNXPParts, BuildNXPANames DEF Part
  <2>4. /\ BuildNXP["EASAlarm"].formals = <<"chipType">> \o <<"dr", "m", "trExt">>
        /\ ExecuteNXP["EASAlarm"].actuals = <<"chipType", "dr", "m", "trExt">>
    <3>1. BuildNXPB["EASAlarm"].formals = <<"chipType">> \o <<"dr", "m", "trExt">>
      BY DEF BuildNXPB, InOrder, Specific, Built
    <3>2. ExecuteNXP["EASAlarm"].actuals = <<"chipType", "dr", "m", "trExt">>
      BY Positions DEF ExecuteNXP
    <3>3. QED
      BY <3>1, <3>2, BuildNXPParts, BuildNXPBNames DEF Part
  <2>5. /\ BuildNXP["ChangeConfig"].formals = <<"chipType">> \o <<"configWord">>
        /\ ExecuteNXP["ChangeConfig"].actuals = <<"chipType", "configWord">>
    <3>1. BuildNXPC["ChangeConfig"].formals = <<"chipType">> \o <<"configWord">>
      BY DEF BuildNXPC, InOrder, Specific, Built
    <3>2. ExecuteNXP["ChangeConfig"].actuals = <<"chipType", "configWord">>
      BY Positions DEF ExecuteNXP
    <3>3. QED
      BY <3>1, <3>2, BuildNXPParts, BuildNXPCNames DEF Part
  <2>6. DOMAIN ExecuteNXP = DOMAIN BuildNXP
    BY BuildNXPNames DEF ExecuteNXP
  <2>7. Matching(ExecuteNXP, BuildNXP)
    BY <2>1, <2>2, <2>3, <2>4, <2>5, <2>6, BuildNXPNames DEF Matching
  <2>8. QED
    BY <2>6, <2>7, MatchingDirect, BuilderParts, BuildNXPNames
<1>4. Direct(ExecuteAES)
  BY BuilderParts, BuildAESNames, Positions DEF ExecuteAES, Direct, Part, DirectFormals
<1>5. Direct(ExecuteMonza)
  <2>1. ExecuteMonza["QTReadWrite"].actuals = BuildMonza["QTReadWrite"].formals
    BY Positions DEF BuildMonza, ExecuteMonza
  <2>2. DOMAIN ExecuteMonza = {"QTReadWrite"}
    BY DEF ExecuteMonza
  <2>3. QED
    BY <2>1, <2>2, BuildMonzaNames, BuilderParts DEF Direct, Part, DirectFormals
<1>6. Direct(ExecuteIDSA) /\ Direct(ExecuteIDSB) /\ Direct(ExecuteIDSC)
  <2>0. ASSUME NEW f, Matching(f, BuildIDS)
        PROVE  Direct(f)
    BY <2>0, MatchingDirect, BuilderParts, BuildIDSNames DEF Matching
  <2>1. Matching(ExecuteIDSA, BuildIDS)
    <3>1. ExecuteIDSA["GetSensor"].actuals = BuildIDSA["GetSensor"].formals
      BY Positions DEF ExecuteIDSA, BuildIDSA
    <3>2. \A o \in DOMAIN BuildIDSB : ExecuteIDSA[o].actuals = BuildIDSB[o].formals
      BY Positions DEF ExecuteIDSA, BuildIDSB
    <3>3. \A o \in DOMAIN BuildIDSG : ExecuteIDSA[o].actuals = BuildIDSG[o].formals
      BY Positions DEF ExecuteIDSA, BuildIDSG
    <3>4. ExecuteIDSA["SetSfe"].actuals = BuildIDSH["SetSfe"].formals
      BY Positions DEF ExecuteIDSA, BuildIDSH
    <3>5. DOMAIN ExecuteIDSA = {"GetSensor", "GetMeasurementSetup", "GetCalibration",
                                "SetCalibration", "SetSfe", "GetLogState"}
      BY DEF ExecuteIDSA
    <3>6. QED
      BY <3>1, <3>2, <3>3, <3>4, <3>5, BuildIDSParts, BuildIDSANames, BuildIDSBNames,
         BuildIDSGNames, BuildIDSHNames DEF Matching, Part
  <2>2. Matching(ExecuteIDSB, BuildIDS)
    <3>1. \A o \in DOMAIN BuildIDSC : ExecuteIDSB[o].actuals = BuildIDSC[o].formals
      BY Positions DEF ExecuteIDSB, BuildIDSC
    <3>2. ExecuteIDSB["EndLog"].actuals = BuildIDSD["EndLog"].formals
      BY Positions DEF ExecuteIDSB, BuildIDSD
    <3>3. ExecuteIDSB["SetPassword"].actuals = BuildIDSD["SetPassword"].formals
      <4>1. <<"CommandCode", "Password", "level">> \o <<"NewPassword", "NewPasswordLevel">>
              = <<"CommandCode", "Password", "level", "NewPassword", "NewPasswordLevel">>
        BY TuplesJoined
      <4>2. ExecuteIDSB["SetPassword"].actuals
              = <<"CommandCode", "Password", "level">>
                  \o <<"NewPassword", "NewPasswordLevel">>
        BY DEF ExecuteIDSB, IDSCall, Call
      <4>3. BuildIDSD["SetPassword"].formals
              = <<"CommandCode", "Password", "level", "NewPassword", "NewPasswordLevel">>
        BY DEF BuildIDSD, Specific, Built
      <4>4. QED
        BY <4>1, <4>2, <4>3
    <3>4. \A o \in DOMAIN BuildIDSE : ExecuteIDSB[o].actuals = BuildIDSE[o].formals
      BY Positions DEF ExecuteIDSB, BuildIDSE
    <3>5. DOMAIN ExecuteIDSB = {"SetLogMode", "Initialize", "InitializeTimer", "EndLog",
                                "SetPassword", "FifoStatus", "FifoRead"}
      BY DEF ExecuteIDSB
    <3>6. QED
      BY <3>1, <3>2, <3>3, <3>4, <3>5, BuildIDSParts, BuildIDSCNames, BuildIDSDNames,
         BuildIDSENames DEF Matching, Part
  <2>3. Matching(ExecuteIDSC, BuildIDS)
    <3>1. \A o \in DOMAIN BuildIDSF : ExecuteIDSC[o].actuals = BuildIDSF[o].formals
      BY Positions DEF ExecuteIDSC, BuildIDSF
    <3>2. ExecuteIDSC["GetBattery"].actuals = BuildIDSA["GetBattery"].formals
      BY Positions DEF ExecuteIDSC, BuildIDSA
    <3>3. ExecuteIDSC["SetLogLimits"].actuals = BuildIDSH["SetLogLimits"].formals
      BY Positions DEF ExecuteIDSC, BuildIDSH
    <3>4. ExecuteIDSC["SetShelfLife"].actuals = BuildIDSI["SetShelfLife"].formals
      BY Positions DEF ExecuteIDSC, BuildIDSI
    <3>5. DOMAIN ExecuteIDSC = {"FifoWrite", "StartLog", "GetBattery", "SetLogLimits",
                                "SetShelfLife"}
      BY DEF ExecuteIDSC
    <3>6. QED
      BY <3>1, <3>2, <3>3, <3>4, <3>5, BuildIDSParts, BuildIDSANames, BuildIDSFNames,
         BuildIDSHNames, BuildIDSINames DEF Matching, Part
  <2>4. QED
    BY <2>0, <2>1, <2>2, <2>3
<1>7. Direct(ExecuteIAVA) /\ Direct(ExecuteIAVB)
  <2>0. ASSUME NEW f, Matching(f, BuildIAV)
        PROVE  Direct(f)
    BY <2>0, MatchingDirect, BuilderParts, BuildIAVNames DEF Matching
  <2>1. Direct([o \in IAVOps |-> IAVCall(<<"payload">>)])
    BY <2>0, IAVMatching
  <2>2. Direct([o \in {"Siniav", "SiniavToken"} |->
                  IAVCall(<<"payload", "isTokenDesc", "token">>)])
    BY <2>0, IAVMatching
  <2>3. Direct([ReadMemMap |-> IAVCall(<<"payload", "readPtr">>)])
    <3>1. Matching([ReadMemMap |-> IAVCall(<<"payload", "readPtr">>)], BuildIAV)
      BY IAVMatching DEF Matching
    <3>2. QED
      BY <2>0, <3>1
  <2>4. Direct(ExecuteIAVA)
    BY <2>1, <2>2, <2>3, DirectJoin DEF ExecuteIAVA
  <2>5. Direct(ExecuteIAVB)
    <3>1. ExecuteIAVB["ReadSec"].actuals = BuildIAVB["ReadSec"].formals
      BY Positions DEF ExecuteIAVB, BuildIAVB
    <3>2. ExecuteIAVB["WriteMemMap"].actuals = BuildIAVC["WriteMemMap"].formals
      BY Positions DEF ExecuteIAVB, BuildIAVC
    <3>3. \A o \in DOMAIN BuildIAVD : ExecuteIAVB[o].actuals = BuildIAVD[o].formals
      BY Positions DEF ExecuteIAVB, BuildIAVD
    <3>4. DOMAIN ExecuteIAVB = {"ReadSec", "WriteMemMap", "WriteSec", "GetTokenId"}
      BY DEF ExecuteIAVB
    <3>5. Matching(ExecuteIAVB, BuildIAV)
      BY <3>1, <3>2, <3>3, <3>4, BuildIAVParts, BuildIAVBNames, BuildIAVCNames,
         BuildIAVDNames DEF Matching, Part
    <3>6. QED
      BY <2>0, <3>5
  <2>6. QED
    BY <2>4, <2>5
<1>8. Direct(ExecuteISO)
  <2>1. \A o \in DOMAIN BuildISO : ExecuteISO[o].actuals = BuildISO[o].formals
    BY Positions DEF ExecuteISO, BuildISO
  <2>2. DOMAIN ExecuteISO = DOMAIN BuildISO
    BY BuildISONames DEF ExecuteISO
  <2>3. QED
    BY <2>1, <2>2, BuildISONames, BuilderParts DEF Direct, Part, DirectFormals
<1>9. QED
  BY <1>1, <1>2, <1>3, <1>4, <1>5, <1>6, <1>7, <1>8

(* TMR_SR_executeTagOp as a whole: every actual argument is where the      *)
(* function it calls expects it.                                           *)
LEMMA ExecuteDirect == Direct(Execute)
BY TablesDirect, DirectJoin DEF Execute, ExecuteIDS

(* A search gives the arguments in the order of the function that lays     *)
(* them out; a lock gives no password.                                     *)
Placed(o, actuals) ==
  \/ actuals = Builder[o].formals
  \/ o = "Lock" /\ actuals = <<"mask", "action", "zero">>

Embeds(f) == \A o \in DOMAIN f : o \in DOMAIN Builder /\ Placed(o, f[o].actuals)

(* Tables put together.                                                    *)
LEMMA EmbedsJoin ==
  ASSUME NEW f, NEW g, Embeds(f), Embeds(g)
  PROVE  Embeds(f ++ g)
BY DEF Embeds, ++

(* ... as a direct execution does for most operations.                     *)
LEMMA AsDirect ==
  ASSUME NEW f, NEW g, Direct(g), "BlockErase" \notin DOMAIN f,
         \A o \in DOMAIN f : o \in DOMAIN g /\ f[o].actuals = g[o].actuals
  PROVE  Embeds(f)
BY DEF Direct, DirectFormals, Embeds, Placed

(* TMR_SR_addTagOp as a whole: every actual argument is where the function *)
(* it calls expects it.                                                    *)
LEMMA EmbedEmbeds == Embeds(Embed)
<1>1. Embeds(EmbedStandard)
  <2>1. \A o \in {"WriteTag", "ReadData", "WriteData", "Kill", "BlockWrite"} :
          EmbedStandard[o].actuals = ExecuteStandard[o].actuals
    BY Positions DEF EmbedStandard, ExecuteStandard
  <2>2. EmbedStandard["SecureReadData"].actuals = BuildStandard["SecureReadData"].formals
    BY Positions DEF EmbedStandard, BuildStandard
  <2>3. EmbedStandard["Lock"].actuals = <<"mask", "action", "zero">>
    BY Positions DEF EmbedStandard
  <2>4. /\ DOMAIN EmbedStandard = {"WriteTag", "ReadData", "SecureReadData", "WriteData",
                                   "Lock", "Kill", "BlockWrite"}
        /\ {"WriteTag", "ReadData", "WriteData", "Kill", "BlockWrite"}
             \subseteq DOMAIN ExecuteStandard
    BY DEF EmbedStandard, ExecuteStandard
  <2>5. \A o \in {"WriteTag", "ReadData", "WriteData", "Kill", "BlockWrite"} :
          o \in DOMAIN Builder /\ Placed(o, EmbedStandard[o].actuals)
    BY <2>1, <2>4, TablesDirect DEF Direct, DirectFormals, Placed
  <2>6. \A o \in {"SecureReadData", "Lock"} :
          o \in DOMAIN Builder /\ Placed(o, EmbedStandard[o].actuals)
    BY <2>2, <2>3, BuilderParts, BuildStandardNames DEF Part, Placed
  <2>7. QED
    BY <2>4, <2>5, <2>6 DEF Embeds
<1>2. Embeds(EmbedBlock)
  <2>1. \A o \in {"BlockPermaLock", "BlockErase"} :
          EmbedBlock[o].actuals = BuildStandard[o].formals
    BY Positions DEF EmbedBlock, BuildStandard
  <2>2. DOMAIN EmbedBlock = {"BlockPermaLock", "BlockErase"}
    BY DEF EmbedBlock
  <2>3. QED
    BY <2>1, <2>2, BuilderParts, BuildStandardNames DEF Part, Embeds, Placed
<1>3. Embeds(EmbedHiggs)
  <2>1. \A o \in DOMAIN EmbedHiggs :
          o \in DOMAIN ExecuteHiggs /\ EmbedHiggs[o].actuals = ExecuteHiggs[o].actuals
    BY Positions DEF EmbedHiggs, ExecuteHiggs
  <2>2. "BlockErase" \notin DOMAIN EmbedHiggs
    BY DEF EmbedHiggs
  <2>3. QED
    BY <2>1, <2>2, TablesDirect, AsDirect
<1>4. Embeds(EmbedNXP)
  <2>1. \A o \in DOMAIN EmbedNXP :
          o \in DOMAIN ExecuteNXP /\ EmbedNXP[o].actuals = ExecuteNXP[o].actuals
    BY Positions DEF EmbedNXP, ExecuteNXP
  <2>2. "BlockErase" \notin DOMAIN EmbedNXP
    BY DEF EmbedNXP
  <2>3. QED
    BY <2>1, <2>2, TablesDirect, AsDirect
<1>5. Embeds(EmbedMonza)
  <2>1. \A o \in DOMAIN EmbedMonza :
          o \in DOMAIN ExecuteMonza /\ EmbedMonza[o].actuals = ExecuteMonza[o].actuals
    BY Positions DEF EmbedMonza, ExecuteMonza
  <2>2. "BlockErase" \notin DOMAIN EmbedMonza
    BY DEF EmbedMonza
  <2>3. QED
    BY <2>1, <2>2, TablesDirect, AsDirect
<1>6. Embeds(EmbedIDS)
  <2>1. Embeds(EmbedIDSA)
    <3>1. \A o \in DOMAIN EmbedIDSA :
            o \in DOMAIN ExecuteIDSA /\ EmbedIDSA[o].actuals = ExecuteIDSA[o].actuals
      BY Positions DEF EmbedIDSA, ExecuteIDSA
    <3>2. "BlockErase" \notin DOMAIN EmbedIDSA
      BY DEF EmbedIDSA
    <3>3. QED
      BY <3>1, <3>2, TablesDirect, AsDirect
  <2>2. Embeds(EmbedIDSB)
    <3>1. DOMAIN EmbedIDSB = {"SetLogMode", "Initialize", "InitializeTimer", "EndLog",
                              "SetPassword", "StartLog", "FifoStatus", "FifoRead",
                              "FifoWrite"}
      BY DEF EmbedIDSB
    <3>2. \A o \in {"SetLogMode", "Initialize", "InitializeTimer", "EndLog", "SetPassword",
                    "FifoStatus", "FifoRead"} :
            o \in DOMAIN ExecuteIDSB /\ EmbedIDSB[o].actuals = ExecuteIDSB[o].actuals
      BY Positions DEF EmbedIDSB, ExecuteIDSB
    <3>3. \A o \in {"StartLog", "FifoWrite"} :
            o \in DOMAIN ExecuteIDSC /\ EmbedIDSB[o].actuals = ExecuteIDSC[o].actuals
      BY Positions DEF EmbedIDSB, ExecuteIDSC
    <3>4. QED
      BY <3>1, <3>2, <3>3, TablesDirect DEF Direct, DirectFormals, Embeds, Placed
  <2>3. Embeds(EmbedIDSC)
    <3>1. DOMAIN EmbedIDSC = {"GetCalibration", "SetCalibration", "SetSfe", "GetBattery",
                              "SetLogLimits"}
      BY DEF EmbedIDSC
    <3>2. \A o \in {"GetCalibration", "SetCalibration", "SetSfe"} :
            o \in DOMAIN ExecuteIDSA /\ EmbedIDSC[o].actuals = ExecuteIDSA[o].actuals
      BY Positions DEF EmbedIDSC, ExecuteIDSA
    <3>3. \A o \in {"GetBattery", "SetLogLimits"} :
            o \in DOMAIN ExecuteIDSC /\ EmbedIDSC[o].actuals = ExecuteIDSC[o].actuals
      BY Positions DEF EmbedIDSC, ExecuteIDSC
    <3>4. QED
      BY <3>1, <3>2, <3>3, TablesDirect DEF Direct, DirectFormals, Embeds, Placed
  <2>4. QED
    BY <2>1, <2>2, <2>3, EmbedsJoin DEF EmbedIDS
<1>7. Embeds(EmbedIAV)
  <2>1. ASSUME NEW f, Matching(f, BuildIAV)
        PROVE  Embeds(f)
    BY <2>1, BuilderParts DEF Matching, Part, Embeds, Placed
  <2>2. /\ Embeds([o \in IAVOps |-> IAVCall(<<"payload">>)])
        /\ Embeds([o \in {"Siniav", "SiniavToken"} |->
                     IAVCall(<<"payload", "isTokenDesc", "token">>)])
        /\ Embeds([o \in {"ReadMemMap", "ReadSec"} |-> IAVCall(<<"payload", "readPtr">>)])
    BY <2>1, IAVMatching
  <2>3. Embeds([WriteMemMap |-> IAVCall(<<"payload", "writePtr", "wordData",
                                          "tagIdentification", "dataBuf">>)])
    BY TablesDirect, AsDirect DEF ExecuteIAVB
  <2>4. Embeds([WriteSec |-> IAVCall(<<"payload", "dataWords", "dataBuf">>)])
    BY TablesDirect, AsDirect DEF ExecuteIAVB
  <2>5. Embeds([GetTokenId |-> IAVCall(<<>>)])
    BY TablesDirect, AsDirect DEF ExecuteIAVB
  <2>6. QED
    BY <2>2, <2>3, <2>4, <2>5, EmbedsJoin DEF EmbedIAV
<1>8. QED
  BY <1>1, <1>2, <1>3, <1>4, <1>5, <1>6, <1>7, EmbedsJoin DEF Embed

(* A place of an OpSpec is filled with the field it is named for, or is    *)
(* the identification.                                                     *)
Named(f) ==
  \A o \in DOMAIN f : \A slot \in DOMAIN f[o].places :
    f[o].places[slot] = slot \/ slot = "tagIdentification"

(* Every place of every OpSpec.                                            *)
LEMMA OpSpecsNamed == Named(OpSpecs)
<1> USE DEF Named
<1>0. ASSUME NEW f, NEW g, Named(f), Named(g) PROVE Named(f ++ g)
  BY <1>0 DEF ++
<1>1. ASSUME NEW password, NEW names, NEW slot \in DOMAIN OpSpec(password, names).places
      PROVE  OpSpec(password, names).places[slot] = slot
  BY DEF OpSpec
<1>2. ASSUME NEW names, NEW slot \in DOMAIN IDSOpSpec(names).places
      PROVE  IDSOpSpec(names).places[slot] = slot
  BY <1>1 DEF IDSOpSpec
<1>3. Named(OpSpecA) /\ Named(OpSpecB) /\ Named(OpSpecHiggs3) /\ Named(OpSpecLock)
  BY <1>1 DEF OpSpecA, OpSpecB, OpSpecHiggs3, OpSpecLock
<1>4. Named(OpSpecC) /\ Named(OpSpecNXP) /\ Named(OpSpecD)
  BY <1>1, <1>2 DEF OpSpecC, OpSpecNXP, OpSpecD
<1>5. Named(OpSpecIDSA) /\ Named(OpSpecIDSB) /\ Named(OpSpecE) /\ Named(OpSpecIDSC)
  BY <1>1, <1>2 DEF OpSpecIDSA, OpSpecIDSB, OpSpecE, OpSpecIDSC
<1>6. Named(OpSpecIDSD) /\ Named(OpSpecIDSE) /\ Named(OpSpecF)
  BY <1>1, <1>2 DEF OpSpecIDSD, OpSpecIDSE, OpSpecF
<1>7. Named(OpSpecIAVA)
  <2>1. Named([o \in {"AuthenticateOBU", "OBUAuthID", "FullPass1"} |->
                 OpSpec("none", {"payload"})])
    BY <1>1
  <2>2. Named([o \in {"Siniav", "SiniavToken"} |-> OpSpec("none", {"payload", "token"})])
    BY <1>1
  <2>3. QED
    BY <1>0, <2>1, <2>2 DEF OpSpecIAVA
<1>8. Named(OpSpecIAVB)
  <2> DEFINE row == OpSpec("none", {"payload", "writePtr", "wordData",
                                    "tagIdentification", "dataBuf"})
             places == [row EXCEPT !.places["tagIdentification"] = "dataBuf"].places
  <2>1. ASSUME NEW slot \in DOMAIN places
        PROVE  places[slot] = slot \/ slot = "tagIdentification"
    BY DEF OpSpec
  <2>2. OpSpecIAVB["WriteMemMap"].places = places
    BY DEF OpSpecIAVB
  <2>3. \A o \in {"FullPass2", "ReadMemMap"} : \A slot \in DOMAIN OpSpecIAVB[o].places :
          OpSpecIAVB[o].places[slot] = slot
    BY <1>1 DEF OpSpecIAVB
  <2>4. DOMAIN OpSpecIAVB = {"FullPass2", "ReadMemMap", "WriteMemMap"}
    BY DEF OpSpecIAVB
  <2> HIDE DEF places
  <2>5. QED
    BY <2>1, <2>2, <2>3, <2>4
<1>9. Named(OpSpecISO)
  BY <1>1 DEF OpSpecISO
<1>10. QED
  <2> HIDE DEF Named
  <2>1. Named(OpSpecs1)
    BY <1>0, <1>3, <1>4 DEF OpSpecs1
  <2>2. Named(OpSpecs2)
    BY <1>0, <1>4, <1>5, <1>6 DEF OpSpecs2
  <2>3. Named(OpSpecs3)
    BY <1>0, <1>6, <1>7, <1>8, <1>9 DEF OpSpecs3
  <2>4. QED
    BY <1>0, <2>1, <2>2, <2>3 DEF OpSpecs

(* A lock of one bit has the privilege that its action asks for.           *)
LEMMA LockAsAsked ==
  ASSUME NEW bit \in LockBits, NEW action,
         action \subseteq {bit}
  PROVE  LockPayload(bit, action).privilege \in {"Perma_Lock", "Read_Write"}
           <=> action = {bit}
<1>1. bit % 2 = 0 \/ bit % 2 = 1
  BY DEF LockBits
<1>2. CASE action = {bit}
  <2>1. bit <= bit
    BY DEF LockBits
  <2>2. (bit \in action /\ \A b \in action : b <= bit) = TRUE
    BY <1>2, <2>1
  <2>3. LockPayload(bit, action).privilege = LockPrivilege(bit, TRUE)
    BY <2>2 DEF LockPayload
  <2>4. QED
    BY <1>1, <1>2, <2>3 DEF LockPrivilege
<1>3. CASE action = {}
  <2>1. LockPayload(bit, action).privilege = LockPrivilege(bit, FALSE)
    BY <1>3 DEF LockPayload
  <2>2. QED
    BY <1>1, <1>3, <2>1 DEF LockPrivilege
<1>4. QED
  BY <1>2, <1>3

(* Where an argument is.                                                   *)
LEMMA PositionOf ==
  ASSUME NEW formals, NEW argument \in Members(formals)
  PROVE  /\ Position(formals, argument) \in 1..Len(formals)
         /\ formals[Position(formals, argument)] = argument
BY DEF Members, Position

(* The parts of a message: what the function lays out, from the structure. *)
InPlace(part, o) ==
  /\ part.slot \in Members(Builder[o].body)
  /\ part.field = part.slot
  /\ part.from = IF part.field = "zero" THEN "zero" ELSE memory[part.field]

NotSent(part) == part.field = "zero" /\ part.from = "zero"

(* A message, from the row of its operation.                               *)
LEMMA BodyOf ==
  ASSUME NEW o, NEW formals, NEW call
  PROVE  LET m == Message(o, formals, call)
             body == Builder[o].body
         IN  /\ DOMAIN m = {"code", "head", "body", "select"}
             /\ DOMAIN m.body = 1..Len(body)
             /\ \A i \in 1..Len(body) : m.body[i] = Value(formals, call.actuals, body[i])
BY DEF Message

(* The command of a direct execution has each field in its place.          *)
LEMMA DirectParts ==
  ASSUME NEW o \in DOMAIN Execute
  PROVE  LET body == Message(o, DirectFormals(o), Execute[o]).body
         IN  \A i \in DOMAIN body : InPlace(body[i], o)
<1> DEFINE row     == Builder[o].body
           formals == DirectFormals(o)
           body    == Message(o, formals, Execute[o]).body
<1>1. Members(row) \subseteq Members(formals)
  <2>1. o \in DOMAIN Builder
    BY ExecuteDirect DEF Direct
  <2>2. CASE o # "BlockErase"
    BY <2>1, <2>2, BuilderOrdered DEF DirectFormals, Ordered, RowOrdered
  <2>3. CASE o = "BlockErase"
    <3>1. row = <<"wordPtr", "bank", "wordCount">>
      <4>1. BuildStandard["BlockErase"].body = <<"wordPtr", "bank", "wordCount">>
        BY DEF BuildStandard, Built
      <4>2. QED
        BY <2>3, <4>1, BuilderParts, BuildStandardNames DEF Part
    <3>2. formals = <<"bank", "wordPtr", "wordCount">>
      BY <2>3 DEF DirectFormals
    <3>3. Members(<<"wordPtr", "bank", "wordCount">>)
            \subseteq Members(<<"bank", "wordPtr", "wordCount">>)
      BY DEF Members
    <3>4. QED
      BY <3>1, <3>2, <3>3
  <2>4. QED
    BY <2>2, <2>3
<1>2. Execute[o].actuals = formals
  BY ExecuteDirect DEF Direct
<1>3. DOMAIN body = 1..Len(row) /\ \A i \in 1..Len(row) : body[i] = Value(formals, formals, row[i])
  BY <1>2, BodyOf
<1>4. ASSUME NEW i \in 1..Len(row) PROVE InPlace(body[i], o)
  <2> DEFINE argument == row[i]
  <2>1. argument \in Members(row)
    BY DEF Members
  <2>2. formals[Position(formals, argument)] = argument
    BY <1>1, <2>1, PositionOf
  <2>3. body[i] = Value(formals, formals, argument)
    BY <1>3
  <2> HIDE DEF argument, body, row, formals
  <2>4. /\ body[i].slot = argument /\ body[i].field = argument
        /\ body[i].from = IF argument = "zero" THEN "zero" ELSE memory[argument]
    BY <2>2, <2>3 DEF Value
  <2>5. QED
    BY <2>1, <2>4 DEF InPlace, row
<1>5. QED
  BY <1>3, <1>4

(* So has an embedded command; a lock has no password.                     *)
LEMMA EmbeddedParts ==
  ASSUME NEW o \in DOMAIN Embed
  PROVE  LET body == Message(o, Builder[o].formals, Embed[o]).body
         IN  \A i \in DOMAIN body : InPlace(body[i], o) \/ (o = "Lock" /\ NotSent(body[i]))
<1> DEFINE row     == Builder[o].body
           formals == Builder[o].formals
           actuals == Embed[o].actuals
           body    == Message(o, formals, Embed[o]).body
<1>1. Members(row) \subseteq Members(formals) /\ Placed(o, actuals)
  BY EmbedEmbeds, BuilderOrdered DEF Ordered, RowOrdered, Embeds
<1>2. DOMAIN body = 1..Len(row) /\ \A i \in 1..Len(row) : body[i] = Value(formals, actuals, row[i])
  BY BodyOf
<1>3. ASSUME NEW i \in 1..Len(row)
      PROVE  InPlace(body[i], o) \/ (o = "Lock" /\ NotSent(body[i]))
  <2> DEFINE argument == row[i]
             p == Position(formals, argument)
  <2>1. argument \in Members(row)
    BY DEF Members
  <2>2. p \in 1..Len(formals) /\ formals[p] = argument
    BY <1>1, <2>1, PositionOf
  <2>3. actuals[p] = argument \/ (o = "Lock" /\ actuals[p] = "zero")
    <3>1. CASE actuals = formals
      BY <2>2, <3>1
    <3>2. CASE o = "Lock" /\ actuals = <<"mask", "action", "zero">>
      <4>1. formals = <<"mask", "action", "accessPassword">>
        <5>1. BuildStandard["Lock"].formals = <<"mask", "action", "accessPassword">>
          BY DEF BuildStandard, Built
        <5>2. QED
          BY <3>2, <5>1, BuilderParts, BuildStandardNames DEF Part
      <4>2. QED
        BY <2>2, <3>2, <4>1
    <3>3. QED
      BY <1>1, <3>1, <3>2 DEF Placed
  <2>4. body[i] = Value(formals, actuals, argument)
    BY <1>2
  <2>5. /\ body[i].slot = argument /\ body[i].field = actuals[p]
        /\ body[i].from = IF actuals[p] = "zero" THEN "zero" ELSE memory[actuals[p]]
    <3> HIDE DEF argument, body, row, formals, actuals
    <3> QED
      BY <2>4 DEF Value
  <2> HIDE DEF argument, body, row, formals, actuals
  <2>6. QED
    BY <2>1, <2>3, <2>5 DEF InPlace, NotSent, row
<1>4. QED
  BY <1>2, <1>3

(* The operations whose commands a call sends: one, or two.                *)
Commands ==
  IF op.name = "GetMeasurementSetup" THEN {op.name, "GetLogState"} ELSE {op.name}

(* So have all the messages of a search, the two commands of               *)
(* GetMeasurementSetup included.                                           *)
LEMMA EmbeddedMessages ==
  ASSUME op.name \in DOMAIN Embed
  PROVE  /\ op.name = "Lock" => Len(Embedded) = 2
         /\ \A k \in 1..Len(Embedded) :
              /\ "locks" \notin DOMAIN Embedded[k]
              /\ \A i \in DOMAIN Embedded[k].body :
                   \/ \E o \in Commands : InPlace(Embedded[k].body[i], o)
                   \/ op.name = "Lock" /\ NotSent(Embedded[k].body[i])
<1> DEFINE Password(o) == IF Borrows THEN "own" ELSE SelectionPassword(Embed[o].select)
           Inner(o) == [Message(o, Builder[o].formals, Embed[o]) EXCEPT !.select = "none"]
           Two(o) == <<SearchHead(Password(o)), Inner(o)>>
           Sound(m) == /\ "locks" \notin DOMAIN m
                       /\ \A i \in DOMAIN m.body :
                            \/ \E o \in Commands : InPlace(m.body[i], o)
                            \/ op.name = "Lock" /\ NotSent(m.body[i])
<1>1. ASSUME NEW password PROVE Sound(SearchHead(password))
  BY DEF SearchHead
<1>2. ASSUME NEW o \in Commands, o \in DOMAIN Embed PROVE Sound(Inner(o))
  <2>1. DOMAIN Inner(o) = {"code", "head", "body", "select"}
    BY DEF Message
  <2>2. Inner(o).body = Message(o, Builder[o].formals, Embed[o]).body
    BY DEF Message
  <2>3. o = "Lock" => op.name = "Lock"
    BY <1>2 DEF Commands
  <2> HIDE DEF Inner
  <2>4. QED
    BY <1>2, <2>1, <2>2, <2>3, EmbeddedParts
<1>3. CASE op.name = "GetMeasurementSetup"
  <2>1. Embedded = Two(op.name) \o Two("GetLogState")
    BY <1>3 DEF Embedded
  <2>2. "GetLogState" \in DOMAIN Embed
    <3>1. "GetLogState" \in DOMAIN EmbedIDSA
      BY DEF EmbedIDSA
    <3>2. "GetLogState" \in DOMAIN EmbedIDS
      BY <3>1 DEF EmbedIDS, ++
    <3>3. ASSUME NEW f, NEW g, "GetLogState" \in DOMAIN f \cup DOMAIN g
          PROVE  "GetLogState" \in DOMAIN (f ++ g)
      BY <3>3 DEF ++
    <3>4. QED
      BY <3>2, <3>3 DEF Embed
  <2>3. {op.name, "GetLogState"} \subseteq Commands
    BY <1>3 DEF Commands
  <2>4. Sound(Inner(op.name)) /\ Sound(Inner("GetLogState"))
    BY <1>2, <2>2, <2>3
  <2> HIDE DEF Inner, Password, Sound
  <2>5. /\ Len(Embedded) = 4
        /\ Embedded[1] = SearchHead(Password(op.name)) /\ Embedded[2] = Inner(op.name)
        /\ Embedded[3] = SearchHead(Password("GetLogState"))
        /\ Embedded[4] = Inner("GetLogState")
    BY <2>1, TwoPairs
  <2>6. \A k \in 1..Len(Embedded) : Sound(Embedded[k])
    BY <1>1, <2>4, <2>5
  <2>7. QED
    BY <1>3, <2>6 DEF Sound
<1>4. CASE op.name # "GetMeasurementSetup"
  <2>1. Embedded = Two(op.name)
    BY <1>4 DEF Embedded
  <2>2. Sound(Inner(op.name))
    BY <1>2, <1>4 DEF Commands
  <2> HIDE DEF Inner, Password, Sound
  <2>3. Len(Embedded) = 2 /\ \A k \in 1..Len(Embedded) : Sound(Embedded[k])
    BY <1>1, <2>1, <2>2
  <2>4. QED
    BY <2>3 DEF Sound
<1>5. QED
  BY <1>3, <1>4

(* The messages: commands laid out from the operation's own fields, or its *)
(* OpSpec.                                                                 *)
CommandRight(m) ==
  /\ Commands \subseteq DOMAIN Builder
  /\ "locks" \notin DOMAIN m
  /\ \A i \in DOMAIN m.body :
       \/ \E o \in Commands : InPlace(m.body[i], o)
       \/ op.name = "Lock" /\ Len(sent) = 2 /\ NotSent(m.body[i])

OpSpecRight(m) ==
  /\ op.name \in DOMAIN OpSpecs
  /\ DOMAIN m.body = DOMAIN OpSpecs[op.name].places
  /\ \A slot \in DOMAIN m.body :
       /\ m.body[slot].slot = slot
       /\ m.body[slot].field = OpSpecs[op.name].places[slot]
       /\ m.body[slot].from = memory[m.body[slot].field]
  /\ \A lock \in m.locks :
       \E bit \in LockBits : \E action : lock = Locks({bit}, action)

SentRight ==
  /\ readerType \in {"serial", "llrp"}
  /\ \A k \in 1..Len(sent) :
       /\ op # NoOp
       /\ readerType = "serial" => CommandRight(sent[k])
       /\ readerType = "llrp" => OpSpecRight(sent[k])

(* At the start nothing was sent.                                          *)
LEMMA SentRightInit == TagInit => SentRight
BY DEF TagInit, SentRight

(* Each call sends messages that are laid out so, or none, and the calls   *)
(* that change the operation send none.                                    *)
LEMMA SentRightStep == SentRight /\ [TagNext]_tagVars => SentRight'
<1> SUFFICES ASSUME SentRight, [TagNext]_tagVars PROVE SentRight'
  OBVIOUS
<1> USE DEF opVars
<1>0. readerType' = readerType /\ readerType \in {"serial", "llrp"}
  BY DEF TagNext, SetAccessPassword, InitTagOp, ExecuteTagOp, SearchWithTagOp, ParseTag,
         AddAccessSpec, TakeReport, tagVars, SentRight
<1>1. ASSUME sent' = <<>> PROVE SentRight'
  BY <1>0, <1>1 DEF SentRight
<1>2. CASE SetAccessPassword \/ InitTagOp \/ ParseTag \/ TakeReport
  BY <1>1, <1>2 DEF SetAccessPassword, InitTagOp, ParseTag, TakeReport
<1>3. CASE ExecuteTagOp
  <2> DEFINE m == Message(op.name, DirectFormals(op.name), Execute[op.name])
  <2>1. op' = op /\ memory' = memory /\ readerType = "serial" /\ op # NoOp
    BY <1>3 DEF ExecuteTagOp
  <2>2. CASE sent' = <<>>
    BY <1>1, <2>2
  <2>3. CASE op.name \in DOMAIN Execute /\ sent' = <<m>>
    <3>1. "GetLogState" \in DOMAIN Builder
      BY BuilderParts, BuildIDSNames DEF Part
    <3>2. Commands \subseteq DOMAIN Builder
      BY <2>3, <3>1, ExecuteDirect DEF Direct, Commands
    <3>3. "locks" \notin DOMAIN m
      BY BodyOf
    <3>4. \A i \in DOMAIN m.body : InPlace(m.body[i], op.name)
      BY <2>3, DirectParts
    <3>5. op.name \in Commands
      BY DEF Commands
    <3>6. PICK c : c = m
      OBVIOUS
    <3> HIDE DEF m
    <3>7. CommandRight(c)'
      BY <2>1, <3>2, <3>3, <3>4, <3>5, <3>6 DEF CommandRight, Commands, InPlace
    <3>8. sent' = <<c>>
      BY <2>3, <3>6
    <3>9. QED
      BY <1>0, <2>1, <3>7, <3>8 DEF SentRight
  <2>4. QED
    BY <1>3, <2>2, <2>3 DEF ExecuteTagOp, RefusedDirectly
<1>4. CASE SearchWithTagOp
  <2>1. op' = op /\ memory' = memory /\ readerType = "serial" /\ op # NoOp
    BY <1>4 DEF SearchWithTagOp
  <2>2. CASE sent' = <<>>
    BY <1>1, <2>2
  <2>3. CASE op.name \in DOMAIN Embed /\ sent' = Embedded
    <3>1. "GetLogState" \in DOMAIN Builder
      BY BuilderParts, BuildIDSNames DEF Part
    <3>2. Commands \subseteq DOMAIN Builder
      BY <2>3, <3>1, EmbedEmbeds DEF Embeds, Commands
    <3>3. PICK c : c = Embedded
      OBVIOUS
    <3>4. /\ op.name = "Lock" => Len(c) = 2
          /\ \A k \in 1..Len(c) :
               /\ "locks" \notin DOMAIN c[k]
               /\ \A i \in DOMAIN c[k].body :
                    \/ \E o \in Commands : InPlace(c[k].body[i], o)
                    \/ op.name = "Lock" /\ NotSent(c[k].body[i])
      BY <2>3, <3>3, EmbeddedMessages
    <3>5. sent' = c
      BY <2>3, <3>3
    <3>6. Commands' = Commands
      BY <2>1 DEF Commands
    <3>7. ASSUME NEW part, NEW o PROVE InPlace(part, o)' <=> InPlace(part, o)
      BY <2>1 DEF InPlace
    <3>8. ASSUME NEW k \in 1..Len(c) PROVE CommandRight(c[k])'
      <4>1. "locks" \notin DOMAIN c[k]
        BY <3>4
      <4>2. ASSUME NEW i \in DOMAIN c[k].body
            PROVE  \/ \E o \in Commands : InPlace(c[k].body[i], o)'
                   \/ op.name = "Lock" /\ Len(c) = 2 /\ NotSent(c[k].body[i])
        BY <3>4, <3>7
      <4>3. QED
        BY <2>1, <3>2, <3>5, <3>6, <4>1, <4>2 DEF CommandRight
    <3>9. QED
      BY <1>0, <2>1, <3>5, <3>8 DEF SentRight
  <2>4. QED
    BY <1>4, <2>2, <2>3 DEF SearchWithTagOp, RefusedInSearch
<1>5. CASE AddAccessSpec
  <2>1. op' = op /\ memory' = memory /\ readerType = "llrp" /\ op # NoOp
    BY <1>5 DEF AddAccessSpec
  <2>2. CASE sent' = <<>>
    BY <1>1, <2>2
  <2>3. ASSUME NEW locks, op.name \in DOMAIN OpSpecs, sent' = <<AccessSpec(op.name, locks)>>,
               \A lock \in locks :
                 \E bit \in LockBits : \E action : lock = Locks({bit}, action)
        PROVE  SentRight'
    <3>1. PICK c : c = AccessSpec(op.name, locks)
      OBVIOUS
    <3>2. /\ DOMAIN c.body = DOMAIN OpSpecs[op.name].places /\ c.locks = locks
          /\ \A slot \in DOMAIN c.body :
               /\ c.body[slot].slot = slot
               /\ c.body[slot].field = OpSpecs[op.name].places[slot]
               /\ c.body[slot].from = memory[c.body[slot].field]
      BY <3>1 DEF AccessSpec
    <3>3. OpSpecRight(c)'
      BY <2>1, <2>3, <3>2 DEF OpSpecRight
    <3>4. sent' = <<c>>
      BY <2>3, <3>1
    <3>5. QED
      BY <1>0, <2>1, <3>3, <3>4 DEF SentRight
  <2>4. CASE op.name \in DOMAIN OpSpecs /\ sent' = <<AccessSpec(op.name, {})>>
    BY <2>3, <2>4
  <2>5. ASSUME op.name = "Lock", NEW bit \in LockBits, NEW action,
               sent' = <<AccessSpec(op.name, {Locks({bit}, action)})>>
        PROVE  SentRight'
    <3>1. "Lock" \in DOMAIN OpSpecs
      <4>1. "Lock" \in DOMAIN OpSpecLock
        BY DEF OpSpecLock
      <4>2. ASSUME NEW f, NEW g, "Lock" \in DOMAIN f \cup DOMAIN g
            PROVE  "Lock" \in DOMAIN (f ++ g)
        BY <4>2 DEF ++
      <4>3. QED
        BY <4>1, <4>2 DEF OpSpecs, OpSpecs1
    <3>2. PICK locks : locks = {Locks({bit}, action)}
      OBVIOUS
    <3>3. \A lock \in locks : \E b \in LockBits : \E a : lock = Locks({b}, a)
      <4> HIDE DEF Locks
      <4> QED
        BY <3>2
    <3>4. op.name \in DOMAIN OpSpecs
      BY <2>5, <3>1
    <3>5. sent' = <<AccessSpec(op.name, locks)>>
      BY <2>5, <3>2
    <3>6. QED
      BY <2>3, <3>3, <3>4, <3>5
  <2>6. QED
    BY <1>5, <2>2, <2>4, <2>5 DEF AddAccessSpec
<1>6. CASE UNCHANGED tagVars
  <2>1. sent' = sent /\ op' = op /\ memory' = memory
    BY <1>6 DEF tagVars
  <2>2. ASSUME NEW m PROVE /\ CommandRight(m)' <=> CommandRight(m)
                           /\ OpSpecRight(m)' <=> OpSpecRight(m)
    BY <2>1 DEF CommandRight, OpSpecRight, Commands, InPlace
  <2>3. QED
    BY <1>0, <2>1, <2>2 DEF SentRight
<1>7. QED
  BY <1>2, <1>3, <1>4, <1>5, <1>6 DEF TagNext


(* Messages laid out so have their fields in place, and locks that do what *)
(* their action asks for.                                                  *)
LEMMA RightInPlace == SentRight => FieldsInPlace
<1> SUFFICES ASSUME SentRight, NEW k \in 1..Len(sent)
             PROVE  /\ \A i \in DOMAIN sent[k].body :
                         LET part == sent[k].body[i]
                         IN  \/ part.field = part.slot
                             \/ part.field = "zero" /\ op.name = "Lock" /\ Len(sent) = 2
                             \/ part.slot = "tagIdentification" /\ readerType = "llrp"
                    /\ "locks" \in DOMAIN sent[k] =>
                         \A lock \in sent[k].locks :
                           lock.action \subseteq lock.mask =>
                             (lock.payload.privilege \in {"Perma_Lock", "Read_Write"}
                                <=> lock.action = lock.mask)
  BY DEF FieldsInPlace
<1>1. CASE readerType = "serial"
  BY <1>1 DEF SentRight, CommandRight, InPlace, NotSent
<1>2. CASE readerType = "llrp"
  <2>1. OpSpecRight(sent[k])
    BY <1>2 DEF SentRight
  <2>2. ASSUME NEW slot \in DOMAIN sent[k].body
        PROVE  \/ sent[k].body[slot].field = sent[k].body[slot].slot
               \/ sent[k].body[slot].slot = "tagIdentification"
    BY <2>1, OpSpecsNamed DEF Named, OpSpecRight
  <2>3. ASSUME NEW lock \in sent[k].locks, lock.action \subseteq lock.mask
        PROVE  lock.payload.privilege \in {"Perma_Lock", "Read_Write"}
                 <=> lock.action = lock.mask
    <3>0. PICK bit \in LockBits : \E action : lock = Locks({bit}, action)
      BY <2>1, <2>3 DEF OpSpecRight
    <3>1. PICK action : lock = Locks({bit}, action)
      BY <3>0
    <3>2. lock.mask = {bit} /\ lock.action = action
      BY <3>1 DEF Locks
    <3>3. (CHOOSE b \in {bit} : TRUE) = bit
      OBVIOUS
    <3>4. lock.payload = LockPayload(bit, action)
      BY <3>1, <3>3 DEF Locks
    <3>5. QED
      BY <2>3, <3>2, <3>4, LockAsAsked
  <2>4. QED
    BY <1>2, <2>2, <2>3
<1>3. QED
  BY <1>1, <1>2 DEF SentRight

(* Every field arrives at its own place, through the tables of arguments   *)
(* by position of the direct execution and of the search and through the   *)
(* layout functions, and a lock's privilege is the one its action asks     *)
(* for: for every operation, filter and lock.                              *)
THEOREM FieldsInPlaceCorrect == TagSpec => []FieldsInPlace
<1>1. TagSpec => []SentRight
  BY SentRightInit, SentRightStep, PTL DEF TagSpec
<1>2. QED
  BY <1>1, RightInPlace, PTL

-------------------------------------------------------------------------------
(* Where the arguments come from.                                          *)

(* The fields of an operation that its TMR_TagOp_init function assigns.    *)
Assigned(o) == Fields[o] \cap Filler[o].sets

(* The fields and the function's row, out of the tables they are in.       *)
LEMMA AssignedOf ==
  ASSUME NEW f, Part(f, Fields), NEW g, Part(g, Filler),
         NEW o, o \in DOMAIN f, o \in DOMAIN g
  PROVE  Assigned(o) = f[o] \cap g[o].sets
BY DEF Assigned, Part

(* The structures of the standard operations and of the ISO 18000-6B ones  *)
(* are filled whole.                                                       *)
LEMMA StandardAssigned ==
  /\ \A o \in DOMAIN StandardFields : StandardFields[o] \subseteq Assigned(o)
  /\ \A o \in DOMAIN ISOFields : ISOFields[o] \subseteq Assigned(o)
<1>1. ASSUME NEW f, Part(f, Fields), NEW g, Part(g, Filler),
             NEW names, names \subseteq DOMAIN f, names \subseteq DOMAIN g,
             \A o \in names : f[o] \subseteq g[o].sets
      PROVE  \A o \in names : f[o] \subseteq Assigned(o)
  BY <1>1, AssignedOf
<1>2. \A o \in {"WriteTag", "ReadData", "SecureReadData"} :
        StandardFields[o] \subseteq Assigned(o)
  <2>1. \A o \in {"WriteTag", "ReadData", "SecureReadData"} :
          StandardFields[o] \subseteq InitA[o].sets
    BY DEF StandardFields, InitA, Filled
  <2>2. QED
    BY <1>1, <2>1, FieldsParts, FillerParts, StandardFieldsNames, InitANames
<1>3. \A o \in {"WriteData", "Lock", "Kill"} : StandardFields[o] \subseteq Assigned(o)
  <2>1. \A o \in {"WriteData", "Lock", "Kill"} : StandardFields[o] \subseteq InitB[o].sets
    BY DEF StandardFields, InitB, Filled
  <2>2. QED
    BY <1>1, <2>1, FieldsParts, FillerParts, StandardFieldsNames, InitBNames
<1>4. \A o \in {"BlockWrite", "BlockPermaLock", "BlockErase"} :
        StandardFields[o] \subseteq Assigned(o)
  <2>1. \A o \in {"BlockWrite", "BlockPermaLock", "BlockErase"} :
          StandardFields[o] \subseteq InitC[o].sets
    BY DEF StandardFields, InitC, Filled
  <2>2. QED
    BY <1>1, <2>1, FieldsParts, FillerParts, StandardFieldsNames, InitCNames
<1>5. \A o \in DOMAIN ISOFields : ISOFields[o] \subseteq Assigned(o)
  <2>1. \A o \in {"ISOReadData", "ISOWriteData", "ISOLock"} :
          ISOFields[o] \subseteq InitB[o].sets
    BY DEF ISOFields, InitB, Filled
  <2>2. QED
    BY <1>1, <2>1, FieldsParts, FillerParts, ISOFieldsNames, InitBNames
<1>6. QED
  BY <1>2, <1>3, <1>4, <1>5, StandardFieldsNames

(* So are the chips' structures, but for the part of an AES command that   *)
(* its form does without.                                                  *)
LEMMA ChipAssigned ==
  /\ \A o \in DOMAIN AlienFields : AlienFields[o] \subseteq Assigned(o)
  /\ \A o \in DOMAIN NXPFields : NXPFields[o] \subseteq Assigned(o)
  /\ \A o \in DOMAIN MonzaFields : MonzaFields[o] \subseteq Assigned(o)
<1>0. /\ Part(AlienFields, Fields) /\ Part(NXPFields, Fields) /\ Part(AESFields, Fields)
      /\ Part(MonzaFields, Fields)
  BY FieldsParts, ChipFieldsParts DEF Part
<1>1. /\ Part(InitAlien, Filler) /\ Part(InitNXP, Filler) /\ Part(InitAES, Filler)
      /\ Part(InitNXPMonza, Filler)
  BY FillerParts, InitChipParts DEF Part
<1>2. ASSUME NEW f, Part(f, Fields), NEW g, Part(g, Filler),
             NEW names, names \subseteq DOMAIN f, names \subseteq DOMAIN g,
             \A o \in names : f[o] \subseteq g[o].sets
      PROVE  \A o \in names : f[o] \subseteq Assigned(o)
  BY <1>2, AssignedOf
<1>3. \A o \in DOMAIN AlienFields : AlienFields[o] \subseteq Assigned(o)
  <2>1. \A o \in DOMAIN AlienFields : AlienFields[o] \subseteq InitAlien[o].sets
    BY DEF AlienFields, InitAlien, Custom
  <2>2. QED
    BY <1>0, <1>1, <1>2, <2>1, AlienFieldsNames, InitAlienNames
<1>4. \A o \in {"SetReadProtect", "ResetReadProtect", "ChangeEAS"} :
        NXPFields[o] \subseteq Assigned(o)
  <2>1. \A o \in {"SetReadProtect", "ResetReadProtect", "ChangeEAS"} :
          NXPFields[o] \subseteq InitNXP[o].sets
    BY DEF NXPFields, InitNXP, Custom
  <2>2. QED
    BY <1>0, <1>1, <1>2, <2>1, NXPFieldsNames, InitNXPNames
<1>5. NXPFields["EASAlarm"] \subseteq Assigned("EASAlarm")
  <2>1. NXPFields["EASAlarm"] \subseteq InitAES["EASAlarm"].sets
    BY DEF NXPFields, InitAES, Custom
  <2>2. QED
    BY <1>0, <1>1, <2>1, AssignedOf, NXPFieldsNames, InitAESNames
<1>6. \A o \in {"Calibrate", "ChangeConfig"} : NXPFields[o] \subseteq Assigned(o)
  <2>1. \A o \in {"Calibrate", "ChangeConfig"} : NXPFields[o] \subseteq InitNXPMonza[o].sets
    BY DEF NXPFields, InitNXPMonza, Custom
  <2>2. QED
    BY <1>0, <1>1, <1>2, <2>1, NXPFieldsNames, InitNXPMonzaNames
<1>7. \A o \in DOMAIN MonzaFields : MonzaFields[o] \subseteq Assigned(o)
  <2>1. MonzaFields["QTReadWrite"] \subseteq InitNXPMonza["QTReadWrite"].sets
    BY DEF MonzaFields, InitNXPMonza, Custom
  <2>2. QED
    BY <1>0, <1>1, <2>1, AssignedOf, MonzaFieldsNames, InitNXPMonzaNames
<1>8. QED
  BY <1>3, <1>4, <1>5, <1>6, <1>7, NXPFieldsNames

(* What an AES command has of its structure in each of its forms.          *)
LEMMA AESAssigned ==
  LET config == {"epc", "epcLength", "tid", "userMemory", "range"}
  IN  /\ config \cup {"tam1Auth"} \subseteq Assigned("UntraceableTam1")
      /\ config \cup {"auth.accessPassword"} \subseteq Assigned("UntraceableAccess")
      /\ {"tam1Auth"} \subseteq Assigned("AuthenticateTam1")
      /\ {"tam1Auth", "tam2Auth"} \subseteq Assigned("AuthenticateTam2")
      /\ {"wordPointer", "bitCount", "tam1Auth"} \subseteq Assigned("ReadBufferTam1")
      /\ {"wordPointer", "bitCount", "tam1Auth", "tam2Auth"}
           \subseteq Assigned("ReadBufferTam2")
<1>1. Part(AESFields, Fields) /\ Part(InitAES, Filler)
  BY FieldsParts, ChipFieldsParts, FillerParts, InitChipParts DEF Part
<1>2. ASSUME NEW o \in DOMAIN AESFields
      PROVE  Assigned(o) = AESFields[o] \cap InitAES[o].sets
  BY <1>1, AssignedOf, AESFieldsNames, InitAESNames
<1>3. \A o \in {"UntraceableTam1", "UntraceableAccess"} :
        {"epc", "epcLength", "tid", "userMemory", "range"}
          \subseteq AESFields[o] \cap InitAES[o].sets
  BY DEF AESFields, InitAES, Numbered
<1>4. /\ "tam1Auth" \in AESFields["UntraceableTam1"] \cap InitAES["UntraceableTam1"].sets
      /\ "auth.accessPassword"
           \in AESFields["UntraceableAccess"] \cap InitAES["UntraceableAccess"].sets
  BY DEF AESFields, InitAES, Numbered
<1>5. /\ \A o \in {"AuthenticateTam1", "AuthenticateTam2"} :
           "tam1Auth" \in AESFields[o] \cap InitAES[o].sets
      /\ "tam2Auth" \in AESFields["AuthenticateTam2"] \cap InitAES["AuthenticateTam2"].sets
  BY DEF AESFields, InitAES, Numbered
<1>6. /\ \A o \in {"ReadBufferTam1", "ReadBufferTam2"} :
           {"wordPointer", "bitCount", "tam1Auth"} \subseteq AESFields[o] \cap InitAES[o].sets
      /\ "tam2Auth" \in AESFields["ReadBufferTam2"] \cap InitAES["ReadBufferTam2"].sets
  BY DEF AESFields, InitAES, Numbered
<1>7. QED
  BY <1>2, <1>3, <1>4, <1>5, <1>6, AESFieldsNames

(* A Denatran command's structure is filled whole, but for the token of a  *)
(* Siniav without one.                                                     *)
LEMMA IAVAssigned ==
  /\ \A o \in DOMAIN IAVFields \ {"Siniav"} : IAVFields[o] \subseteq Assigned(o)
  /\ "payload" \in Assigned("Siniav")
<1>1. ASSUME NEW o \in DOMAIN InitIAVA
      PROVE  Assigned(o) = IAVFields[o] \cap InitIAVA[o].sets
  BY AssignedOf, FieldsParts, FillerParts, IAVFieldsNames, InitIAVANames
<1>2. ASSUME NEW o \in DOMAIN InitIAVB
      PROVE  Assigned(o) = IAVFields[o] \cap InitIAVB[o].sets
  BY AssignedOf, FieldsParts, FillerParts, IAVFieldsNames, InitIAVBNames
<1>3. /\ \A o \in IAVOps : IAVFields[o] = {"chipType", "mode", "payload"}
      /\ \A o \in {"Siniav", "SiniavToken"} :
           IAVFields[o] = {"chipType", "mode", "payload", "isTokenDesc", "token"}
      /\ \A o \in {"ReadMemMap", "ReadSec"} :
           IAVFields[o] = {"chipType", "mode", "payload", "readPtr"}
      /\ IAVFields["WriteMemMap"] = {"chipType", "mode", "payload", "writePtr", "wordData",
                                     "tagIdentification", "dataBuf"}
      /\ IAVFields["WriteSec"] = {"chipType", "mode", "payload", "dataWords", "dataBuf"}
      /\ IAVFields["GetTokenId"] = {"chipType", "mode"}
  BY DEF IAVFields, IAVOps, ++
<1>4. /\ \A o \in DOMAIN InitIAVA \ {"Siniav"} : IAVFields[o] \subseteq InitIAVA[o].sets
      /\ "payload" \in InitIAVA["Siniav"].sets
  <2>1. \A o \in {"ActivateSecure", "AuthenticateOBU", "OBUAuthID", "FullPass1",
                  "FullPass2"} :
          IAVFields[o] \subseteq InitIAVA[o].sets
    BY <1>3 DEF InitIAVA, Mode, Numbered, IAVOps
  <2>2. IAVFields["SiniavToken"] \subseteq InitIAVA["SiniavToken"].sets
    BY <1>3 DEF InitIAVA, Mode, Numbered
  <2>3. IAVFields["ReadMemMap"] \subseteq InitIAVA["ReadMemMap"].sets
    BY <1>3 DEF InitIAVA, Mode, Numbered
  <2>4. "payload" \in InitIAVA["Siniav"].sets
    BY DEF InitIAVA, Mode, Numbered
  <2>5. QED
    BY <2>1, <2>2, <2>3, <2>4, InitIAVANames
<1>5. \A o \in DOMAIN InitIAVB : IAVFields[o] \subseteq InitIAVB[o].sets
  <2>1. \A o \in {"FullPass", "G0PAAuth"} : IAVFields[o] \subseteq InitIAVB[o].sets
    BY <1>3 DEF InitIAVB, Mode, Numbered, IAVOps
  <2>2. \A o \in {"ReadSec", "GetTokenId"} : IAVFields[o] \subseteq InitIAVB[o].sets
    BY <1>3 DEF InitIAVB, Mode, Numbered
  <2>3. IAVFields["WriteMemMap"] \subseteq InitIAVB["WriteMemMap"].sets
    BY <1>3 DEF InitIAVB, Mode, Numbered
  <2>4. IAVFields["WriteSec"] \subseteq InitIAVB["WriteSec"].sets
    BY <1>3 DEF InitIAVB, Mode, Numbered
  <2>5. QED
    BY <2>1, <2>2, <2>3, <2>4, InitIAVBNames
<1>6. DOMAIN IAVFields = DOMAIN InitIAVA \cup DOMAIN InitIAVB
  BY IAVFieldsNames, InitIAVANames, InitIAVBNames
<1>7. "payload" \in IAVFields["Siniav"] /\ "Siniav" \in DOMAIN InitIAVA
  BY <1>3, InitIAVANames
<1>8. QED
  BY <1>1, <1>2, <1>4, <1>5, <1>6, <1>7

(* The SL900A's structures are filled whole, but for Initialize's delays.  *)
LEMMA IDSAssigned ==
  \A o \in DOMAIN IDSFields \ {"Initialize", "InitializeTimer"} :
    IDSFields[o] \subseteq Assigned(o)
<1>1. /\ Part(InitIDSA, Filler) /\ Part(InitIDSB, Filler) /\ Part(InitIDSC, Filler)
      /\ Part(InitIDSD, Filler)
  BY FillerParts, InitIDSParts DEF Part
<1>2. ASSUME NEW g, Part(g, Filler),
             NEW names, names \subseteq DOMAIN IDSFields, names \subseteq DOMAIN g,
             \A o \in names : IDSFields[o] \subseteq g[o].sets
      PROVE  \A o \in names : IDSFields[o] \subseteq Assigned(o)
  BY <1>2, AssignedOf, FieldsParts
<1>3. ASSUME NEW sub, NEW names
      PROVE  IDSCommon \cup names \subseteq Command(sub, names).sets
  BY DEF IDSCommon, Command, Numbered
<1>4. \A o \in DOMAIN InitIDSA : IDSFields[o] \subseteq Assigned(o)
  <2>1. /\ IDSFields["GetCalibration"] = IDSCommon
        /\ IDSFields["GetMeasurementSetup"] = IDSCommon
        /\ IDSFields["SetCalibration"] = IDSCommon \cup {"cal"}
        /\ IDSFields["SetSfe"] = IDSCommon \cup {"sfe"}
    BY IDSFieldsParts, IDSFieldsBNames DEF Part, IDSFieldsB
  <2>2. IDSFields["SetPassword"] = IDSCommon \cup {"NewPasswordLevel", "NewPassword"}
    BY IDSFieldsParts, IDSFieldsCNames DEF Part, IDSFieldsC
  <2>3. IDSFields["GetSensor"] = IDSCommon \cup {"sensortype"}
    BY IDSFieldsParts, IDSFieldsANames DEF Part, IDSFieldsA
  <2>4. \A o \in {"GetCalibration", "GetMeasurementSetup"} :
          IDSFields[o] \subseteq InitIDSA[o].sets
    BY <1>3, <2>1 DEF InitIDSA
  <2>5. \A o \in {"SetCalibration", "SetSfe"} : IDSFields[o] \subseteq InitIDSA[o].sets
    BY <1>3, <2>1 DEF InitIDSA
  <2>6. \A o \in {"SetPassword", "GetSensor"} : IDSFields[o] \subseteq InitIDSA[o].sets
    BY <1>3, <2>2, <2>3 DEF InitIDSA
  <2>7. \A o \in DOMAIN InitIDSA : IDSFields[o] \subseteq InitIDSA[o].sets
    BY <2>4, <2>5, <2>6, InitIDSANames
  <2>8. DOMAIN InitIDSA \subseteq DOMAIN IDSFields
    BY InitIDSANames, IDSFieldsNames
  <2>9. QED
    BY <1>1, <1>2, <2>7, <2>8
<1>5. \A o \in {"GetLogState", "SetLogMode", "EndLog"} : IDSFields[o] \subseteq Assigned(o)
  <2>1. /\ IDSFields["GetLogState"] = IDSCommon
        /\ IDSFields["SetLogMode"]
             = IDSCommon \cup {"dataLog", "rule", "Ext1Enable", "Ext2Enable", "TempEnable",
                               "BattEnable", "LogInterval"}
        /\ IDSFields["EndLog"] = IDSCommon
    BY IDSFieldsParts, IDSFieldsANames DEF Part, IDSFieldsA
  <2>2. \A o \in {"GetLogState", "SetLogMode", "EndLog"} :
          IDSFields[o] \subseteq InitIDSB[o].sets
    BY <1>3, <2>1 DEF InitIDSB
  <2>3. QED
    BY <1>1, <1>2, <2>2, IDSFieldsNames, InitIDSBNames
<1>6. \A o \in DOMAIN InitIDSC : IDSFields[o] \subseteq Assigned(o)
  <2>1. /\ IDSFields["FifoStatus"] = IDSCommon \cup {"operation"}
        /\ IDSFields["FifoRead"] = IDSCommon \cup {"operation", "length"}
        /\ IDSFields["FifoWrite"] = IDSCommon \cup {"operation", "payLoad"}
        /\ IDSFields["StartLog"] = IDSCommon \cup {"startTime"}
        /\ IDSFields["GetBattery"] = IDSCommon \cup {"batteryType"}
    BY IDSFieldsParts, IDSFieldsBNames DEF Part, IDSFieldsB
  <2>2. \A o \in DOMAIN InitIDSC : IDSFields[o] \subseteq InitIDSC[o].sets
    BY <1>3, <2>1 DEF InitIDSC
  <2>3. DOMAIN InitIDSC \subseteq DOMAIN IDSFields
    BY InitIDSCNames, IDSFieldsNames
  <2>4. QED
    BY <1>1, <1>2, <2>2, <2>3
<1>7. \A o \in DOMAIN InitIDSD : IDSFields[o] \subseteq Assigned(o)
  <2>1. IDSFields["SetLogLimits"]
          = IDSCommon \cup {"extremeLower", "lower", "upper", "extremeUpper"}
    BY IDSFieldsParts, IDSFieldsBNames DEF Part, IDSFieldsB
  <2>2. IDSFields["SetShelfLife"] = IDSCommon \cup {"shelfLifeBlock0", "shelfLifeBlock1"}
    BY IDSFieldsParts, IDSFieldsCNames DEF Part, IDSFieldsC
  <2>3. \A o \in DOMAIN InitIDSD : IDSFields[o] \subseteq InitIDSD[o].sets
    BY <1>3, <2>1, <2>2 DEF InitIDSD
  <2>4. DOMAIN InitIDSD \subseteq DOMAIN IDSFields
    BY InitIDSDNames, IDSFieldsNames
  <2>5. QED
    BY <1>1, <1>2, <2>3, <2>4
<1>8. DOMAIN IDSFields \ {"Initialize", "InitializeTimer"}
        = DOMAIN InitIDSA \cup {"GetLogState", "SetLogMode", "EndLog"}
            \cup DOMAIN InitIDSC \cup DOMAIN InitIDSD
  BY IDSFieldsNames, InitIDSANames, InitIDSCNames, InitIDSDNames
<1>9. QED
  BY <1>4, <1>5, <1>6, <1>7, <1>8

(* A command lays out what the operation's own function has assigned; the  *)
(* delays of Initialize are the exception.                                 *)
Laid(f) ==
  \A o \in DOMAIN f \ {"Initialize", "InitializeTimer"} :
    Members(f[o].body) \subseteq Assigned(o)

(* Tables put together.                                                    *)
LEMMA LaidJoin ==
  ASSUME NEW f, NEW g, Laid(f), Laid(g)
  PROVE  Laid(f ++ g)
BY DEF Laid, ++

(* What the functions for a row's body return.                             *)
LEMMA BodyOfRow ==
  ASSUME NEW code, NEW head, NEW formals, NEW body, NEW answer
  PROVE  /\ Built(code, head, formals, body, answer).body = body
         /\ Specific(head, formals, body, answer).body = body
         /\ InOrder(head, body, answer).body = body
         /\ IAVCommand(body).body = body
BY DEF Built, Specific, InOrder, IAVCommand

(* What is in the sequences of up to six names.                            *)
LEMMA FewMembers ==
  /\ Members(<<>>) = {}
  /\ \A a : Members(<<a>>) = {a}
  /\ \A a, b : Members(<<a, b>>) = {a, b}
  /\ \A a, b, c : Members(<<a, b, c>>) = {a, b, c}
  /\ \A a, b, c, d : Members(<<a, b, c, d>>) = {a, b, c, d}
  /\ \A a, b, c, d, e : Members(<<a, b, c, d, e>>) = {a, b, c, d, e}
<1>1. Members(<<>>) = {}
  BY DEF Members
<1>2. ASSUME NEW a PROVE Members(<<a>>) = {a}
  BY DEF Members
<1>3. ASSUME NEW a, NEW b PROVE Members(<<a, b>>) = {a, b}
  BY DEF Members
<1>4. ASSUME NEW a, NEW b, NEW c PROVE Members(<<a, b, c>>) = {a, b, c}
  BY DEF Members
<1>5. ASSUME NEW a, NEW b, NEW c, NEW d PROVE Members(<<a, b, c, d>>) = {a, b, c, d}
  BY DEF Members
<1>6. ASSUME NEW a, NEW b, NEW c, NEW d, NEW e
      PROVE  Members(<<a, b, c, d, e>>) = {a, b, c, d, e}
  BY DEF Members
<1>7. QED
  BY <1>1, <1>2, <1>3, <1>4, <1>5, <1>6

(* The commands of the standard and of the ISO 18000-6B operations.        *)
LEMMA StandardLaid == Laid(BuildStandard) /\ Laid(BuildISO)
<1>1. ASSUME NEW o \in {"WriteTag", "ReadData", "SecureReadData"}
      PROVE  Members(BuildStandard[o].body) \subseteq StandardFields[o]
  BY FewMembers DEF BuildStandard, Built, StandardFields
<1>2. ASSUME NEW o \in {"WriteData", "Lock", "Kill"}
      PROVE  Members(BuildStandard[o].body) \subseteq StandardFields[o]
  BY FewMembers DEF BuildStandard, Built, StandardFields
<1>3. ASSUME NEW o \in {"BlockWrite", "BlockPermaLock", "BlockErase"}
      PROVE  Members(BuildStandard[o].body) \subseteq StandardFields[o]
  BY FewMembers DEF BuildStandard, Built, Specific, StandardFields
<1>4. ASSUME NEW o \in DOMAIN BuildISO
      PROVE  Members(BuildISO[o].body) \subseteq ISOFields[o]
  BY FewMembers DEF BuildISO, Built, ISOFields
<1>5. /\ DOMAIN BuildStandard = {"WriteTag", "ReadData", "SecureReadData"}
                                  \cup {"WriteData", "Lock", "Kill"}
                                  \cup {"BlockWrite", "BlockPermaLock", "BlockErase"}
      /\ DOMAIN BuildStandard = DOMAIN StandardFields
      /\ DOMAIN BuildISO = DOMAIN ISOFields
  BY BuildStandardNames, BuildISONames, StandardFieldsNames, ISOFieldsNames
<1>6. \A o \in DOMAIN BuildStandard :
        Members(BuildStandard[o].body) \subseteq StandardFields[o]
  BY <1>1, <1>2, <1>3, <1>5
<1>7. QED
  BY <1>4, <1>5, <1>6, StandardAssigned DEF Laid

(* The commands of Alien's chips.                                          *)
LEMMA HiggsLaid == Laid(BuildHiggs)
<1>1. Laid(BuildHiggs2)
  <2>1. ASSUME NEW o \in DOMAIN BuildHiggs2
        PROVE  Members(BuildHiggs2[o].body) \subseteq AlienFields[o]
    BY FewMembers DEF BuildHiggs2, Built, Specific, AlienFields
  <2>2. DOMAIN BuildHiggs2 \subseteq DOMAIN AlienFields
    BY BuildHiggs2Names, AlienFieldsNames
  <2>3. QED
    BY <2>1, <2>2, ChipAssigned DEF Laid
<1>2. Laid(BuildHiggs3)
  <2>1. ASSUME NEW o \in DOMAIN BuildHiggs3
        PROVE  Members(BuildHiggs3[o].body) \subseteq AlienFields[o]
    BY FewMembers DEF BuildHiggs3, Built, Specific, AlienFields
  <2>2. DOMAIN BuildHiggs3 \subseteq DOMAIN AlienFields
    BY BuildHiggs3Names, AlienFieldsNames
  <2>3. QED
    BY <2>1, <2>2, ChipAssigned DEF Laid
<1>3. QED
  BY <1>1, <1>2, LaidJoin DEF BuildHiggs

(* Those of NXP's G2 chips and of the Monza 4.                             *)
LEMMA NXPLaid == Laid(BuildNXP) /\ Laid(BuildMonza)
<1>1. Laid(BuildNXPA)
  <2>1. ASSUME NEW o \in DOMAIN BuildNXPA
        PROVE  Members(BuildNXPA[o].body) \subseteq NXPFields[o]
    BY FewMembers DEF BuildNXPA, InOrder, Specific, Built, NXPFields
  <2>2. DOMAIN BuildNXPA \subseteq DOMAIN NXPFields
    BY BuildNXPANames, NXPFieldsNames
  <2>3. QED
    BY <2>1, <2>2, ChipAssigned DEF Laid
<1>2. Laid(BuildNXPB)
  <2>1. ASSUME NEW o \in DOMAIN BuildNXPB
        PROVE  Members(BuildNXPB[o].body) \subseteq NXPFields[o]
    BY FewMembers DEF BuildNXPB, InOrder, Specific, Built, NXPFields
  <2>2. DOMAIN BuildNXPB \subseteq DOMAIN NXPFields
    BY BuildNXPBNames, NXPFieldsNames
  <2>3. QED
    BY <2>1, <2>2, ChipAssigned DEF Laid
<1>3. Laid(BuildNXPC)
  <2>1. ASSUME NEW o \in DOMAIN BuildNXPC
        PROVE  Members(BuildNXPC[o].body) \subseteq NXPFields[o]
    BY FewMembers DEF BuildNXPC, InOrder, Specific, Built, NXPFields
  <2>2. DOMAIN BuildNXPC \subseteq DOMAIN NXPFields
    BY BuildNXPCNames, NXPFieldsNames
  <2>3. QED
    BY <2>1, <2>2, ChipAssigned DEF Laid
<1>4. Laid(BuildMonza)
  <2>1. ASSUME NEW o \in DOMAIN BuildMonza
        PROVE  Members(BuildMonza[o].body) \subseteq MonzaFields[o]
    BY FewMembers DEF BuildMonza, Built, Specific, MonzaFields
  <2>2. DOMAIN BuildMonza \subseteq DOMAIN MonzaFields
    BY BuildMonzaNames, MonzaFieldsNames
  <2>3. QED
    BY <2>1, <2>2, ChipAssigned DEF Laid
<1>5. QED
  BY <1>1, <1>2, <1>3, <1>4, LaidJoin DEF BuildNXP

(* Those of NXP's AES chip.                                                *)
LEMMA AESLaid == Laid(BuildAES)
<1>1. Laid(BuildUntraceable)
  <2> DEFINE config == <<"epc", "epcLength", "tid", "userMemory", "range">>
  <2>1. Listed(config) /\ Listed(<<"tam1Auth">>) /\ Listed(<<"auth.accessPassword">>)
    BY DEF Listed
  <2>2. Members(config) = {"epc", "epcLength", "tid", "userMemory", "range"}
    BY FewMembers
  <2>3. /\ Members(config \o <<"tam1Auth">>) \subseteq Assigned("UntraceableTam1")
        /\ Members(config \o <<"auth.accessPassword">>)
             \subseteq Assigned("UntraceableAccess")
    <3> HIDE DEF config
    <3> QED
      BY <2>1, <2>2, FewMembers, MembersJoined, AESAssigned
  <2>4. /\ BuildUntraceable["UntraceableTam1"].body = config \o <<"tam1Auth">>
        /\ BuildUntraceable["UntraceableAccess"].body = config \o <<"auth.accessPassword">>
    BY DEF BuildUntraceable, Specific, Built
  <2> HIDE DEF config
  <2>5. QED
    BY <2>3, <2>4, BuildUntraceableNames DEF Laid
<1>2. Laid(BuildAuthenticate)
  <2>1. ASSUME NEW o \in DOMAIN BuildAuthenticate
        PROVE  Members(BuildAuthenticate[o].body) \subseteq Assigned(o)
    BY FewMembers, AESAssigned DEF BuildAuthenticate, Specific, Built
  <2>2. QED
    BY <2>1 DEF Laid
<1>3. Laid(BuildReadBuffer)
  <2>1. ASSUME NEW o \in DOMAIN BuildReadBuffer
        PROVE  Members(BuildReadBuffer[o].body) \subseteq Assigned(o)
    BY FewMembers, AESAssigned DEF BuildReadBuffer, Specific, Built
  <2>2. QED
    BY <2>1 DEF Laid
<1>4. QED
  BY <1>1, <1>2, <1>3, LaidJoin DEF BuildAES

(* Those of the SL900A.                                                    *)
LEMMA IDSLaid == Laid(BuildIDS)
<1>1. ASSUME NEW arguments, Listed(arguments), NEW answer
      PROVE  Members(IDSCommand(arguments, answer).body)
               = {"level", "Password"} \cup Members(arguments)
  <2>1. IDSCommand(arguments, answer).body = <<"level", "Password">> \o arguments
    BY DEF IDSCommand, Specific, Built
  <2>2. Listed(<<"level", "Password">>)
    BY DEF Listed
  <2>3. QED
    BY <1>1, <2>1, <2>2, FewMembers, MembersJoined
<1>2. ASSUME NEW o \in DOMAIN IDSFields \ {"Initialize", "InitializeTimer"}
      PROVE  {"level", "Password"} \cup IDSFields[o] \subseteq Assigned(o)
  <2>1. \A f \in {IDSFieldsA, IDSFieldsB, IDSFieldsC} :
          \A n \in DOMAIN f : {"level", "Password"} \subseteq f[n]
    BY DEF IDSFieldsA, IDSFieldsB, IDSFieldsC, IDSCommon
  <2>2. {"level", "Password"} \subseteq IDSFields[o]
    BY <2>1 DEF IDSFields, ++
  <2>3. QED
    BY <2>2, IDSAssigned
<1>3. Laid(BuildIDSA)
  <2>1. Listed(<<"batteryType">>) /\ Listed(<<"sensortype">>)
    BY DEF Listed
  <2>2. Members(BuildIDSA["GetBattery"].body) \subseteq Assigned("GetBattery")
    <3>1. "batteryType" \in IDSFields["GetBattery"]
      BY IDSFieldsParts, IDSFieldsBNames DEF Part, IDSFieldsB
    <3>2. QED
      BY <1>1, <1>2, <2>1, <3>1, FewMembers, IDSFieldsNames DEF BuildIDSA
  <2>3. Members(BuildIDSA["GetSensor"].body) \subseteq Assigned("GetSensor")
    <3>1. "sensortype" \in IDSFields["GetSensor"]
      BY IDSFieldsParts, IDSFieldsANames DEF Part, IDSFieldsA
    <3>2. QED
      BY <1>1, <1>2, <2>1, <3>1, FewMembers, IDSFieldsNames DEF BuildIDSA
  <2>4. QED
    BY <2>2, <2>3, BuildIDSANames DEF Laid
<1>4. ASSUME NEW o \in DOMAIN IDSFields \ {"Initialize", "InitializeTimer"},
             NEW arguments, Listed(arguments), NEW answer,
             Members(arguments) \subseteq IDSFields[o]
      PROVE  Members(IDSCommand(arguments, answer).body) \subseteq Assigned(o)
  BY <1>1, <1>2, <1>4
<1>5. Laid(BuildIDSB)
  <2>1. Listed(<<>>) /\ Members(<<>>) = {}
    BY FewMembers DEF Listed
  <2>2. \A o \in DOMAIN BuildIDSB : BuildIDSB[o] = IDSCommand(<<>>, 9)
    BY DEF BuildIDSB
  <2>3. DOMAIN BuildIDSB \subseteq DOMAIN IDSFields \ {"Initialize", "InitializeTimer"}
    BY BuildIDSBNames, IDSFieldsNames
  <2>4. QED
    BY <1>4, <2>1, <2>2, <2>3 DEF Laid
<1>6. Laid(BuildIDSC)
  <2> DEFINE arguments == <<"dataLog", "rule", "Ext1Enable", "Ext2Enable", "TempEnable",
                            "BattEnable", "LogInterval">>
  <2>1. Listed(arguments)
    BY DEF Listed
  <2>2. IDSFields["SetLogMode"]
          = IDSCommon \cup {"dataLog", "rule", "Ext1Enable", "Ext2Enable", "TempEnable",
                            "BattEnable", "LogInterval"}
    BY IDSFieldsParts, IDSFieldsANames DEF Part, IDSFieldsA
  <2>3. Members(arguments) \subseteq IDSFields["SetLogMode"]
    BY <2>2 DEF Members
  <2>4. BuildIDSC["SetLogMode"] = IDSCommand(arguments, 0)
    BY DEF BuildIDSC
  <2> HIDE DEF arguments
  <2>5. Members(BuildIDSC["SetLogMode"].body) \subseteq Assigned("SetLogMode")
    BY <1>4, <2>1, <2>3, <2>4, IDSFieldsNames
  <2>6. QED
    BY <2>5, BuildIDSCNames DEF Laid
<1>7. Laid(BuildIDSD)
  <2>1. Members(BuildIDSD["EndLog"].body) \subseteq Assigned("EndLog")
    <3>1. Listed(<<>>) /\ Members(<<>>) = {}
      BY FewMembers DEF Listed
    <3>2. BuildIDSD["EndLog"] = IDSCommand(<<>>, 0)
      BY DEF BuildIDSD
    <3>3. QED
      BY <1>4, <3>1, <3>2, IDSFieldsNames
  <2>2. Members(BuildIDSD["SetPassword"].body) \subseteq Assigned("SetPassword")
    <3>1. BuildIDSD["SetPassword"].body
            = <<"level", "Password", "NewPasswordLevel", "NewPassword">>
      BY DEF BuildIDSD, Specific, Built
    <3>2. {"NewPasswordLevel", "NewPassword"} \subseteq IDSFields["SetPassword"]
      BY IDSFieldsParts, IDSFieldsCNames DEF Part, IDSFieldsC
    <3>3. {"level", "Password"} \cup IDSFields["SetPassword"] \subseteq Assigned("SetPassword")
      BY <1>2, IDSFieldsNames
    <3>4. Members(BuildIDSD["SetPassword"].body)
            = {"level", "Password", "NewPasswordLevel", "NewPassword"}
      BY <3>1, FewMembers
    <3>5. QED
      BY <3>2, <3>3, <3>4
  <2>3. QED
    BY <2>1, <2>2, BuildIDSDNames DEF Laid
<1>8. Laid(BuildIDSE) /\ Laid(BuildIDSF)
  <2>1. /\ Listed(<<"operation">>) /\ Listed(<<"operation", "length">>)
        /\ Listed(<<"operation", "payLoad">>) /\ Listed(<<"startTime">>)
    BY DEF Listed
  <2>2. /\ "operation" \in IDSFields["FifoStatus"]
        /\ {"operation", "length"} \subseteq IDSFields["FifoRead"]
        /\ {"operation", "payLoad"} \subseteq IDSFields["FifoWrite"]
        /\ "startTime" \in IDSFields["StartLog"]
    BY IDSFieldsParts, IDSFieldsBNames DEF Part, IDSFieldsB
  <2>3. /\ Members(<<"operation">>) \subseteq IDSFields["FifoStatus"]
        /\ Members(<<"operation", "length">>) \subseteq IDSFields["FifoRead"]
        /\ Members(<<"operation", "payLoad">>) \subseteq IDSFields["FifoWrite"]
        /\ Members(<<"startTime">>) \subseteq IDSFields["StartLog"]
    BY <2>2, FewMembers
  <2>4. Laid(BuildIDSE)
    <3>1. /\ BuildIDSE["FifoStatus"] = IDSCommand(<<"operation">>, 9)
          /\ BuildIDSE["FifoRead"] = IDSCommand(<<"operation", "length">>, 9)
      BY DEF BuildIDSE
    <3>2. /\ Members(BuildIDSE["FifoStatus"].body) \subseteq Assigned("FifoStatus")
          /\ Members(BuildIDSE["FifoRead"].body) \subseteq Assigned("FifoRead")
      BY <1>4, <2>1, <2>3, <3>1, IDSFieldsNames
    <3>3. QED
      BY <3>2, BuildIDSENames DEF Laid
  <2>5. Laid(BuildIDSF)
    <3>1. /\ BuildIDSF["FifoWrite"] = IDSCommand(<<"operation", "payLoad">>, 9)
          /\ BuildIDSF["StartLog"] = IDSCommand(<<"startTime">>, 0)
      BY DEF BuildIDSF
    <3>2. /\ Members(BuildIDSF["FifoWrite"].body) \subseteq Assigned("FifoWrite")
          /\ Members(BuildIDSF["StartLog"].body) \subseteq Assigned("StartLog")
      BY <1>4, <2>1, <2>3, <3>1, IDSFieldsNames
    <3>3. QED
      BY <3>2, BuildIDSFNames DEF Laid
  <2>6. QED
    BY <2>4, <2>5
<1>9. Laid(BuildIDSG) /\ Laid(BuildIDSH)
  <2>1. /\ Listed(<<>>) /\ Listed(<<"cal">>) /\ Listed(<<"sfe">>)
        /\ Listed(<<"extremeLower", "lower", "upper", "extremeUpper">>)
    BY DEF Listed
  <2>2. /\ "cal" \in IDSFields["SetCalibration"] /\ "sfe" \in IDSFields["SetSfe"]
        /\ {"extremeLower", "lower", "upper", "extremeUpper"}
             \subseteq IDSFields["SetLogLimits"]
    BY IDSFieldsParts, IDSFieldsBNames DEF Part, IDSFieldsB
  <2>3. /\ Members(<<>>) \subseteq IDSFields["GetCalibration"]
        /\ Members(<<"cal">>) \subseteq IDSFields["SetCalibration"]
        /\ Members(<<"sfe">>) \subseteq IDSFields["SetSfe"]
        /\ Members(<<"extremeLower", "lower", "upper", "extremeUpper">>)
             \subseteq IDSFields["SetLogLimits"]
    BY <2>2, FewMembers
  <2>4. Laid(BuildIDSG)
    <3>1. /\ BuildIDSG["GetCalibration"] = IDSCommand(<<>>, 9)
          /\ BuildIDSG["SetCalibration"] = IDSCommand(<<"cal">>, 0)
      BY DEF BuildIDSG
    <3>2. /\ Members(BuildIDSG["GetCalibration"].body) \subseteq Assigned("GetCalibration")
          /\ Members(BuildIDSG["SetCalibration"].body) \subseteq Assigned("SetCalibration")
      BY <1>4, <2>1, <2>3, <3>1, IDSFieldsNames
    <3>3. QED
      BY <3>2, BuildIDSGNames DEF Laid
  <2>5. Laid(BuildIDSH)
    <3>1. /\ BuildIDSH["SetSfe"] = IDSCommand(<<"sfe">>, 0)
          /\ BuildIDSH["SetLogLimits"]
               = IDSCommand(<<"extremeLower", "lower", "upper", "extremeUpper">>, 0)
      BY DEF BuildIDSH
    <3>2. /\ Members(BuildIDSH["SetSfe"].body) \subseteq Assigned("SetSfe")
          /\ Members(BuildIDSH["SetLogLimits"].body) \subseteq Assigned("SetLogLimits")
      BY <1>4, <2>1, <2>3, <3>1, IDSFieldsNames
    <3>3. QED
      BY <3>2, BuildIDSHNames DEF Laid
  <2>6. QED
    BY <2>4, <2>5
<1>10. Laid(BuildIDSI)
  <2>1. Listed(<<"shelfLifeBlock0", "shelfLifeBlock1">>)
    BY DEF Listed
  <2>2. {"shelfLifeBlock0", "shelfLifeBlock1"} \subseteq IDSFields["SetShelfLife"]
    BY IDSFieldsParts, IDSFieldsCNames DEF Part, IDSFieldsC
  <2>3. Members(<<"shelfLifeBlock0", "shelfLifeBlock1">>) \subseteq IDSFields["SetShelfLife"]
    BY <2>2, FewMembers
  <2>4. BuildIDSI["SetShelfLife"]
          = IDSCommand(<<"shelfLifeBlock0", "shelfLifeBlock1">>, 0)
    BY DEF BuildIDSI
  <2>5. Members(BuildIDSI["SetShelfLife"].body) \subseteq Assigned("SetShelfLife")
    BY <1>4, <2>1, <2>3, <2>4, IDSFieldsNames
  <2>6. QED
    BY <2>5, BuildIDSINames DEF Laid
<1>11. QED
  BY <1>3, <1>5, <1>6, <1>7, <1>8, <1>9, <1>10, LaidJoin DEF BuildIDS

(* Those of the Denatran chips.                                            *)
LEMMA IAVLaid == Laid(BuildIAV)
<1>1. /\ \A o \in IAVOps : "payload" \in IAVFields[o]
      /\ {"payload", "token"} \subseteq IAVFields["SiniavToken"]
      /\ \A o \in {"ReadMemMap", "ReadSec"} : {"payload", "readPtr"} \subseteq IAVFields[o]
      /\ {"payload", "writePtr", "wordData", "tagIdentification", "dataBuf"}
           \subseteq IAVFields["WriteMemMap"]
      /\ {"payload", "dataWords", "dataBuf"} \subseteq IAVFields["WriteSec"]
  BY DEF IAVFields, IAVOps, ++
<1>2. Laid(BuildIAVA)
  <2>1. Laid([o \in IAVOps |-> IAVCommand(<<"payload">>)])
    <3>1. \A o \in IAVOps : "payload" \in Assigned(o)
      BY <1>1, IAVAssigned, IAVFieldsNames DEF IAVOps
    <3>2. Members(IAVCommand(<<"payload">>).body) = {"payload"}
      BY FewMembers, BodyOfRow
    <3>3. QED
      BY <3>1, <3>2 DEF Laid
  <2>2. Laid([ReadMemMap |-> IAVCommand(<<"payload", "readPtr">>)])
    <3>1. {"payload", "readPtr"} \subseteq Assigned("ReadMemMap")
      BY <1>1, IAVAssigned, IAVFieldsNames
    <3>2. Members(IAVCommand(<<"payload", "readPtr">>).body) = {"payload", "readPtr"}
      BY FewMembers DEF IAVCommand, Specific, Built
    <3>3. QED
      BY <3>1, <3>2 DEF Laid
  <2>3. QED
    BY <2>1, <2>2, LaidJoin DEF BuildIAVA
<1>3. Laid(BuildIAVB)
  <2>1. /\ {"payload", "readPtr"} \subseteq Assigned("ReadSec")
        /\ {"payload"} \subseteq Assigned("Siniav")
        /\ {"payload", "token"} \subseteq Assigned("SiniavToken")
    BY <1>1, IAVAssigned, IAVFieldsNames
  <2>2. /\ Members(BuildIAVB["ReadSec"].body) = {"payload", "readPtr"}
        /\ Members(BuildIAVB["Siniav"].body) = {"payload"}
        /\ Members(BuildIAVB["SiniavToken"].body) = {"payload", "token"}
    BY FewMembers DEF BuildIAVB, IAVCommand, Specific, Built
  <2>3. QED
    BY <2>1, <2>2, BuildIAVBNames DEF Laid
<1>4. Laid(BuildIAVC)
  <2>1. {"payload", "writePtr", "wordData", "tagIdentification", "dataBuf"}
          \subseteq Assigned("WriteMemMap")
    BY <1>1, IAVAssigned, IAVFieldsNames
  <2>2. Members(BuildIAVC["WriteMemMap"].body)
          = {"payload", "writePtr", "wordData", "tagIdentification", "dataBuf"}
    BY FewMembers DEF BuildIAVC, IAVCommand, Specific, Built
  <2>3. QED
    BY <2>1, <2>2, BuildIAVCNames DEF Laid
<1>5. Laid(BuildIAVD)
  <2>1. {"payload", "dataWords", "dataBuf"} \subseteq Assigned("WriteSec")
    BY <1>1, IAVAssigned, IAVFieldsNames
  <2>2. /\ Members(BuildIAVD["WriteSec"].body) = {"payload", "dataWords", "dataBuf"}
        /\ Members(BuildIAVD["GetTokenId"].body) = {}
    BY FewMembers DEF BuildIAVD, IAVCommand, Specific, Built
  <2>3. QED
    BY <2>1, <2>2, BuildIAVDNames DEF Laid
<1>6. QED
  BY <1>2, <1>3, <1>4, <1>5, LaidJoin DEF BuildIAV

(* All commands.                                                           *)
LEMMA BuilderLaid == Laid(Builder)
BY StandardLaid, HiggsLaid, NXPLaid, AESLaid, IDSLaid, IAVLaid, LaidJoin DEF Builder

(* An OpSpec is filled from what the operation's own function assigned; the*)
(* exceptions are the delays of Initialize and the token of a Siniav       *)
(* without one.                                                            *)
RowFilled(o, row) == \A slot \in DOMAIN row.places : row.places[slot] \in Assigned(o)

OpSpecsFilled(f) ==
  \A o \in DOMAIN f \ {"Initialize", "InitializeTimer", "Siniav"} : RowFilled(o, f[o])

(* Tables put together.                                                    *)
LEMMA FilledJoin ==
  ASSUME NEW f, NEW g, OpSpecsFilled(f), OpSpecsFilled(g)
  PROVE  OpSpecsFilled(f ++ g)
BY DEF OpSpecsFilled, ++

(* An OpSpec of names is filled when the names are assigned.               *)
LEMMA FilledNames ==
  ASSUME NEW o, NEW names, names \subseteq Assigned(o), NEW password
  PROVE  RowFilled(o, OpSpec(password, names))
BY DEF RowFilled, OpSpec

(* So is an SL900A's, whose structure has the common part filled.          *)
LEMMA FilledIDS ==
  ASSUME NEW o \in DOMAIN IDSFields \ {"Initialize", "InitializeTimer"},
         NEW names, names \subseteq IDSFields[o]
  PROVE  RowFilled(o, IDSOpSpec(names))
<1>1. \A f \in {IDSFieldsA, IDSFieldsB, IDSFieldsC} :
        \A n \in DOMAIN f : {"level", "CommandCode", "Password"} \subseteq f[n]
  BY DEF IDSFieldsA, IDSFieldsB, IDSFieldsC, IDSCommon
<1>2. {"level", "CommandCode", "Password"} \subseteq IDSFields[o]
  BY <1>1 DEF IDSFields, ++
<1>3. {"level", "CommandCode", "Password"} \cup names \subseteq Assigned(o)
  BY <1>2, IDSAssigned
<1>4. QED
  BY <1>3, FilledNames DEF IDSOpSpec

(* The OpSpecs of the standard and of the ISO 18000-6B operations.         *)
LEMMA StandardFilled ==
  /\ OpSpecsFilled(OpSpecA) /\ OpSpecsFilled(OpSpecLock) /\ OpSpecsFilled(OpSpecISO)
<1>1. /\ {"bank", "wordAddress", "len"} \subseteq StandardFields["ReadData"]
      /\ {"bank", "wordPtr", "wordCount"} \subseteq StandardFields["BlockErase"]
      /\ {"epcptr"} \subseteq StandardFields["WriteTag"]
      /\ {"bank", "wordAddress", "data"} \subseteq StandardFields["WriteData"]
      /\ {"mask", "action"} \subseteq StandardFields["Lock"]
  BY DEF StandardFields
<1>2. /\ {"bank", "wordAddress", "len"} \subseteq Assigned("ReadData")
      /\ {"bank", "wordPtr", "wordCount"} \subseteq Assigned("BlockErase")
      /\ {"epcptr"} \subseteq Assigned("WriteTag")
      /\ {"bank", "wordAddress", "data"} \subseteq Assigned("WriteData")
      /\ {"mask", "action"} \subseteq Assigned("Lock")
  BY <1>1, StandardAssigned, StandardFieldsNames
<1>3. /\ {"byteAddress", "len"} \subseteq Assigned("ISOReadData")
      /\ {"byteAddress", "data"} \subseteq Assigned("ISOWriteData")
      /\ {"address"} \subseteq Assigned("ISOLock")
  BY StandardAssigned, ISOFieldsNames DEF ISOFields
<1>4. OpSpecsFilled(OpSpecA)
  BY <1>2, FilledNames DEF OpSpecA, OpSpecsFilled
<1>5. OpSpecsFilled(OpSpecLock)
  BY <1>2, FilledNames DEF OpSpecLock, OpSpecsFilled
<1>6. OpSpecsFilled(OpSpecISO)
  BY <1>3, FilledNames DEF OpSpecISO, OpSpecsFilled
<1>7. QED
  BY <1>4, <1>5, <1>6

(* Those of the chips of Alien, NXP and Impinj.                            *)
LEMMA ChipFilled ==
  /\ OpSpecsFilled(OpSpecB) /\ OpSpecsFilled(OpSpecHiggs3)
  /\ OpSpecsFilled(OpSpecC) /\ OpSpecsFilled(OpSpecNXP)
<1>1. {"readLock", "bank", "blockPtr", "mask"} \subseteq Assigned("BlockPermaLock")
  BY StandardAssigned, StandardFieldsNames DEF StandardFields
<1>2. /\ {"password"} \subseteq Assigned("Kill")
      /\ {"bank", "wordPtr", "data"} \subseteq Assigned("BlockWrite")
  BY StandardAssigned, StandardFieldsNames DEF StandardFields
<1>3. /\ {"killPassword", "accessPassword", "epcptr"} \subseteq AlienFields["Higgs2PartialLoad"]
      /\ {"killPassword", "accessPassword", "lockBits", "pcWord", "epcptr"}
           \subseteq AlienFields["Higgs2FullLoad"]
      /\ {"killPassword", "accessPassword", "pcWord", "epcptr"}
           \subseteq AlienFields["Higgs3FastLoad"]
      /\ {"killPassword", "accessPassword", "pcWord", "epcAndUserData"}
           \subseteq AlienFields["Higgs3Load"]
      /\ {"lockBits"} \subseteq AlienFields["Higgs3BlockReadLock"]
  BY DEF AlienFields
<1>4. /\ {"killPassword", "accessPassword", "epcptr"} \subseteq Assigned("Higgs2PartialLoad")
      /\ {"killPassword", "accessPassword", "lockBits", "pcWord", "epcptr"}
           \subseteq Assigned("Higgs2FullLoad")
      /\ {"killPassword", "accessPassword", "pcWord", "epcptr"}
           \subseteq Assigned("Higgs3FastLoad")
      /\ {"killPassword", "accessPassword", "pcWord", "epcAndUserData"}
           \subseteq Assigned("Higgs3Load")
      /\ {"lockBits"} \subseteq Assigned("Higgs3BlockReadLock")
  BY <1>3, ChipAssigned, AlienFieldsNames
<1>5. /\ {"reset"} \subseteq Assigned("ChangeEAS")
      /\ {"dr", "m", "trExt"} \subseteq Assigned("EASAlarm")
  BY ChipAssigned, NXPFieldsNames DEF NXPFields
<1>6. OpSpecsFilled(OpSpecB)
  BY <1>1, <1>4, FilledNames DEF OpSpecB, OpSpecsFilled
<1>7. OpSpecsFilled(OpSpecHiggs3)
  BY <1>4, FilledNames DEF OpSpecHiggs3, OpSpecsFilled
<1>8. OpSpecsFilled(OpSpecC)
  BY <1>2, FilledNames DEF OpSpecC, OpSpecsFilled
<1>9. OpSpecsFilled(OpSpecNXP)
  BY <1>5, FilledNames DEF OpSpecNXP, OpSpecsFilled
<1>10. QED
  BY <1>6, <1>7, <1>8, <1>9

(* Those of the SL900A's commands, with the rows they share tables with.   *)
LEMMA SL900AFilled ==
  /\ OpSpecsFilled(OpSpecD) /\ OpSpecsFilled(OpSpecIDSA) /\ OpSpecsFilled(OpSpecIDSB)
  /\ OpSpecsFilled(OpSpecE) /\ OpSpecsFilled(OpSpecIDSC) /\ OpSpecsFilled(OpSpecIDSD)
  /\ OpSpecsFilled(OpSpecIDSE) /\ OpSpecsFilled(OpSpecF)
<1>1. /\ {"sensortype"} \subseteq IDSFields["GetSensor"]
      /\ {"dataLog", "rule", "Ext1Enable", "Ext2Enable", "TempEnable", "BattEnable",
          "LogInterval"} \subseteq IDSFields["SetLogMode"]
  BY IDSFieldsParts, IDSFieldsANames DEF Part, IDSFieldsA
<1>2. /\ {"sfe"} \subseteq IDSFields["SetSfe"]
      /\ {"extremeLower", "lower", "upper", "extremeUpper"}
           \subseteq IDSFields["SetLogLimits"]
      /\ {"startTime"} \subseteq IDSFields["StartLog"]
      /\ {"payLoad"} \subseteq IDSFields["FifoWrite"]
      /\ {"length"} \subseteq IDSFields["FifoRead"]
      /\ {"cal"} \subseteq IDSFields["SetCalibration"]
  BY IDSFieldsParts, IDSFieldsBNames DEF Part, IDSFieldsB
<1>3. /\ {"shelfLifeBlock0", "shelfLifeBlock1"} \subseteq IDSFields["SetShelfLife"]
      /\ {"NewPasswordLevel", "NewPassword"} \subseteq IDSFields["SetPassword"]
  BY IDSFieldsParts, IDSFieldsCNames DEF Part, IDSFieldsC
<1>4. {"configWord"} \subseteq Assigned("ChangeConfig")
  BY ChipAssigned, NXPFieldsNames DEF NXPFields
<1>5. {"controlByte", "payload"} \subseteq Assigned("QTReadWrite")
  BY ChipAssigned, MonzaFieldsNames DEF MonzaFields
<1>6. {"payload"} \subseteq Assigned("ActivateSecure")
  <2>1. {"payload"} \subseteq IAVFields["ActivateSecure"]
    BY DEF IAVFields, IAVOps, ++
  <2>2. QED
    BY <2>1, IAVAssigned, IAVFieldsNames
<1>7. OpSpecsFilled(OpSpecD)
  BY <1>2, <1>4, FilledNames, FilledIDS, IDSFieldsNames DEF OpSpecD, OpSpecsFilled
<1>8. OpSpecsFilled(OpSpecIDSA)
  BY <1>2, FilledIDS, IDSFieldsNames DEF OpSpecIDSA, OpSpecsFilled
<1>9. OpSpecsFilled(OpSpecIDSB)
  BY <1>3, FilledIDS, IDSFieldsNames DEF OpSpecIDSB, OpSpecsFilled
<1>10. OpSpecsFilled(OpSpecE)
  BY <1>1, <1>5, FilledNames, FilledIDS, IDSFieldsNames DEF OpSpecE, OpSpecsFilled
<1>11. OpSpecsFilled(OpSpecIDSC)
  BY <1>1, <1>2, FilledIDS, IDSFieldsNames DEF OpSpecIDSC, OpSpecsFilled
<1>12. OpSpecsFilled(OpSpecIDSD)
  BY <1>2, FilledIDS, IDSFieldsNames DEF OpSpecIDSD, OpSpecsFilled
<1>13. OpSpecsFilled(OpSpecIDSE)
  BY <1>2, FilledIDS, IDSFieldsNames DEF OpSpecIDSE, OpSpecsFilled
<1>14. OpSpecsFilled(OpSpecF)
  BY <1>2, <1>6, FilledNames, FilledIDS, IDSFieldsNames DEF OpSpecF, OpSpecsFilled
<1>15. QED
  BY <1>7, <1>8, <1>9, <1>10, <1>11, <1>12, <1>13, <1>14

(* Those of the other Denatran commands.                                   *)
LEMMA DenatranFilled == OpSpecsFilled(OpSpecIAVA) /\ OpSpecsFilled(OpSpecIAVB)
<1>1. /\ \A o \in {"AuthenticateOBU", "OBUAuthID", "FullPass1", "FullPass2"} :
           {"payload"} \subseteq IAVFields[o]
      /\ {"payload", "token"} \subseteq IAVFields["SiniavToken"]
      /\ {"payload", "readPtr"} \subseteq IAVFields["ReadMemMap"]
      /\ {"payload", "writePtr", "wordData", "tagIdentification", "dataBuf"}
           \subseteq IAVFields["WriteMemMap"]
  BY DEF IAVFields, IAVOps, ++
<1>2. /\ \A o \in {"AuthenticateOBU", "OBUAuthID", "FullPass1", "FullPass2"} :
           {"payload"} \subseteq Assigned(o)
      /\ {"payload", "token"} \subseteq Assigned("SiniavToken")
      /\ {"payload", "readPtr"} \subseteq Assigned("ReadMemMap")
      /\ {"payload", "writePtr", "wordData", "tagIdentification", "dataBuf"}
           \subseteq Assigned("WriteMemMap")
  BY <1>1, IAVAssigned, IAVFieldsNames
<1>3. OpSpecsFilled(OpSpecIAVA)
  <2>1. OpSpecsFilled([o \in {"AuthenticateOBU", "OBUAuthID", "FullPass1"} |->
                         OpSpec("none", {"payload"})])
    BY <1>2, FilledNames DEF OpSpecsFilled
  <2>2. OpSpecsFilled([o \in {"Siniav", "SiniavToken"} |->
                         OpSpec("none", {"payload", "token"})])
    BY <1>2, FilledNames DEF OpSpecsFilled
  <2>3. QED
    BY <2>1, <2>2, FilledJoin DEF OpSpecIAVA
<1>4. OpSpecsFilled(OpSpecIAVB)
  <2> DEFINE row == OpSpec("none", {"payload", "writePtr", "wordData",
                                    "tagIdentification", "dataBuf"})
             places == [row EXCEPT !.places["tagIdentification"] = "dataBuf"].places
  <2>1. \A slot \in DOMAIN places : places[slot] \in Assigned("WriteMemMap")
    BY <1>2 DEF OpSpec
  <2>2. OpSpecIAVB["WriteMemMap"].places = places
    BY DEF OpSpecIAVB
  <2>3. \A o \in {"FullPass2", "ReadMemMap"} : RowFilled(o, OpSpecIAVB[o])
    BY <1>2, FilledNames DEF OpSpecIAVB
  <2>4. DOMAIN OpSpecIAVB = {"FullPass2", "ReadMemMap", "WriteMemMap"}
    BY DEF OpSpecIAVB
  <2> HIDE DEF places
  <2>5. RowFilled("WriteMemMap", OpSpecIAVB["WriteMemMap"])
    BY <2>1, <2>2 DEF RowFilled
  <2>6. QED
    BY <2>3, <2>4, <2>5 DEF OpSpecsFilled
<1>5. QED
  BY <1>3, <1>4

(* All OpSpecs.                                                            *)
LEMMA OpSpecsAreFilled == OpSpecsFilled(OpSpecs)
<1>1. OpSpecsFilled(OpSpecs1)
  BY StandardFilled, ChipFilled, FilledJoin DEF OpSpecs1
<1>2. OpSpecsFilled(OpSpecs2)
  BY SL900AFilled, FilledJoin DEF OpSpecs2
<1>3. OpSpecsFilled(OpSpecs3)
  BY StandardFilled, SL900AFilled, DenatranFilled, FilledJoin DEF OpSpecs3
<1>4. QED
  BY <1>1, <1>2, <1>3, FilledJoin DEF OpSpecs

(* What memory holds: what the operation's own function assigned, and else *)
(* what was there before.                                                  *)
MemoryInv ==
  op # NoOp =>
    memory = [f \in Fields[op.name] |-> IF f \in Filler[op.name].sets THEN "own"
                                                                      ELSE "leftover"]

(* At the start there is no operation.                                     *)
LEMMA MemoryInvInit == TagInit => MemoryInv
BY DEF TagInit, MemoryInv

(* Only an initialisation writes the structure.                            *)
LEMMA MemoryInvStep == MemoryInv /\ [TagNext]_tagVars => MemoryInv'
<1> SUFFICES ASSUME MemoryInv, [TagNext]_tagVars PROVE MemoryInv'
  OBVIOUS
<1>1. CASE InitTagOp
  BY <1>1 DEF InitTagOp, MemoryInv
<1>2. CASE op' = op /\ memory' = memory
  BY <1>2 DEF MemoryInv
<1>3. QED
  BY <1>1, <1>2 DEF TagNext, SetAccessPassword, ExecuteTagOp, SearchWithTagOp, ParseTag,
                    AddAccessSpec, TakeReport, tagVars, opVars

(* What is read of memory is the operation's own where it was assigned.    *)
LEMMA OwnMemory ==
  ASSUME MemoryInv, op # NoOp, NEW f \in Assigned(op.name)
  PROVE  memory[f] = "own"
BY DEF MemoryInv, Assigned

(* The state of the log is asked for in the frame of the measurement setup.*)
LEMMA LogStateLaid ==
  Members(Builder["GetLogState"].body) \subseteq Assigned("GetMeasurementSetup")
<1>1. Builder["GetLogState"].body = Builder["GetMeasurementSetup"].body
  <2>1. BuildIDS["GetLogState"] = BuildIDS["GetMeasurementSetup"]
    BY BuildIDSParts, BuildIDSBNames DEF Part, BuildIDSB
  <2>2. QED
    BY <2>1, BuilderParts, BuildIDSNames DEF Part
<1>2. "GetMeasurementSetup" \in DOMAIN Builder
  BY BuilderParts, BuildIDSNames DEF Part
<1>3. QED
  BY <1>1, <1>2, BuilderLaid DEF Laid

(* Messages laid out from a structure that was filled so carry no          *)
(* leftover.                                                               *)
LEMMA NothingLeft == SentRight /\ MemoryInv => NoLeftovers
<1> SUFFICES ASSUME SentRight, MemoryInv,
                    op.name \notin {"Initialize", "InitializeTimer"},
                    ~(readerType = "llrp" /\ op.name = "Siniav"),
                    NEW k \in 1..Len(sent), NEW i \in DOMAIN sent[k].body
             PROVE  sent[k].body[i].from # "leftover"
  BY DEF NoLeftovers
<1>1. CASE readerType = "serial"
  <2>1. CommandRight(sent[k]) /\ op # NoOp
    BY <1>1 DEF SentRight
  <2>2. ASSUME NEW o \in Commands, InPlace(sent[k].body[i], o)
        PROVE  sent[k].body[i].from # "leftover"
    <3>1. Members(Builder[o].body) \subseteq Assigned(op.name)
      <4>1. CASE o = op.name
        BY <2>1, <4>1, BuilderLaid DEF CommandRight, Laid
      <4>2. CASE o # op.name
        BY <4>2, LogStateLaid DEF Commands
      <4>3. QED
        BY <4>1, <4>2
    <3>2. QED
      BY <2>1, <2>2, <3>1, OwnMemory DEF InPlace
  <2>3. QED
    BY <2>1, <2>2 DEF CommandRight, NotSent
<1>2. CASE readerType = "llrp"
  <2>1. OpSpecRight(sent[k]) /\ op # NoOp
    BY <1>2 DEF SentRight
  <2>2. OpSpecs[op.name].places[i] \in Assigned(op.name)
    BY <1>2, <2>1, OpSpecsAreFilled DEF OpSpecRight, OpSpecsFilled, RowFilled
  <2>3. sent[k].body[i].from = memory[OpSpecs[op.name].places[i]]
    BY <2>1 DEF OpSpecRight
  <2>4. QED
    BY <2>1, <2>2, <2>3, OwnMemory
<1>3. QED
  BY <1>1, <1>2 DEF SentRight

(* Whatever was in the memory before, every byte that is taken from the    *)
(* structure for a message was put there by the operation's own            *)
(* TMR_TagOp_init, but for the delays of Initialize and the token of a     *)
(* Siniav without one on an LLRP reader.                                   *)
THEOREM NoLeftoversCorrect == TagSpec => []NoLeftovers
<1>1. TagSpec => []SentRight
  BY SentRightInit, SentRightStep, PTL DEF TagSpec
<1>2. TagSpec => []MemoryInv
  BY MemoryInvInit, MemoryInvStep, PTL DEF TagSpec
<1>3. QED
  BY <1>1, <1>2, NothingLeft, PTL
===============================================================================
