---------------------------- MODULE LlrpTagOpTables ----------------------------
(***************************************************************************)
(* Tag operations on an LLRP reader, in the names of TagOpTables.  An      *)
(* operation passes through three switches of llrp_reader_l3.c that        *)
(* nothing keeps in step: the one that makes an OpSpec of its structure    *)
(* (TMR_LLRP_msgPrepareAccessCommand), the one that makes a status of the  *)
(* reader's result (TMR_LLRP_verifyOpSpecResultStatus) and the one that    *)
(* takes the data out of it (TMR_LLRP_parseTagOpSpecData).                 *)
(***************************************************************************)
EXTENDS TagOpTables

-------------------------------------------------------------------------------
(* OpSpecs.  A row has the password that accesses the tag (as in Call) and *)
(* the field that fills each place; the places are named for the fields    *)
(* they are meant for.                                                     *)

OpSpec(password, names) == [select |-> password, places |-> [f \in names |-> f]]

OpSpecA ==
  [ ReadData   |-> OpSpec("setting", {"bank", "wordAddress", "len"}),
    BlockErase |-> OpSpec("setting", {"bank", "wordPtr", "wordCount"}),
    WriteTag   |-> OpSpec("setting", {"epcptr"}),
    WriteData  |-> OpSpec("setting", {"bank", "wordAddress", "data"}) ]

OpSpecB ==
  [ BlockPermaLock    |-> OpSpec("setting", {"readLock", "bank", "blockPtr", "mask"}),
    Higgs2PartialLoad |-> OpSpec("setting", {"killPassword", "accessPassword", "epcptr"}),
    Higgs2FullLoad    |-> OpSpec("setting", {"killPassword", "accessPassword", "lockBits",
                                             "pcWord", "epcptr"}) ]

OpSpecHiggs3 ==
  [ Higgs3FastLoad |-> OpSpec("currentAccessPassword",
                              {"killPassword", "accessPassword", "pcWord", "epcptr"}),
    Higgs3Load     |-> OpSpec("currentAccessPassword",
                              {"killPassword", "accessPassword", "pcWord",
                               "epcAndUserData"}),
    Higgs3BlockReadLock |-> OpSpec("accessPassword", {"lockBits"}) ]

(* A lock names one bit of the mask; its action is one of that bit's two.  *)
OpSpecLock == [ Lock |-> OpSpec("accessPassword", {"mask", "action"}) ]

LockBits == 0..9
LockedField ==
  <<"User", "User", "TID", "TID", "EPC", "EPC", "Access", "Access", "Kill", "Kill">>
LockPrivilege(bit, one) ==
  CASE bit % 2 = 0 /\ one  -> "Perma_Lock"
    [] bit % 2 = 0 /\ ~one -> "Perma_Unlock"
    [] bit % 2 = 1 /\ one  -> "Read_Write"
    [] bit % 2 = 1 /\ ~one -> "Unlock"

(* 1 == action >> bit: the bit is the highest of the action.               *)
LockPayload(bit, action) ==
  [field |-> LockedField[bit + 1],
   privilege |-> LockPrivilege(bit, bit \in action /\ \A b \in action : b <= bit)]

OpSpecC ==
  [ Kill             |-> OpSpec("none", {"password"}),
    BlockWrite       |-> OpSpec("setting", {"bank", "wordPtr", "data"}),
    SetReadProtect   |-> OpSpec("accessPassword", {}),
    ResetReadProtect |-> OpSpec("accessPassword", {}) ]

OpSpecNXP ==
  [ ChangeEAS |-> OpSpec("accessPassword", {"reset"}),
    EASAlarm  |-> OpSpec("setting", {"dr", "m", "trExt"}),
    Calibrate |-> OpSpec("accessPassword", {}) ]

(* Every operation of the SL900A has a command request of its own.         *)
IDSOpSpec(names) ==
  OpSpec("AccessPassword", {"level", "CommandCode", "Password"} \cup names)

OpSpecD ==
  [ ChangeConfig |-> OpSpec("accessPassword", {"configWord"}),
    SetSfe       |-> IDSOpSpec({"sfe"}) ]

(* The type of the battery is not sent.                                    *)
OpSpecIDSA ==
  [ GetMeasurementSetup |-> IDSOpSpec({}),
    GetBattery          |-> IDSOpSpec({}),
    SetLogLimits |-> IDSOpSpec({"extremeLower", "lower", "upper", "extremeUpper"}) ]

OpSpecIDSB ==
  [ SetShelfLife |-> IDSOpSpec({"shelfLifeBlock0", "shelfLifeBlock1"}),
    SetPassword  |-> IDSOpSpec({"NewPasswordLevel", "NewPassword"}) ]

OpSpecE ==
  LET delays == IDSOpSpec({"delayTime", "applicationData"})
  IN  [ QTReadWrite |-> OpSpec("accessPassword", {"controlByte", "payload"}),
        GetSensor   |-> IDSOpSpec({"sensortype"}),
        Initialize  |-> delays,
        InitializeTimer |-> delays ]

OpSpecIDSC ==
  [ SetLogMode  |-> IDSOpSpec({"dataLog", "rule", "Ext1Enable", "Ext2Enable", "TempEnable",
                               "BattEnable", "LogInterval"}),
    StartLog    |-> IDSOpSpec({"startTime"}),
    GetLogState |-> IDSOpSpec({}) ]

(* What is done to the FIFO is said by the OpSpec's type.                  *)
OpSpecIDSD ==
  [ EndLog     |-> IDSOpSpec({}),
    FifoStatus |-> IDSOpSpec({}),
    FifoWrite  |-> IDSOpSpec({"payLoad"}) ]

OpSpecIDSE == [ FifoRead |-> IDSOpSpec({"length"}), GetCalibration |-> IDSOpSpec({}) ]

(* A Denatran IAV command has no access password.                          *)
OpSpecF ==
  [ SetCalibration |-> IDSOpSpec({"cal"}),
    ActivateSecure |-> OpSpec("none", {"payload"}) ]

(* Eight bytes of token are sent whether or not there is one.              *)
OpSpecIAVA ==
  [o \in {"AuthenticateOBU", "OBUAuthID", "FullPass1"} |-> OpSpec("none", {"payload"})]
    ++ [o \in {"Siniav", "SiniavToken"} |-> OpSpec("none", {"payload", "token"})]

(* The identification is taken from dataBuf, like the data.                *)
OpSpecIAVB ==
  [ FullPass2   |-> OpSpec("none", {"payload"}),
    ReadMemMap  |-> OpSpec("none", {"payload", "readPtr"}),
    WriteMemMap |-> [OpSpec("none", {"payload", "writePtr", "wordData",
                                     "tagIdentification", "dataBuf"})
                       EXCEPT !.places["tagIdentification"] = "dataBuf"] ]

OpSpecISO ==
  [ ISOReadData  |-> OpSpec("none", {"byteAddress", "len"}),
    ISOWriteData |-> OpSpec("none", {"byteAddress", "data"}),
    ISOLock      |-> OpSpec("none", {"address"}) ]

(* The switch in three parts: up to NXP's, up to the FIFO, the rest.       *)
OpSpecs1 == OpSpecA ++ OpSpecB ++ OpSpecHiggs3 ++ OpSpecLock ++ OpSpecC ++ OpSpecNXP
OpSpecs2 == OpSpecD ++ OpSpecIDSA ++ OpSpecIDSB ++ OpSpecE ++ OpSpecIDSC ++ OpSpecIDSD
OpSpecs3 == OpSpecIDSE ++ OpSpecF ++ OpSpecIAVA ++ OpSpecIAVB ++ OpSpecISO

OpSpecs == OpSpecs1 ++ OpSpecs2 ++ OpSpecs3

-------------------------------------------------------------------------------
(* Results.  The outcomes that an operation's result can say, each with a  *)
(* status of its own; any other is a status that says nothing.             *)

CustomOutcomes == {"success", "tag error", "no response", "reader error"}

OutcomesA ==
  [ ReadData  |-> CustomOutcomes \cup {"overrun", "locked"},
    WriteData |-> CustomOutcomes \cup {"overrun", "locked", "power"} ]

OutcomesB ==
  [ Kill |-> CustomOutcomes \cup {"zero password", "power"},
    Lock |-> CustomOutcomes \cup {"power"} ]

OutcomesC ==
  [o \in {"BlockErase", "BlockWrite"} |-> CustomOutcomes \cup {"overrun", "locked", "power"}]

Custom6 == {"BlockPermaLock", "Higgs2PartialLoad", "Higgs2FullLoad", "Higgs3FastLoad",
            "Higgs3Load", "Higgs3BlockReadLock"}

(* Seeded: QTReadWrite has no case of its own. *)
CustomNXPSeeded == {"SetReadProtect", "ResetReadProtect", "ChangeEAS", "EASAlarm",
                    "Calibrate", "ChangeConfig"}

CustomNXP == {"SetReadProtect", "ResetReadProtect", "ChangeEAS", "EASAlarm", "Calibrate",
              "ChangeConfig", "QTReadWrite"}

CustomIDSA ==
  {"SetSfe", "GetMeasurementSetup", "GetBattery", "SetLogLimits", "SetShelfLife",
   "SetPassword", "WriteTag", "GetSensor", "SetLogMode", "StartLog", "GetLogState", "EndLog"}

CustomIDSB ==
  {"Initialize", "InitializeTimer", "FifoStatus", "FifoWrite", "FifoRead", "GetCalibration",
   "SetCalibration"}

CustomIAV ==
  {"ActivateSecure", "AuthenticateOBU", "Siniav", "SiniavToken", "OBUAuthID", "FullPass1",
   "FullPass2", "ReadMemMap", "WriteMemMap", "ISOReadData", "ISOWriteData", "ISOLock"}

OutcomesOf ==
  OutcomesA ++ OutcomesB ++ OutcomesC
    ++ [o \in Custom6 \cup CustomNXP \cup CustomIDSA \cup CustomIDSB \cup CustomIAV |->
          CustomOutcomes]

Status(o, outcome) ==
  CASE o \notin DOMAIN OutcomesOf -> "LLRP_MSG_PARSE_ERROR"
    [] o \in DOMAIN OutcomesOf /\ outcome \notin OutcomesOf[o] -> "LLRP"
    [] OTHER -> outcome

-------------------------------------------------------------------------------
(* Data.  The operations whose result is copied into the caller's list, as *)
(* much as there is room for; QTReadWrite copies only into a list that has *)
(* room for more than its two bytes, an ISO read leaves the length alone.  *)

DataA == {"ReadData", "EASAlarm"}
DataB == {"Calibrate", "ChangeConfig"}
DataC == {"GetBattery", "GetMeasurementSetup", "QTReadWrite"}
DataIDS == {"GetSensor", "GetLogState", "FifoStatus", "FifoRead", "GetCalibration"}
DataIAVA == {"ActivateSecure", "AuthenticateOBU", "Siniav", "SiniavToken", "OBUAuthID"}
DataIAVB == {"FullPass1", "FullPass2", "ReadMemMap", "WriteMemMap", "ISOReadData"}

Parsed(o, room) ==
  CASE o \notin DataA \cup DataB \cup DataC \cup DataIDS \cup DataIAVA \cup DataIAVB -> "none"
    [] o = "QTReadWrite" /\ room = "exact" -> "length only"
    [] o = "ISOReadData" -> "bytes only"
    [] OTHER -> "taken"
=============================================================================
