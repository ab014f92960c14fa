------------------------------ MODULE TagOpTables ------------------------------
(***************************************************************************)
(* Tag operations as data.  A tag operation passes through four places     *)
(* that nothing in the code keeps in step: the structure that holds its    *)
(* arguments (tmr_tagop.h), the TMR_TagOp_init function that fills it      *)
(* (tm_reader.c), the call of TMR_SR_executeTagOp or TMR_SR_addTagOp that  *)
(* hands the arguments over by position (serial_reader.c), and the         *)
(* function that lays them out as bytes (serial_reader_l3.c).  Each place  *)
(* is a table here, one row per operation; TagOperations joins them.       *)
(*                                                                         *)
(* Arguments have the names of the structure's fields in all four tables,  *)
(* an argument that a function calls otherwise included (wordAddress is    *)
(* also called address and wordPtr).  Widths are left out.                 *)
(***************************************************************************)
EXTENDS Naturals, Sequences, Tables

-------------------------------------------------------------------------------
(* The structures: which fields an operation has.                          *)

StandardFields ==
  [ WriteTag       |-> {"epcptr"},
    ReadData       |-> {"bank", "wordAddress", "len"},
    SecureReadData |-> {"bank", "wordAddress", "len", "type", "passwordType",
                        "password"},
    WriteData      |-> {"bank", "wordAddress", "data"},
    Lock           |-> {"mask", "action", "accessPassword"},
    Kill           |-> {"password"},
    BlockWrite     |-> {"bank", "wordPtr", "data"},
    BlockPermaLock |-> {"readLock", "bank", "blockPtr", "mask"},
    BlockErase     |-> {"bank", "wordPtr", "wordCount"} ]

ISOFields ==
  [ ISOLock      |-> {"address"},
    ISOReadData  |-> {"byteAddress", "len"},
    ISOWriteData |-> {"byteAddress", "data"} ]

AlienFields ==
  [ Higgs2PartialLoad |-> {"chipType", "killPassword", "accessPassword", "epcptr"},
    Higgs2FullLoad    |-> {"chipType", "killPassword", "accessPassword", "lockBits",
                           "pcWord", "epcptr"},
    Higgs3FastLoad    |-> {"chipType", "currentAccessPassword", "killPassword",
                           "accessPassword", "pcWord", "epcptr"},
    Higgs3Load        |-> {"chipType", "currentAccessPassword", "killPassword",
                           "accessPassword", "pcWord", "epcAndUserData"},
    Higgs3BlockReadLock |-> {"chipType", "accessPassword", "lockBits"} ]

NXPFields ==
  [ SetReadProtect   |-> {"chipType", "accessPassword"},
    ResetReadProtect |-> {"chipType", "accessPassword"},
    ChangeEAS        |-> {"chipType", "accessPassword", "reset"},
    EASAlarm         |-> {"chipType", "dr", "m", "trExt"},
    Calibrate        |-> {"chipType", "accessPassword"},
    ChangeConfig     |-> {"chipType", "accessPassword", "configWord"} ]

(* Untraceable has two forms of authorisation, Authenticate and ReadBuffer *)
(* two methods: each form is a row.                                        *)
AESFields ==
  LET config == {"epc", "epcLength", "tid", "userMemory", "range"}
      tam1   == {"chipType", "subCommand", "type", "tam1Auth"}
  IN  [ UntraceableTam1   |-> config \cup {"chipType", "subCommand", "tam1Auth",
                                           "auth.accessPassword"},
        UntraceableAccess |-> config \cup {"chipType", "subCommand", "tam1Auth",
                                           "auth.accessPassword"},
        AuthenticateTam1  |-> tam1 \cup {"tam2Auth"},
        AuthenticateTam2  |-> tam1 \cup {"tam2Auth"},
        ReadBufferTam1    |-> tam1 \cup {"tam2Auth", "wordPointer", "bitCount"},
        ReadBufferTam2    |-> tam1 \cup {"tam2Auth", "wordPointer", "bitCount"} ]

MonzaFields ==
  [ QTReadWrite |-> {"chipType", "accessPassword", "controlByte", "payload"} ]

IAVOps == {"ActivateSecure", "AuthenticateOBU", "OBUAuthID", "FullPass1",
           "FullPass2", "FullPass", "G0PAAuth"}

IAVFields ==
  [o \in IAVOps |-> {"chipType", "mode", "payload"}]
    ++ [ Siniav      |-> {"chipType", "mode", "payload", "isTokenDesc", "token"},
         SiniavToken |-> {"chipType", "mode", "payload", "isTokenDesc", "token"},
         ReadMemMap  |-> {"chipType", "mode", "payload", "readPtr"},
         ReadSec     |-> {"chipType", "mode", "payload", "readPtr"},
         WriteMemMap |-> {"chipType", "mode", "payload", "writePtr", "wordData",
                          "tagIdentification", "dataBuf"},
         WriteSec    |-> {"chipType", "mode", "payload", "dataWords", "dataBuf"},
         GetTokenId  |-> {"chipType", "mode"} ]

(* What every operation of the SL900A has.                                 *)
IDSCommon == {"chipType", "CommandCode", "AccessPassword", "Password", "level"}

IDSFieldsA ==
  [ GetSensor   |-> IDSCommon \cup {"sensortype"},
    GetLogState |-> IDSCommon,
    SetLogMode  |-> IDSCommon \cup {"dataLog", "rule", "Ext1Enable", "Ext2Enable",
                                    "TempEnable", "BattEnable", "LogInterval"},
    EndLog      |-> IDSCommon,
    Initialize  |-> IDSCommon \cup {"delayTime", "applicationData"},
    InitializeTimer |-> IDSCommon \cup {"delayTime", "applicationData"} ]

IDSFieldsB ==
  [ FifoWrite  |-> IDSCommon \cup {"operation", "payLoad"},
    FifoRead   |-> IDSCommon \cup {"operation", "length"},
    FifoStatus |-> IDSCommon \cup {"operation"},
    StartLog   |-> IDSCommon \cup {"startTime"},
    GetCalibration |-> IDSCommon,
    SetCalibration |-> IDSCommon \cup {"cal"},
    SetSfe         |-> IDSCommon \cup {"sfe"},
    GetMeasurementSetup |-> IDSCommon,
    GetBattery   |-> IDSCommon \cup {"batteryType"},
    SetLogLimits |-> IDSCommon \cup {"extremeLower", "lower", "upper",
                                     "extremeUpper"} ]

IDSFieldsC ==
  [ SetShelfLife |-> IDSCommon \cup {"shelfLifeBlock0", "shelfLifeBlock1"},
    SetPassword  |-> IDSCommon \cup {"NewPasswordLevel", "NewPassword"} ]

IDSFields == IDSFieldsA ++ IDSFieldsB ++ IDSFieldsC

ChipFields == AlienFields ++ NXPFields ++ AESFields ++ MonzaFields

Fields == StandardFields ++ ISOFields ++ ChipFields ++ IAVFields ++ IDSFields

OpName == DOMAIN Fields

-------------------------------------------------------------------------------
(* The TMR_TagOp_init functions.  A row has the fields that are assigned   *)
(* from the caller's arguments or to a constant (sets), the silicon that   *)
(* is stored in chipType (chips; one function per silicon) and the         *)
(* constant that is stored as the chip's own command number (sub).         *)

Filled(names) == [sets |-> names, chips |-> {"none"}, sub |-> "none"]

Custom(chips, names) ==
  [sets |-> {"chipType"} \cup names, chips |-> chips, sub |-> "none"]

Numbered(chip, field, sub, names) ==
  [sets |-> {"chipType", field} \cup names, chips |-> {chip}, sub |-> sub]

(* SecureReadData is filled by two functions, one of them for the password.*)
InitA ==
  [ WriteTag       |-> Filled({"epcptr"}),
    ReadData       |-> Filled({"bank", "wordAddress", "len"}),
    SecureReadData |-> Filled({"bank", "wordAddress", "len", "type",
                               "passwordType", "password"}) ]

InitB ==
  [ ISOReadData  |-> Filled({"byteAddress", "len"}),
    WriteData    |-> Filled({"bank", "wordAddress", "data"}),
    ISOWriteData |-> Filled({"byteAddress", "data"}),
    Lock         |-> Filled({"mask", "action", "accessPassword"}),
    ISOLock      |-> Filled({"address"}),
    Kill         |-> Filled({"password"}) ]

InitC ==
  [ BlockWrite     |-> Filled({"bank", "wordPtr", "data"}),
    BlockPermaLock |-> Filled({"readLock", "bank", "blockPtr", "mask"}),
    BlockErase     |-> Filled({"bank", "wordCount", "wordPtr"}) ]

InitAlien ==
  [ Higgs2PartialLoad |-> Custom({"ALIEN_HIGGS"},
                                 {"accessPassword", "killPassword", "epcptr"}),
    Higgs2FullLoad    |-> Custom({"ALIEN_HIGGS"},
                                 {"accessPassword", "killPassword", "lockBits",
                                  "pcWord", "epcptr"}),
    Higgs3FastLoad    |-> Custom({"ALIEN_HIGGS3"},
                                 {"currentAccessPassword", "killPassword",
                                  "accessPassword", "pcWord", "epcptr"}),
    Higgs3Load        |-> Custom({"ALIEN_HIGGS3"},
                                 {"currentAccessPassword", "killPassword",
                                  "accessPassword", "pcWord", "epcAndUserData"}),
    Higgs3BlockReadLock |-> Custom({"ALIEN_HIGGS3"},
                                   {"accessPassword", "lockBits"}) ]

G2 == {"NXP_G2I", "NXP_G2X"}

InitNXP ==
  [ SetReadProtect   |-> Custom(G2, {"accessPassword"}),
    ResetReadProtect |-> Custom(G2, {"accessPassword"}),
    ChangeEAS        |-> Custom(G2, {"accessPassword", "reset"}) ]

(* The TAM structures are copied whole; Tam1authentication and             *)
(* Tam2authentication fill them before.                                    *)
InitAES ==
  LET config == {"epc", "epcLength", "tid", "userMemory", "range"}
      Sub(sub, names) == Numbered("NXP_AES", "subCommand", sub, names)
  IN  [ EASAlarm |-> Custom(G2, {"dr", "m", "trExt"}),
        UntraceableTam1   |-> Sub("02", config \cup {"tam1Auth"}),
        UntraceableAccess |-> Sub("03", config \cup {"auth.accessPassword"}),
        AuthenticateTam1  |-> Sub("01", {"type", "tam1Auth"}),
        AuthenticateTam2  |-> Sub("01", {"type", "tam1Auth", "tam2Auth"}),
        ReadBufferTam1    |-> Sub("04", {"wordPointer", "bitCount", "type",
                                         "tam1Auth"}),
        ReadBufferTam2    |-> Sub("04", {"wordPointer", "bitCount", "type",
                                         "tam1Auth", "tam2Auth"}) ]

InitNXPMonza ==
  [ Calibrate    |-> Custom(G2, {"accessPassword"}),
    ChangeConfig |-> Custom(G2, {"accessPassword", "configWord"}),
    QTReadWrite  |-> Custom({"MONZA4"}, {"accessPassword", "controlByte",
                                         "payload"}) ]

Mode(sub, names) == Numbered("IAV", "mode", sub, names)

(* The token is copied when the payload announces one and is 8 bytes long, *)
(* else isTokenDesc is cleared and the token is left alone.                *)
InitIAVA ==
  [ ActivateSecure  |-> Mode("00", {"payload"}),
    AuthenticateOBU |-> Mode("01", {"payload"}),
    Siniav          |-> Mode("02", {"payload", "isTokenDesc"}),
    SiniavToken     |-> Mode("02", {"payload", "isTokenDesc", "token"}),
    OBUAuthID       |-> Mode("03", {"payload"}),
    FullPass1       |-> Mode("04", {"payload"}),
    FullPass2       |-> Mode("05", {"payload"}),
    ReadMemMap      |-> Mode("06", {"payload", "readPtr"}) ]

InitIAVB ==
  [ WriteMemMap |-> Mode("07", {"payload", "writePtr", "wordData",
                                "tagIdentification", "dataBuf"}),
    WriteSec    |-> Mode("0B", {"payload", "dataWords", "dataBuf"}),
    FullPass    |-> Mode("08", {"payload"}),
    G0PAAuth    |-> Mode("0C", {"payload"}),
    GetTokenId  |-> Mode("09", {}),
    ReadSec     |-> Mode("0A", {"payload", "readPtr"}) ]

(* Seeded: the level of the password is not assigned. *)
CommandSeeded(sub, names) ==
  Numbered("SL900A", "CommandCode", sub, {"AccessPassword", "Password"} \cup names)

Command(sub, names) ==
  Numbered("SL900A", "CommandCode", sub,
           {"AccessPassword", "Password", "level"} \cup names)

InitIDSA ==
  [ GetCalibration |-> Command("A9", {}),
    SetPassword    |-> Command("A0", {"NewPasswordLevel", "NewPassword"}),
    SetCalibration |-> Command("A5", {"cal"}),
    SetSfe         |-> Command("A4", {"sfe"}),
    GetSensor      |-> Command("AD", {"sensortype"}),
    GetMeasurementSetup |-> Command("A3", {}) ]

(* Initialize composes delayTime and applicationData bit by bit on top of  *)
(* what the memory holds: only the timer's delay is cleared before.        *)
InitIDSB ==
  [ GetLogState |-> Command("A8", {}),
    SetLogMode  |-> Command("A1", {"dataLog", "rule", "Ext1Enable", "Ext2Enable",
                                   "TempEnable", "BattEnable", "LogInterval"}),
    EndLog      |-> Command("A6", {}),
    Initialize  |-> Command("AC", {}),
    InitializeTimer |-> Command("AC", {"delayTime"}) ]

InitIDSC ==
  [ FifoStatus |-> Command("AF", {"operation"}),
    FifoRead   |-> Command("AF", {"operation", "length"}),
    FifoWrite  |-> Command("AF", {"operation", "payLoad"}),
    StartLog   |-> Command("A7", {"startTime"}),
    GetBattery |-> Command("AA", {"batteryType"}) ]

InitIDSD ==
  [ SetLogLimits |-> Command("A2", {"extremeLower", "lower", "upper",
                                    "extremeUpper"}),
    SetShelfLife |-> Command("AB", {"shelfLifeBlock0", "shelfLifeBlock1"}) ]

InitIDS == InitIDSA ++ InitIDSB ++ InitIDSC ++ InitIDSD

InitChip == InitAlien ++ InitNXP ++ InitAES ++ InitNXPMonza

Filler == InitA ++ InitB ++ InitC ++ InitChip ++ InitIAVA ++ InitIAVB ++ InitIDS

-------------------------------------------------------------------------------
(* The functions that lay a command out (msgAdd.., cmd..).  A row has the  *)
(* opcode, the bytes before the selection of the tag (head), the arguments *)
(* by position (formals), the arguments in the order of the message (body) *)
(* and the offset at which the answer's data is taken (0: none is).        *)

Built(code, head, formals, body, answer) ==
  [code |-> code, head |-> head, formals |-> formals, body |-> body,
   answer |-> answer]

Specific(head, formals, body, answer) ==
  Built("WRITE_TAG_SPECIFIC", head, formals, body, answer)

BuildStandard ==
  [ WriteTag  |-> Built("WRITE_TAG_ID", <<>>, <<"epcptr">>, <<"epcptr">>, 0),
    ReadData  |-> Built("READ_TAG_DATA", <<"option">>,
                        <<"bank", "wordAddress", "len">>,
                        <<"bank", "wordAddress", "len">>, 0),
    SecureReadData |-> Built("READ_TAG_DATA", <<"type">>,
                        <<"bank", "wordAddress", "len", "type">>,
                        <<"bank", "wordAddress", "len">>, 0),
    WriteData |-> Built("WRITE_TAG_DATA", <<"option">>, <<"bank", "wordAddress", "data">>,
                        <<"wordAddress", "bank", "data">>, 0),
    Lock      |-> Built("LOCK_TAG", <<"option">>, <<"mask", "action", "accessPassword">>,
                        <<"accessPassword", "mask", "action">>, 0),
    Kill      |-> Built("KILL_TAG", <<"option">>, <<"password">>, <<"password">>, 0),
    BlockWrite |-> Specific(<<"00", "40", "00", "C7">>, <<"bank", "wordPtr", "data">>,
                            <<"bank", "wordPtr", "data">>, 0),
    BlockPermaLock |-> Built("ERASE_BLOCK_TAG_SPECIFIC", <<"00", "40", "01">>,
                             <<"readLock", "bank", "blockPtr", "mask">>,
                             <<"readLock", "bank", "blockPtr", "mask">>, 0),
    BlockErase |-> Built("ERASE_BLOCK_TAG_SPECIFIC", <<"00", "40", "00">>,
                         <<"wordPtr", "bank", "wordCount">>,
                         <<"wordPtr", "bank", "wordCount">>, 0) ]

BuildISO ==
  [ ISOReadData  |-> Built("READ_TAG_DATA", <<"01", "read">>, <<"byteAddress", "len">>,
                           <<"len", "byteAddress">>, 5),
    ISOWriteData |-> Built("WRITE_TAG_DATA", <<"option", "write">>,
                           <<"byteAddress", "data">>, <<"byteAddress", "data">>, 0),
    ISOLock      |-> Built("LOCK_TAG", <<"01", "lock">>, <<"address">>,
                           <<"address">>, 0) ]

BuildHiggs2 ==
  [ Higgs2PartialLoad |-> Specific(<<"ALIEN_HIGGS", "01">>,
                            <<"accessPassword", "killPassword", "epcptr">>,
                            <<"killPassword", "accessPassword", "epcptr">>, 0),
    Higgs2FullLoad    |-> Specific(<<"ALIEN_HIGGS", "03">>,
                            <<"accessPassword", "killPassword", "lockBits", "pcWord",
                              "epcptr">>,
                            <<"killPassword", "accessPassword", "lockBits", "pcWord",
                              "epcptr">>, 0) ]

BuildHiggs3 ==
  [ Higgs3FastLoad |-> Specific(<<"ALIEN_HIGGS3", "40", "00", "01">>,
                         <<"currentAccessPassword", "accessPassword", "killPassword",
                           "pcWord", "epcptr">>,
                         <<"currentAccessPassword", "killPassword", "accessPassword",
                           "pcWord", "epcptr">>, 0),
    Higgs3Load     |-> Specific(<<"ALIEN_HIGGS3", "40", "00", "03">>,
                         <<"currentAccessPassword", "accessPassword", "killPassword",
                           "pcWord", "epcAndUserData">>,
                         <<"currentAccessPassword", "killPassword", "accessPassword",
                           "pcWord", "epcAndUserData">>, 0),
    Higgs3BlockReadLock |-> Specific(<<"ALIEN_HIGGS3", "40", "00", "09">>,
                              <<"accessPassword", "lockBits">>,
                              <<"accessPassword", "lockBits">>, 0) ]

(* Commands whose message has the arguments in the order of the call.      *)
InOrder(head, arguments, answer) ==
  Specific(head, <<"chipType">> \o arguments, arguments, answer)

BuildNXPA ==
  [ SetReadProtect   |-> InOrder(<<"chipType", "40", "00", "01">>,
                                 <<"accessPassword">>, 0),
    ResetReadProtect |-> InOrder(<<"chipType", "40", "00", "02">>,
                                 <<"accessPassword">>, 0),
    ChangeEAS        |-> InOrder(<<"chipType", "40", "00", "03">>,
                                 <<"accessPassword", "reset">>, 0) ]

BuildNXPB ==
  [ EASAlarm  |-> InOrder(<<"chipType", "40", "00", "04">>,
                          <<"dr", "m", "trExt">>, 9),
    Calibrate |-> InOrder(<<"chipType", "40", "00", "05">>,
                          <<"accessPassword">>, 9) ]

BuildNXPC ==
  [ ChangeConfig |-> InOrder(<<"chipType", "40", "00", "07">>, <<"configWord">>, 9) ]

(* The operation is one argument, whose parts are laid out.                *)
BuildUntraceable ==
  LET head   == <<"chipType", "00", "subCommand">>
      config == <<"epc", "epcLength", "tid", "userMemory", "range">>
      Op(auth) == Specific(head, <<"chipType", "subCommand">> \o config \o <<auth>>,
                           config \o <<auth>>, 0)
  IN  [ UntraceableTam1   |-> Op("tam1Auth"),
        UntraceableAccess |-> Op("auth.accessPassword") ]

BuildAuthenticate ==
  LET head == <<"chipType", "00", "subCommand">>
      Op(parts) == Specific(head, <<"chipType", "subCommand">> \o parts, parts, 8)
  IN  [ AuthenticateTam1 |-> Op(<<"tam1Auth">>),
        AuthenticateTam2 |-> Op(<<"tam1Auth", "tam2Auth">>) ]

BuildReadBuffer ==
  LET head == <<"chipType", "00", "subCommand">>
      Op(parts) == Specific(head, <<"chipType", "subCommand">> \o parts, parts, 8)
  IN  [ ReadBufferTam1 |-> Op(<<"wordPointer", "bitCount", "tam1Auth">>),
        ReadBufferTam2 |-> Op(<<"wordPointer", "bitCount", "tam1Auth", "tam2Auth">>) ]

(* Seeded: the data is taken one byte too early. *)
BuildMonzaSeeded ==
  [ QTReadWrite |-> Specific(<<"MONZA4", "40", "00", "00">>,
                             <<"controlByte", "payload">>,
                             <<"controlByte", "payload">>, 8) ]

BuildMonza ==
  [ QTReadWrite |-> Specific(<<"MONZA4", "40", "00", "00">>,
                             <<"controlByte", "payload">>,
                             <<"controlByte", "payload">>, 9) ]

(* The level comes before the password in the message, after it in the     *)
(* call.                                                                   *)
IDSCommand(arguments, answer) ==
  Specific(<<"SL900A", "40", "00", "CommandCode">>,
           <<"CommandCode", "Password", "level">> \o arguments,
           <<"level", "Password">> \o arguments, answer)

BuildIDSA == [ GetBattery |-> IDSCommand(<<"batteryType">>, 9),
               GetSensor  |-> IDSCommand(<<"sensortype">>, 9) ]

BuildIDSB == [ GetMeasurementSetup |-> IDSCommand(<<>>, 9),
               GetLogState         |-> IDSCommand(<<>>, 9) ]

BuildIDSC ==
  LET delays == <<"delayTime", "applicationData">>
  IN  [ SetLogMode |-> IDSCommand(<<"dataLog", "rule", "Ext1Enable", "Ext2Enable",
                                    "TempEnable", "BattEnable", "LogInterval">>, 0),
        Initialize      |-> IDSCommand(delays, 0),
        InitializeTimer |-> IDSCommand(delays, 0) ]

BuildIDSD ==
  [ EndLog      |-> IDSCommand(<<>>, 0),
    SetPassword |-> Specific(<<"SL900A", "40", "00", "CommandCode">>,
                      <<"CommandCode", "Password", "level", "NewPassword",
                        "NewPasswordLevel">>,
                      <<"level", "Password", "NewPasswordLevel", "NewPassword">>, 0) ]

(* The operation and the length share a byte.                              *)
BuildIDSE == [ FifoStatus |-> IDSCommand(<<"operation">>, 9),
               FifoRead   |-> IDSCommand(<<"operation", "length">>, 9) ]

BuildIDSF == [ FifoWrite |-> IDSCommand(<<"operation", "payLoad">>, 9),
               StartLog  |-> IDSCommand(<<"startTime">>, 0) ]

BuildIDSG == [ GetCalibration |-> IDSCommand(<<>>, 9),
               SetCalibration |-> IDSCommand(<<"cal">>, 0) ]

BuildIDSH == [ SetSfe |-> IDSCommand(<<"sfe">>, 0),
               SetLogLimits |-> IDSCommand(<<"extremeLower", "lower", "upper",
                                             "extremeUpper">>, 0) ]

BuildIDSI == [ SetShelfLife |-> IDSCommand(<<"shelfLifeBlock0",
                                             "shelfLifeBlock1">>, 0) ]

IAVCommand(arguments) ==
  Specific(<<"IAV", "40", "00", "mode">>, <<"mode">> \o arguments, arguments, 9)

BuildIAVA ==
  [o \in IAVOps |-> IAVCommand(<<"payload">>)]
    ++ [ReadMemMap |-> IAVCommand(<<"payload", "readPtr">>)]

BuildIAVB ==
  [ ReadSec     |-> IAVCommand(<<"payload", "readPtr">>),
    Siniav      |-> Specific(<<"IAV", "40", "00", "mode">>,
                             <<"mode", "payload", "isTokenDesc", "token">>,
                             <<"payload">>, 9),
    SiniavToken |-> Specific(<<"IAV", "40", "00", "mode">>,
                             <<"mode", "payload", "isTokenDesc", "token">>,
                             <<"payload", "token">>, 9) ]

BuildIAVC ==
  [ WriteMemMap |-> IAVCommand(<<"payload", "writePtr", "wordData",
                                 "tagIdentification", "dataBuf">>) ]

BuildIAVD ==
  [ WriteSec   |-> IAVCommand(<<"payload", "dataWords", "dataBuf">>),
    GetTokenId |-> IAVCommand(<<>>) ]

BuildHiggs == BuildHiggs2 ++ BuildHiggs3

BuildNXP == BuildNXPA ++ BuildNXPB ++ BuildNXPC

BuildAES == BuildUntraceable ++ BuildAuthenticate ++ BuildReadBuffer

BuildIDS ==
  (BuildIDSA ++ BuildIDSB ++ BuildIDSC ++ BuildIDSD)
    ++ (BuildIDSE ++ BuildIDSF ++ BuildIDSG ++ BuildIDSH ++ BuildIDSI)

BuildIAV == BuildIAVA ++ BuildIAVB ++ BuildIAVC ++ BuildIAVD

Builder == BuildStandard ++ BuildISO ++ BuildHiggs ++ BuildNXP ++ BuildAES ++ BuildMonza
             ++ BuildIDS ++ BuildIAV

(* Where the function that a direct execution calls takes its arguments in *)
(* another order than the one that lays them out, which it calls in turn.  *)
DirectFormals(o) ==
  IF o = "BlockErase" THEN <<"bank", "wordPtr", "wordCount">> ELSE Builder[o].formals

-------------------------------------------------------------------------------
(* TMR_SR_executeTagOp: the actual arguments, by position, and the password*)
(* of the selection: the reader's setting, an argument of the operation or *)
(* none.  What is not here the reader does not execute.                    *)

Call(select, actuals) == [select |-> select, actuals |-> actuals]

ExecuteStandard ==
  [ WriteTag   |-> Call("setting", <<"epcptr">>),
    Kill       |-> Call("none", <<"password">>),
    Lock       |-> Call("none", <<"mask", "action", "accessPassword">>),
    WriteData  |-> Call("setting", <<"bank", "wordAddress", "data">>),
    ReadData   |-> Call("setting", <<"bank", "wordAddress", "len">>),
    BlockWrite |-> Call("setting", <<"bank", "wordPtr", "data">>),
    BlockPermaLock |-> Call("setting", <<"readLock", "bank", "blockPtr", "mask">>),
    BlockErase |-> Call("setting", <<"bank", "wordPtr", "wordCount">>) ]

ExecuteHiggs ==
  [ Higgs2PartialLoad |-> Call("none", <<"accessPassword", "killPassword", "epcptr">>),
    Higgs2FullLoad    |-> Call("none", <<"accessPassword", "killPassword", "lockBits",
                                         "pcWord", "epcptr">>),
    Higgs3FastLoad    |-> Call("none", <<"currentAccessPassword", "accessPassword",
                                         "killPassword", "pcWord", "epcptr">>),
    Higgs3Load        |-> Call("none", <<"currentAccessPassword", "accessPassword",
                                         "killPassword", "pcWord", "epcAndUserData">>),
    Higgs3BlockReadLock |-> Call("none", <<"accessPassword", "lockBits">>) ]

ExecuteNXP ==
  [ SetReadProtect   |-> Call("none", <<"chipType", "accessPassword">>),
    ResetReadProtect |-> Call("none", <<"chipType", "accessPassword">>),
    ChangeEAS        |-> Call("none", <<"chipType", "accessPassword", "reset">>),
    EASAlarm         |-> Call("none", <<"chipType", "dr", "m", "trExt">>),
    Calibrate        |-> Call("none", <<"chipType", "accessPassword">>),
    ChangeConfig     |-> Call("accessPassword", <<"chipType", "configWord">>) ]

(* The operation goes over as a whole; the setting is passed and not used. *)
ExecuteAES ==
  [o \in {"UntraceableTam1", "UntraceableAccess", "AuthenticateTam1",
          "AuthenticateTam2", "ReadBufferTam1", "ReadBufferTam2"} |->
     Call("none", Builder[o].formals)]

ExecuteMonza ==
  [ QTReadWrite |-> Call("accessPassword", <<"controlByte", "payload">>) ]

IDSCall(arguments) ==
  Call("AccessPassword", <<"CommandCode", "Password", "level">> \o arguments)

ExecuteIDSA ==
  [ GetSensor      |-> IDSCall(<<"sensortype">>),
    GetMeasurementSetup |-> IDSCall(<<>>),
    GetCalibration |-> IDSCall(<<>>),
    SetCalibration |-> IDSCall(<<"cal">>),
    SetSfe         |-> IDSCall(<<"sfe">>),
    GetLogState    |-> IDSCall(<<>>) ]

ExecuteIDSB ==
  LET delays == <<"delayTime", "applicationData">>
  IN  [ SetLogMode  |-> IDSCall(<<"dataLog", "rule", "Ext1Enable", "Ext2Enable",
                                  "TempEnable", "BattEnable", "LogInterval">>),
        Initialize      |-> IDSCall(delays),
        InitializeTimer |-> IDSCall(delays),
        EndLog      |-> IDSCall(<<>>),
        SetPassword |-> IDSCall(<<"NewPassword", "NewPasswordLevel">>),
        FifoStatus  |-> IDSCall(<<"operation">>),
        FifoRead    |-> IDSCall(<<"operation", "length">>) ]

ExecuteIDSC ==
  [ FifoWrite    |-> IDSCall(<<"operation", "payLoad">>),
    StartLog     |-> IDSCall(<<"startTime">>),
    GetBattery   |-> IDSCall(<<"batteryType">>),
    SetLogLimits |-> IDSCall(<<"extremeLower", "lower", "upper", "extremeUpper">>),
    SetShelfLife |-> IDSCall(<<"shelfLifeBlock0", "shelfLifeBlock1">>) ]

IAVCall(arguments) == Call("setting", <<"mode">> \o arguments)

ExecuteIAVA ==
  [o \in IAVOps |-> IAVCall(<<"payload">>)]
    ++ [o \in {"Siniav", "SiniavToken"} |->
          IAVCall(<<"payload", "isTokenDesc", "token">>)]
    ++ [ReadMemMap |-> IAVCall(<<"payload", "readPtr">>)]

ExecuteIAVB ==
  [ ReadSec     |-> IAVCall(<<"payload", "readPtr">>),
    WriteMemMap |-> IAVCall(<<"payload", "writePtr", "wordData",
                              "tagIdentification", "dataBuf">>),
    WriteSec    |-> IAVCall(<<"payload", "dataWords", "dataBuf">>),
    GetTokenId  |-> IAVCall(<<>>) ]

ExecuteISO ==
  [ ISOReadData  |-> Call("none", <<"byteAddress", "len">>),
    ISOWriteData |-> Call("none", <<"byteAddress", "data">>),
    ISOLock      |-> Call("none", <<"address">>) ]

ExecuteIDS == ExecuteIDSA ++ ExecuteIDSB ++ ExecuteIDSC

Execute == ExecuteStandard ++ ExecuteHiggs ++ ExecuteNXP ++ ExecuteAES ++ ExecuteMonza
             ++ ExecuteIDS ++ ExecuteIAVA ++ ExecuteIAVB ++ ExecuteISO

-------------------------------------------------------------------------------
(* TMR_SR_addTagOp: the same for an operation that a search carries out on *)
(* every tag it finds.  The password is the one of the search; the         *)
(* selection inside the command is empty.                                  *)

EmbedStandard ==
  [ WriteTag       |-> Call("setting", <<"epcptr">>),
    ReadData       |-> Call("setting", <<"bank", "wordAddress", "len">>),
    SecureReadData |-> Call("setting", <<"bank", "wordAddress", "len", "type">>),
    WriteData      |-> Call("setting", <<"bank", "wordAddress", "data">>),
    Lock           |-> Call("accessPassword", <<"mask", "action", "zero">>),
    Kill           |-> Call("setting", <<"password">>),
    BlockWrite     |-> Call("setting", <<"bank", "wordPtr", "data">>) ]

EmbedBlock ==
  [ BlockPermaLock |-> Call("setting", <<"readLock", "bank", "blockPtr", "mask">>),
    BlockErase     |-> Call("setting", <<"wordPtr", "bank", "wordCount">>) ]

EmbedHiggs ==
  [ Higgs2PartialLoad |-> Call("setting", <<"accessPassword", "killPassword", "epcptr">>),
    Higgs2FullLoad    |-> Call("setting", <<"accessPassword", "killPassword", "lockBits",
                                            "pcWord", "epcptr">>),
    Higgs3FastLoad    |-> Call("currentAccessPassword",
                               <<"currentAccessPassword", "accessPassword",
                                 "killPassword", "pcWord", "epcptr">>),
    Higgs3Load        |-> Call("currentAccessPassword",
                               <<"currentAccessPassword", "accessPassword",
                                 "killPassword", "pcWord", "epcAndUserData">>),
    Higgs3BlockReadLock |-> Call("accessPassword", <<"accessPassword", "lockBits">>) ]

(* ResetReadProtect and ChangeConfig are refused for the G2X.              *)
EmbedNXP ==
  [ SetReadProtect   |-> Call("accessPassword", <<"chipType", "accessPassword">>),
    ResetReadProtect |-> Call("accessPassword", <<"chipType", "accessPassword">>),
    ChangeEAS        |-> Call("accessPassword", <<"chipType", "accessPassword", "reset">>),
    Calibrate        |-> Call("accessPassword", <<"chipType", "accessPassword">>),
    ChangeConfig     |-> Call("accessPassword", <<"chipType", "configWord">>) ]

(* Seeded: control byte and payload are exchanged. *)
EmbedMonzaSeeded ==
  [ QTReadWrite |-> Call("accessPassword", <<"payload", "controlByte">>) ]

EmbedMonza ==
  [ QTReadWrite |-> Call("accessPassword", <<"controlByte", "payload">>) ]

EmbedIDSA ==
  [ GetSensor           |-> IDSCall(<<"sensortype">>),
    GetMeasurementSetup |-> IDSCall(<<>>),
    GetLogState         |-> IDSCall(<<>>) ]

EmbedIDSB ==
  LET delays == <<"delayTime", "applicationData">>
  IN  [ SetLogMode  |-> IDSCall(<<"dataLog", "rule", "Ext1Enable", "Ext2Enable",
                                  "TempEnable", "BattEnable", "LogInterval">>),
        Initialize      |-> IDSCall(delays),
        InitializeTimer |-> IDSCall(delays),
        EndLog      |-> IDSCall(<<>>),
        SetPassword |-> IDSCall(<<"NewPassword", "NewPasswordLevel">>),
        StartLog    |-> IDSCall(<<"startTime">>),
        FifoStatus  |-> IDSCall(<<"operation">>),
        FifoRead    |-> IDSCall(<<"operation", "length">>),
        FifoWrite   |-> IDSCall(<<"operation", "payLoad">>) ]

EmbedIDSC ==
  [ GetCalibration |-> IDSCall(<<>>),
    SetCalibration |-> IDSCall(<<"cal">>),
    SetSfe         |-> IDSCall(<<"sfe">>),
    GetBattery     |-> IDSCall(<<"batteryType">>),
    SetLogLimits   |-> IDSCall(<<"extremeLower", "lower", "upper", "extremeUpper">>) ]

EmbedIAV ==
  [o \in IAVOps |-> IAVCall(<<"payload">>)]
    ++ [o \in {"Siniav", "SiniavToken"} |->
          IAVCall(<<"payload", "isTokenDesc", "token">>)]
    ++ [o \in {"ReadMemMap", "ReadSec"} |-> IAVCall(<<"payload", "readPtr">>)]
    ++ [WriteMemMap |-> IAVCall(<<"payload", "writePtr", "wordData",
                                  "tagIdentification", "dataBuf">>)]
    ++ [WriteSec |-> IAVCall(<<"payload", "dataWords", "dataBuf">>)]
    ++ [GetTokenId |-> IAVCall(<<>>)]

EmbedIDS == EmbedIDSA ++ EmbedIDSB ++ EmbedIDSC

Embed == EmbedStandard ++ EmbedBlock ++ EmbedHiggs ++ EmbedNXP ++ EmbedMonza
           ++ EmbedIDS ++ EmbedIAV
=============================================================================
