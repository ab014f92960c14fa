---------------------------- MODULE ReaderSettings ----------------------------
(***************************************************************************)
(* Connection and parameters of a serial reader: TMR_SR_connect,           *)
(* TMR_SR_cmdProbeBaudRate, TMR_SR_boot, TMR_SR_paramSet, TMR_SR_paramGet, *)
(* user profiles, reboot, firmware load and TMR_SR_destroy, between a      *)
(* program that sets and gets one parameter (any one: key) and a module    *)
(* that may refuse a command, not answer, answer too late, be restarted or *)
(* stream tags on its own.                                                 *)
(*                                                                         *)
(* The parameters do not interact but for what boot, a change of protocol  *)
(* and a user profile do to all of them, so one at a time is enough.       *)
(***************************************************************************)
EXTENDS SettingTables

CONSTANTS
  TestedModels, \* bound: the modules that are tried
  ProbeRates,   \* the reader's list of baud rates to probe
  LinkKeys      \* bound: the parameters with which the module also streams,
                \* is on USB, is rebooted or loaded

ASSUME TestedModelsAssumption == TestedModels \subseteq Models

VARIABLES
  key,       \* the parameter
  model,     \* versionInfo.hardware[0]
  usb,       \* the module is on a USB port
  fields,    \* what the reader structure holds: baudRate and key's fields
  present, confirmed, \* key's bits
  connected, \* reader->connected
  stage,     \* "closed", "probing", "booting", "ready" or "failed": the port is
             \* open, but connect, a load or a reboot did not end ready
  step,      \* the next step of TMR_SR_boot
  retried,   \* whether boot is connect's first, its second, or a load's
  line,      \* the rate the port is set to
  crc,       \* crcEnabled
  transportType, \* "unknown" until boot asked for it
  module,    \* the module: rate, crc, whether it streams, runs its bootloader,
             \* will stream when restarted, its items and the saved ones
  last,      \* the last call: what, its value and status
  chosen,    \* the value set last, "none" when anything changed it since
  missed,    \* a get of key failed since the module was booted
  unclean    \* a stream did not end with its own answer, or the module was not
             \* told of the CRC: nothing is said of it any more

fixed == <<key, model, usb>>
bits == <<present, confirmed>>
wire == <<line, crc, transportType, unclean>>
stageVars == <<connected, stage, step, retried>>
ghosts == <<last, chosen, missed>>
settingVars == <<fixed, fields, bits, wire, stageVars, module, ghosts>>

Rates == {"r9600", "r115200", "r921600"}
ASSUME ProbeRatesAssumption == ProbeRates \subseteq Rates
FactoryRate == "r115200"

WriteItem == Set[key].item
ReadItem == Get[key].item
Items(k) == {Set[k].item, Get[k].item} \ {NoItem}
FieldsOf(k) == {"baudRate", Set[k].field, Get[k].field} \ {"none"}
Factory(k, m) == [i \in Items(k) |-> CHOOSE c \in DOMAIN Readings(i, m) : TRUE]
Idle == [call |-> "none", value |-> "none", status |-> "none"]

InitialField(f) ==
  CASE f = "baudRate" -> FactoryRate
    [] f = "regionId" -> "NONE"
    [] f = "powerMode" -> "INVALID"
    [] f \in {"enableReadFiltering"} -> "true"
    [] f \in {"extendedEPC", "isBapEnabled"} -> "false"
    [] f = "readFilterTimeout" -> "0"
    [] OTHER -> "initial"

(* TMR_SR_SerialReader_init; keys nothing can set are left out.            *)
SettingInit ==
  /\ key \in DOMAIN Set \cap DOMAIN Get
  /\ model \in TestedModels
  /\ usb \in BOOLEAN /\ (usb => model \in M6eClass /\ key \in LinkKeys)
  /\ fields = [f \in FieldsOf(key) |-> InitialField(f)]
  /\ present = FALSE /\ confirmed = FALSE /\ connected = FALSE
  /\ stage = "closed" /\ step = 1 /\ retried = "no"
  /\ line = FactoryRate /\ crc = TRUE
  /\ transportType = "unknown" /\ unclean = FALSE
  /\ module = [rate |-> FactoryRate, crc |-> TRUE, streams |-> FALSE,
               autoread |-> FALSE, program |-> "app",
               items |-> Factory(key, model),
               saved |-> [rate |-> FactoryRate, items |-> Factory(key, model)]]
  /\ last = Idle /\ chosen = "none" /\ missed = FALSE

-------------------------------------------------------------------------------
(* The line.                                                               *)

(* How a command may end: done, refused by the module, lost, or done with  *)
(* its answer lost; a streaming module interrupts it.                      *)
Outcomes ==
  CASE stage = "closed"    -> {"comm"}
    [] stage # "closed" /\ module.streams -> {"autoread"}
    [] stage # "closed" /\ ~module.streams /\ line # module.rate -> {"timeout"}
    [] stage = "failed" /\ line = module.rate /\ module.program = "bootloader" ->
         {"refused", "timeout"}
    [] OTHER -> {"ok", "refused", "timeout", "late"}

Arrived(o) == o \in {"ok", "late"}
Written1(item, code, o) ==
  IF Arrived(o) /\ item \in DOMAIN module.items
  THEN [module.items EXCEPT ![item] = code] ELSE module.items

(* verifySearchStatus: switches the CRC off, stops the stream and receives *)
(* until the stop is answered; on USB the module is told as well.  An      *)
(* answer with an error, and a timeout, leave the CRC off.                 *)
VerifySearchStatus(o) ==
  \E told \in BOOLEAN :
    LET off == transportType = "usb" /\ told
    IN  /\ crc' = (o = "ok" /\ ~off)
        /\ module' = [module EXCEPT !.streams = @ /\ o = "timeout",
                                    !.crc = @ /\ ~(o = "ok" /\ off)]
        /\ unclean' = (unclean \/ o # "ok" \/ (crc' /\ ~module.crc))
        /\ UNCHANGED <<line, transportType>>

-------------------------------------------------------------------------------
(* Connecting.                                                             *)

Connect ==
  /\ stage \in {"closed", "failed"}
  /\ stage' = "probing" /\ step' = 1 /\ retried' = "no"
  /\ chosen' = "none" /\ last' = Idle
  /\ UNCHANGED <<fixed, fields, bits, wire, connected, module, missed>>

GivesUp(status) ==
  /\ stage' = "failed"
  /\ last' = [call |-> "connect", value |-> "none", status |-> status]
  /\ UNCHANGED <<step, retried, connected>>

(* The set rate and those of the list are tried until one is answered.     *)
ProbeContact ==
  /\ stage = "probing" /\ ~module.streams
  /\ module.rate \in ProbeRates \cup {fields["baudRate"]}
  /\ line' = module.rate
  /\ connected' = TRUE
  /\ stage' = "booting"
  /\ UNCHANGED <<fixed, fields, bits, crc, transportType, unclean, step, retried,
                 module, ghosts>>

ProbeTimesOut ==
  /\ stage = "probing"
  /\ \E r \in ProbeRates \cup {fields["baudRate"]} : line' = r
  /\ GivesUp("timeout")
  /\ UNCHANGED <<fixed, fields, bits, crc, transportType, unclean, module, chosen, missed>>

(* Anything else that comes back, be it a refusal, is taken for a stream:  *)
(* TMR_ERROR_COMM(ret) makes a status of ret and is never zero.            *)
ProbeStopsStream ==
  /\ stage = "probing" /\ line = module.rate /\ key \in LinkKeys
  /\ \E o \in {"ok", "refused", "timeout"} :
       /\ VerifySearchStatus(o)
       /\ IF o = "timeout" THEN GivesUp("timeout") ELSE UNCHANGED <<stageVars, last>>
  /\ UNCHANGED <<fixed, fields, bits, chosen, missed>>

Steps == 11
Booting(n) == stage = "booting" /\ step = n /\ ~module.streams
(* Seeded: the next boot does not begin with the first step. *)
AdvanceSeeded ==
  /\ step' = step + 1
  /\ stage' = IF step = Steps THEN "ready" ELSE "booting"
  /\ last' = IF step = Steps
             THEN [call |-> "connect", value |-> "none", status |-> "ok"] ELSE last
  /\ UNCHANGED <<fixed, connected, retried, unclean, chosen>>

Advance ==
  /\ step' = IF step = Steps THEN 1 ELSE step + 1
  /\ stage' = IF step = Steps THEN "ready" ELSE "booting"
  /\ last' = IF step = Steps
             THEN [call |-> "connect", value |-> "none", status |-> "ok"] ELSE last
  /\ UNCHANGED <<fixed, connected, retried, unclean, chosen>>

SetField(f, v) == IF f \in DOMAIN fields THEN [fields EXCEPT ![f] = v] ELSE fields
Holds(item) == item \in DOMAIN module.items
Reading(item) == Readings(item, model)[module.items[item]]

(* TMR_SR_cmdGetCurrentProgram, TMR_SR_cmdBootFirmware.                    *)
BootProgram ==
  /\ Booting(1)
  /\ module' = [module EXCEPT !.program = "app",
                             !.streams = module.program = "bootloader" /\ module.autoread]
  /\ Advance /\ UNCHANGED <<fields, bits, line, crc, transportType, missed>>

(* The power mode is asked for unless the reader structure has one.        *)
BootPowerMode ==
  /\ Booting(2)
  /\ fields' = IF "powerMode" \in DOMAIN fields /\ fields["powerMode"] = "INVALID"
               THEN SetField("powerMode", Reading(Read.PowerMode)) ELSE fields
  /\ Advance /\ UNCHANGED <<bits, line, crc, transportType, module, missed>>

(* Seeded: the module's answer is not looked at. *)
BootTransportSeeded ==
  /\ Booting(3)
  /\ \E o \in {"ok", "refused"} :
       /\ crc' = (crc /\ ~usb)
       /\ module' = IF usb /\ o = "ok" THEN [module EXCEPT !.crc = FALSE] ELSE module
  /\ transportType' = IF model \in M6eClass
                      THEN (IF usb THEN "usb" ELSE "serial") ELSE transportType
  /\ Advance /\ UNCHANGED <<fields, bits, line, missed>>

(* The CRC is switched off on USB, if the module agrees.                   *)
BootTransport ==
  /\ Booting(3)
  /\ \E o \in {"ok", "refused"} :
       /\ crc' = IF usb /\ o = "ok" THEN FALSE ELSE crc
       /\ module' = IF usb /\ o = "ok" THEN [module EXCEPT !.crc = FALSE] ELSE module
  /\ transportType' = IF model \in M6eClass
                      THEN (IF usb THEN "usb" ELSE "serial") ELSE transportType
  /\ Advance /\ UNCHANGED <<fields, bits, line, missed>>

(* Seeded: the port stays at the rate that was probed. *)
BootBaudRateSeeded ==
  /\ Booting(4)
  /\ module' = [module EXCEPT !.rate = fields["baudRate"]]
  /\ Advance /\ UNCHANGED <<fields, bits, wire, missed>>

BootBaudRate ==
  /\ Booting(4)
  /\ module' = [module EXCEPT !.rate = fields["baudRate"]]
  /\ line' = fields["baudRate"]
  /\ Advance /\ UNCHANGED <<fields, bits, crc, transportType, missed>>

BootParameters ==
  /\ Booting(5)
  /\ present' = (key \in Present \/ (model \in M6eClass /\ key \in PresentM6e))
  /\ confirmed' = present'
  /\ missed' = FALSE
  /\ Advance /\ UNCHANGED <<fields, line, crc, transportType, module>>

(* A ruggedized reader (product 1) switches antennas with pin 1.           *)
BootProduct ==
  /\ Booting(6)
  /\ \E ruggedized \in BOOLEAN :
       module' = IF ruggedized
                 THEN [module EXCEPT !.items = Written1(Config("ANTENNA_CONTROL_GPIO"), "1", "ok")]
                 ELSE module
  /\ Advance /\ UNCHANGED <<fields, bits, line, crc, transportType, missed>>

BootRegion ==
  /\ Booting(7)
  /\ module' = IF "regionId" \in DOMAIN fields /\ fields["regionId"] # "NONE"
               THEN [module EXCEPT !.items = Written1(Written.Region,
                     Codes(Written.Region, model)[fields["regionId"]], "ok")]
               ELSE module
  /\ Advance /\ UNCHANGED <<fields, bits, line, crc, transportType, missed>>

BootProtocol ==
  /\ Booting(8)
  /\ fields' = IF Holds(Written.Protocol)
               THEN SetField("protocol", Reading(Written.Protocol)) ELSE fields
  /\ Advance /\ UNCHANGED <<bits, line, crc, transportType, module, missed>>

(* initTxRxMapFromPorts, whose result boot ignores.                        *)
BootAntennas ==
  /\ Booting(9)
  /\ \E o \in {"ok", "refused", "timeout"} :
       fields' = SetField("antenna", IF o = "ok" THEN "detected" ELSE "0")
  /\ Advance /\ UNCHANGED <<bits, line, crc, transportType, module, missed>>

(* An M5e is made to send extended EPCs and RSSI in dBm.                   *)
BootM5e ==
  /\ Booting(10)
  /\ IF model = "M5e"
     THEN /\ fields' = SetField("extendedEPC", "true")
          /\ module' = [module EXCEPT !.items =
               [i \in DOMAIN @ |-> IF i \in {Config("EXTENDED_EPC"), Config("RSSI_IN_DBM")}
                                   THEN "1" ELSE @[i]]]
     ELSE UNCHANGED <<fields, module>>
  /\ Advance /\ UNCHANGED <<bits, line, crc, transportType, missed>>

(* An M6e is asked for its filter.                                         *)
BootFilter ==
  /\ Booting(11)
  /\ fields' =
       CASE model \in M6eClass /\ key = "TAGREADDATA_ENABLEREADFILTER" ->
              SetField("enableReadFiltering", Reading(WriteItem))
         [] model \in M6eClass /\ key = "TAGREADDATA_READFILTERTIMEOUT" ->
              SetField("readFilterTimeout",
                       IF module.items[WriteItem] = "0" THEN "-1" ELSE module.items[WriteItem])
         [] OTHER -> fields
  /\ Advance /\ UNCHANGED <<bits, line, crc, transportType, module, missed>>

(* A step of boot that is refused, or lost, ends it; the port stays open   *)
(* and the reader connected.                                               *)
BootFails ==
  /\ stage = "booting" /\ ~module.streams
  /\ step \notin {5, 9}
  /\ \E o \in {"refused", "timeout"} : GivesUp(o)
  /\ UNCHANGED <<fixed, fields, bits, wire, module, chosen, missed>>

(* A module that streams on its own is stopped and booted once more; after *)
(* a firmware load it is reported.                                         *)
BootInterrupted ==
  /\ stage = "booting" /\ module.streams
  /\ IF retried = "load"
     THEN /\ GivesUp("FIRMWARE_UPDATE_ON_AUTOREAD")
          /\ UNCHANGED <<wire, module>>
     ELSE \E o \in {"ok", "refused", "timeout"} :
            /\ VerifySearchStatus(o)
            /\ IF o = "timeout" \/ retried = "yes"
               THEN GivesUp("autoread")
               ELSE /\ step' = 1 /\ retried' = "yes"
                    /\ UNCHANGED <<connected, stage, last>>
  /\ UNCHANGED <<fixed, fields, bits, chosen, missed>>

-------------------------------------------------------------------------------
(* Parameters.                                                             *)

Result(status, value, fs) == [status |-> status, value |-> value, fields |-> fs]
Into(fs, f, v) == IF f \in DOMAIN fs THEN [fs EXCEPT ![f] = v] ELSE fs

(* What TMR_SR_paramGet may answer.                                        *)
GetResults(fs) ==
  LET row == Get[key]
      Kept == Result("ok", fs[row.field], fs)
      Asked(o) == IF o = "ok" THEN Result("ok", Reading(row.item), fs)
                              ELSE Result(o, "none", fs)
      AskedKept(o) == IF o = "ok"
                      THEN Result("ok", Reading(row.item), Into(fs, row.field, Reading(row.item)))
                      ELSE Result(o, "none", fs)
  IN  IF model \notin row.models THEN {Result(row.elsewhere, "none", fs)} ELSE
      CASE row.how = "keep" -> {Kept}
        [] row.how = "shorten" -> {Kept, Result("ok", "short", Into(fs, row.field, "short"))}
        [] row.how = "ask" -> {Asked(o) : o \in Outcomes}
        [] row.how = "ask keep" -> {AskedKept(o) : o \in Outcomes}
        [] row.how = "ask keep connected" ->
             IF connected THEN {AskedKept(o) : o \in Outcomes} ELSE {Kept}
        [] row.how = "ask if none" ->
             IF fs[row.field] = "NONE" /\ connected
             THEN {AskedKept(o) : o \in Outcomes} ELSE {Kept}
        [] row.how = "ask or false" ->
             {IF o = "refused" THEN Result("ok", "false", fs) ELSE Asked(o) : o \in Outcomes}

(* Seeded: that the parameter is present is not noted. *)
SettledSeeded(r) == present

(* The bits are settled by the first get, whether or not it succeeds; the  *)
(* times and the read plan never come here.                                *)
Settled(r) == present \/ r.status \in {"ok", "autoread"}
Remembers == key \notin DOMAIN GetTimes

NotFound == Remembers /\ confirmed /\ ~present

ParamGet ==
  /\ stage \in {"closed", "ready"}
  /\ IF NotFound
     THEN /\ last' = [call |-> "get", value |-> "none", status |-> "NOT_FOUND"]
          /\ UNCHANGED <<fields, bits, missed>>
     ELSE \E r \in GetResults(fields) :
            /\ last' = [call |-> "get", value |-> r.value, status |-> r.status]
            /\ fields' = r.fields
            /\ missed' = (missed \/ r.status # "ok")
            /\ present' = IF Remembers /\ ~confirmed THEN Settled(r) ELSE present
            /\ confirmed' = (confirmed \/ Remembers)
  /\ UNCHANGED <<fixed, wire, stageVars, module, chosen>>

(* The values to try: every one the code tells apart, and one it refuses.  *)
Values ==
  (IF Set[key].how = "rate" THEN Rates
   ELSE IF Set[key].how = "bap" THEN {"a", "b", "default", "null"}
   ELSE IF WriteItem = NoItem THEN {"a", "b"}
   ELSE DOMAIN Codes(WriteItem, model))
  \cup (IF Set[key].checked THEN {"illegal"} ELSE {})

Kept(v) == IF key = "TAGREADDATA_READFILTERTIMEOUT" /\ v = "-1" THEN "0" ELSE v

Change(status, fs, items) == [status |-> status, fields |-> fs, items |-> items]

(* What TMR_SR_paramSet may do with a legal value.                         *)
Accepted(v, fs) ==
  LET row == Set[key]
      InField == Into(fs, row.field, Kept(v))
      Sent(o) == Written1(row.item, Codes(row.item, model)[v], o)
      Plainly(status) == Change(status, fs, module.items)
      Sending(f) == {Change(o, f, Sent(o)) : o \in Outcomes}
      SendingKeeping == {Change(o, IF o = "ok" THEN InField ELSE fs, Sent(o)) : o \in Outcomes}
      Failed == {Plainly(o) : o \in Outcomes \ {"ok"}}
  IN  IF model \notin row.models THEN {Plainly(row.elsewhere)} ELSE
      CASE row.how = "READONLY" -> {Plainly("READONLY")}
        [] row.how = "keep" -> {Change("ok", InField, module.items)}
        [] row.how = "send" -> Sending(fs)
        [] row.how = "send keep" -> SendingKeeping
        [] row.how = "keep send" -> Sending(InField)
        [] row.how = "send keep connected" ->
             IF connected THEN SendingKeeping ELSE {Change("ok", InField, module.items)}
        [] row.how = "keep send connected" ->
             IF connected THEN Sending(InField) ELSE {Change("ok", InField, module.items)}
        [] row.how = "keep send map" ->
             Sending(InField) \cup
               {Change(o, InField, Sent("ok")) : o \in IF "ok" \in Outcomes
                                                       THEN Outcomes \ {"ok"} ELSE {}}
        [] row.how = "merge" /\ v = "unlisted" -> {Plainly(o) : o \in Outcomes}
        [] row.how = "merge" /\ v # "unlisted" -> Failed \cup Sending(fs)
        [] row.how = "pins" ->
             Sending(fs) \cup {Change("refused", fs, Sent("ok")) : o \in Outcomes \cap {"ok"}}
        [] row.how = "lbt" ->
             Failed \cup Sending(fs)
               \cup {Change("refused", fs, Sent("ok")) : o \in Outcomes \cap {"ok"}}
        [] row.how = "bap" ->
             CASE v = "null" -> {Change("ok", Into(fs, row.field, "false"), module.items)}
               [] v = "default" -> {Change("ok", Into(fs, row.field, "true"), module.items)}
               [] OTHER -> Failed \cup Sending(Into(fs, row.field, "true"))
        [] row.how = "reset" -> {Plainly(o) : o \in Outcomes}

(* What TMR_SR_paramSet may do with any value.  A parameter whose bits are *)
(* not settled is got first.                                               *)
SetResults(v) ==
  UNION {LET probed == Remembers /\ ~confirmed
             fs == IF probed THEN probe.fields ELSE fields
             known == IF probed THEN Settled(probe) ELSE present \/ ~Remembers
         IN  {[change |-> c,
               present |-> IF probed THEN known ELSE present,
               confirmed |-> confirmed \/ probed,
               missed |-> missed \/ (probed /\ probe.status # "ok")] :
                c \in IF ~known THEN {Change("NOT_FOUND", fs, module.items)}
                      ELSE IF v = "illegal" THEN {Change("ILLEGAL_VALUE", fs, module.items)}
                      ELSE Accepted(v, fs)} :
         probe \in GetResults(fields)}

SetTo(v, r) ==
  /\ last' = [call |-> "set", value |-> v, status |-> r.change.status]
  /\ fields' = r.change.fields
  /\ module' = [module EXCEPT !.items = r.change.items]
  /\ chosen' = IF r.change.status = "ok" /\ Set[key].how # "reset"
                    /\ v \in Values \ {"null", "default"} THEN v ELSE "none"
  /\ present' = r.present /\ confirmed' = r.confirmed /\ missed' = r.missed

ParamSet ==
  /\ stage \in {"closed", "ready"} /\ Set[key].how # "rate"
  /\ \E v \in Values : \E r \in SetResults(v) : SetTo(v, r)
  /\ UNCHANGED <<fixed, wire, stageVars>>

(* The baud rate: the module changes first, the port after it, unchecked.  *)
SetBaudRate ==
  /\ stage \in {"closed", "ready"} /\ Set[key].how = "rate"
  /\ \E v \in Rates : \E o \in IF connected THEN Outcomes ELSE {"ok"} :
       /\ last' = [call |-> "set", value |-> v, status |-> o]
       /\ fields' = IF o = "ok" THEN [fields EXCEPT !["baudRate"] = v] ELSE fields
       /\ module' = IF connected /\ Arrived(o) THEN [module EXCEPT !.rate = v] ELSE module
       /\ line' = IF connected /\ o = "ok" THEN v ELSE line
       /\ chosen' = IF o = "ok" THEN v ELSE "none"
       /\ present' = (present \/ ~confirmed) /\ confirmed' = TRUE
  /\ UNCHANGED <<fixed, crc, transportType, unclean, stageVars, missed>>

(* Seeded: only the length of EPCs is sent again. *)
SentAgainSeeded == WriteItem = Config("EXTENDED_EPC") /\ fields["extendedEPC"] = "true"

(* What setProtocol sends again after the protocol changed.                *)
SentAgain ==
  WriteItem = Config("EXTENDED_EPC") => fields["extendedEPC"] = "true"

(* setProtocol, for a search or a tag operation in the other protocol: the *)
(* module drops its filter and the length of EPCs, which are sent again.   *)
ChangeProtocol ==
  LET Fallen == [i \in DOMAIN module.items |->
                   CASE i = Config("EXTENDED_EPC") -> "0"
                     [] i = Config("ENABLE_READ_FILTER") -> "1"
                     [] i = Config("READ_FILTER_TIMEOUT") -> "0"
                     [] OTHER -> module.items[i]]
      Resent == IF SentAgain
                THEN [Fallen EXCEPT ![WriteItem] = Codes(WriteItem, model)[fields[Set[key].field]]]
                ELSE Fallen
  IN  /\ stage = "ready" /\ "ok" \in Outcomes
      /\ Set[key].how = "send keep"
      /\ \/ /\ module' = [module EXCEPT !.items = Resent]
            /\ fields' = IF key = "TAGREADDATA_READFILTERTIMEOUT" /\ fields["readFilterTimeout"] = "-1"
                         THEN [fields EXCEPT !["readFilterTimeout"] = "0"] ELSE fields
            /\ UNCHANGED chosen
         \/ /\ module' = [module EXCEPT !.items = Fallen]
            /\ chosen' = "none"
            /\ UNCHANGED fields
      /\ last' = [call |-> "protocol", value |-> "none", status |-> "ok"]
      /\ UNCHANGED <<fixed, bits, wire, stageVars, missed>>

-------------------------------------------------------------------------------
(* User profiles, firmware, the end.                                       *)

ProfileDone(what) == last' = [call |-> what, value |-> "none", status |-> "ok"]

(* TMR_SR_cmdSetUserProfile: SAVE, and SAVE_WITH_READPLAN, which prepares  *)
(* a continuous search: that turns the module's filter off, unnoted.       *)
SaveProfile ==
  /\ stage = "ready" /\ model \in M6eClass /\ "ok" \in Outcomes
  /\ \/ /\ module' = [module EXCEPT !.saved = [rate |-> module.rate, items |-> module.items]]
        /\ UNCHANGED chosen
     \/ LET items == Written1(Config("ENABLE_READ_FILTER"), "0", "ok")
        IN  /\ \E auto \in {FALSE, (key \in LinkKeys)} :
                 module' = [module EXCEPT !.items = items, !.autoread = auto,
                              !.saved = [rate |-> module.rate, items |-> items]]
            /\ chosen' = IF Holds(Config("ENABLE_READ_FILTER")) THEN "none" ELSE chosen
  /\ ProfileDone("save")
  /\ UNCHANGED <<fixed, fields, bits, wire, stageVars, missed>>

(* RESTORE and CLEAR: the rate is probed again, the region and the         *)
(* protocol are asked for; either may fail.                                *)
RestoreProfile ==
  /\ stage = "ready" /\ model \in M6eClass /\ "ok" \in Outcomes
  /\ \E clear \in BOOLEAN :
       LET factory == [rate |-> FactoryRate, items |-> Factory(key, model)]
           to == IF clear THEN factory ELSE module.saved
           now == [module EXCEPT !.items = to.items, !.rate = to.rate,
                                 !.autoread = @ /\ ~clear]
           Now(item) == Readings(item, model)[to.items[item]]
       IN  /\ module' = now
           /\ \/ /\ to.rate \in ProbeRates \cup {fields["baudRate"]}
                 /\ line' = to.rate
                 /\ fields' = CASE key = "REGION_ID" -> SetField("regionId", Now(Read.Region))
                                [] key = "TAGOP_PROTOCOL" ->
                                     SetField("protocol", Now(Written.Protocol))
                                [] OTHER -> fields
                 /\ ProfileDone("restore")
                 /\ UNCHANGED stageVars
              \/ /\ \E r \in Rates : line' = r
                 /\ last' = [call |-> "restore", value |-> "none", status |-> "timeout"]
                 /\ stage' = "failed"
                 /\ UNCHANGED <<fields, connected, step, retried>>
  /\ chosen' = "none"
  /\ UNCHANGED <<fixed, bits, crc, transportType, unclean, missed>>

Slow(rate) == IF rate = "r921600" THEN FactoryRate ELSE rate

(* TMR_SR_firmwareLoad: to 9600 baud, into the bootloader, up to 115200 at *)
(* most, erase, write, boot.  It ends after n of these, or boots.          *)
FirmwareLoad ==
  /\ stage = "ready" /\ ~module.streams /\ key \in LinkKeys
  /\ \E n \in 0..5 :
       LET rate == CASE n = 0      -> module.rate
                     [] n \in 1..2 -> "r9600"
                     [] n \in 3..5 -> Slow(fields["baudRate"])
       IN  /\ module' = [module EXCEPT !.rate = rate,
                                       !.program = IF n >= 2 THEN "bootloader" ELSE @,
                                       !.crc = @ \/ n >= 2]
           /\ line' = rate
           /\ crc' = (crc \/ n >= 1)
           /\ unclean' = (unclean \/ (n = 1 /\ ~module.crc))
           /\ IF n = 5 THEN stage' = "booting" /\ retried' = "load"
                       ELSE stage' = "failed" /\ UNCHANGED retried
           /\ last' = [call |-> "load", value |-> "none",
                       status |-> IF n = 5 THEN "none" ELSE "refused"]
  /\ step' = 1 /\ chosen' = "none"
  /\ UNCHANGED <<fixed, fields, bits, transportType, connected, missed>>

(* TMR_SR_cmdrebootReader leaves the module in its bootloader at 9600.     *)
Reboot ==
  /\ stage = "ready" /\ "ok" \in Outcomes /\ key \in LinkKeys
  /\ module' = [module EXCEPT !.rate = "r9600", !.program = "bootloader", !.crc = TRUE]
  /\ line' = "r9600" /\ crc' = TRUE
  /\ stage' = "failed" /\ chosen' = "none"
  /\ last' = [call |-> "reboot", value |-> "none", status |-> "ok"]
  /\ UNCHANGED <<fixed, fields, bits, transportType, unclean, connected, step,
                 retried, missed>>

(* The module loses its power while no program is connected.               *)
RestartModule ==
  /\ stage = "closed"
  /\ \E items \in {Factory(key, model), module.saved.items} :
       module' = [module EXCEPT !.rate = FactoryRate, !.crc = TRUE, !.program = "app",
                                !.streams = module.autoread, !.items = items]
  /\ chosen' = "none" /\ last' = Idle
  /\ UNCHANGED <<fixed, fields, bits, wire, stageVars, missed>>

(* TMR_SR_destroy gives the CRC back to the module.                        *)
Destroy ==
  /\ stage \in {"ready", "failed"}
  /\ crc' = TRUE
  /\ \E o \in Outcomes :
       module' = IF ~crc /\ Arrived(o) THEN [module EXCEPT !.crc = TRUE] ELSE module
  /\ connected' = FALSE
  /\ stage' = "closed" /\ step' = 1
  /\ chosen' = "none"
  /\ last' = [call |-> "destroy", value |-> "none", status |-> "ok"]
  /\ unclean' = (unclean \/ ~module'.crc)
  /\ UNCHANGED <<fixed, fields, bits, line, transportType, retried, missed>>

SettingNext ==
  \/ Connect
  \/ ProbeContact
  \/ ProbeTimesOut
  \/ ProbeStopsStream
  \/ BootProgram
  \/ BootPowerMode
  \/ BootTransport
  \/ BootBaudRate
  \/ BootParameters
  \/ BootProduct
  \/ BootRegion
  \/ BootProtocol
  \/ BootAntennas
  \/ BootM5e
  \/ BootFilter
  \/ BootFails
  \/ BootInterrupted
  \/ ParamGet
  \/ ParamSet
  \/ SetBaudRate
  \/ ChangeProtocol
  \/ SaveProfile
  \/ RestoreProfile
  \/ FirmwareLoad
  \/ Reboot
  \/ RestartModule
  \/ Destroy

SettingSpec == SettingInit /\ [][SettingNext]_settingVars
-------------------------------------------------------------------------------
(* Properties.                                                             *)

(* Stages, rates and the module's items stay in their types; the port is   *)
(* never set to a rate the code does not know.                             *)
SettingTypeOK ==
  /\ key \in Keys /\ model \in Models /\ usb \in BOOLEAN
  /\ stage \in {"closed", "probing", "booting", "ready", "failed"}
  /\ step \in 1..Steps
  /\ retried \in {"no", "yes", "load"}
  /\ {present, confirmed, connected, crc, unclean, missed} \subseteq BOOLEAN
  /\ line \in Rates /\ module.rate \in Rates /\ fields["baudRate"] \in Rates
  /\ DOMAIN module.items = Items(key)

(* What a get that succeeds would return.                                  *)
Seen ==
  LET row == Get[key]
  IN  CASE model \notin row.models -> row.elsewhere
        [] model \in row.models /\
             (\/ row.how \in {"keep", "shorten"}
              \/ row.how = "ask keep connected" /\ ~connected
              \/ row.how = "ask if none" /\ (fields[row.field] # "NONE" \/ ~connected)) ->
             fields[row.field]
        [] OTHER -> Reading(row.item)

(* A value that does not come back as it was set: two codes for a link     *)
(* frequency, pin 3 reported with any other, the default time of the       *)
(* filter, and ports whose power or time is zero (or lowest).              *)
Lossy ==
  \/ key \in {"GEN2_BLF", "ANTENNA_PORTSWITCHGPOS"}
  \/ key = "TAGREADDATA_READFILTERTIMEOUT" /\ chosen = "-1"
  \/ WriteItem[1] = "ANTENNA_PORT 4" /\ chosen # "a"

(* The two switches of paramSet and paramGet agree, with the encodings     *)
(* behind them: what a program set last is what it gets.  A short list to  *)
(* get the probe rates into cuts the reader's own, and a module that does  *)
(* not tell about listen-before-talk has none.                             *)
SetThenGet ==
  last.call = "get" /\ last.status = "ok" /\ chosen # "none" /\ ~Lossy =>
    \/ last.value = chosen
    \/ key = "PROBEBAUDRATES" /\ last.value = "short"
    \/ key = "REGION_LBT_ENABLE" /\ last.value = "false"

(* A setting that is answered from the reader structure is also the        *)
(* module's, as long as nothing failed since it was set: a change of       *)
(* protocol, which resets some of them, sends them again.                  *)
ModuleHoldsSetting ==
  stage = "ready" /\ chosen # "none" /\ WriteItem # NoItem =>
    module.items[WriteItem] = Codes(WriteItem, model)[chosen]

(* A value that the module refuses is not taken over: what a get returns   *)
(* stays.  The region, the tag operations' antenna and protocol are kept   *)
(* before the module is asked; pins change one by one, and listen-before-  *)
(* talk before the hop table is put back.                                  *)
RefusedKeepsValue ==
  [][last'.call = "set" /\ last'.status \in {"refused", "READONLY", "UNSUPPORTED",
                                             "ILLEGAL_VALUE", "NOT_FOUND"}
       /\ key \notin {"REGION_ID", "TAGOP_ANTENNA", "TAGOP_PROTOCOL", "GPIO_INPUTLIST",
                      "GPIO_OUTPUTLIST", "REGION_LBT_ENABLE", "PROBEBAUDRATES",
                      "ANTENNA_PORTSWITCHGPOS"}
     => Seen' = Seen]_settingVars

(* A parameter this module has is not reported as missing, unless a get of *)
(* it failed: the bits remember that until the next boot.                  *)
KnownParameter ==
  last.status = "NOT_FOUND" /\ model \in Get[key].models /\ model \in Set[key].models =>
    missed

(* Once booted, host and module talk at the rate that was set, and the     *)
(* region set before connecting is the module's.                           *)
BootCarriesSettings ==
  [][stage = "booting" /\ stage' = "ready" =>
       /\ line' = fields'["baudRate"] /\ module'.rate = line'
       /\ key = "REGION_ID" /\ fields'["regionId"] # "NONE" =>
            module'.items[Written.Region] = Codes(Written.Region, model)[fields'["regionId"]]]_settingVars

(* Host and module agree whether messages carry a CRC, as long as every    *)
(* stream was stopped with its own answer.                                 *)
CrcAgreed ==
  stage \in {"ready", "closed"} /\ ~unclean => crc = module.crc
=============================================================================
