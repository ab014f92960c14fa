-------------------------- MODULE SavedConfiguration --------------------------
(***************************************************************************)
(* TMR_saveConfig and TMR_loadConfig over the parameters of a serial       *)
(* reader.  A save gets every parameter that can be written and prints it; *)
(* a load saves the reader's configuration to a second file, sets the      *)
(* parameters line by line and, when one is refused, loads the second file *)
(* to roll back.  Of all parameters key is followed as in ReaderSettings,  *)
(* every other is one line, "other", which any reader may refuse.          *)
(***************************************************************************)
EXTENDS ReaderSettings, ConfigText

CONSTANTS
  MaxParameters, \* CONFIG_MAX_PARAMETERS_LEN (bound)
  LoadModels     \* bound: the modules with which configurations are tried

VARIABLES
  file, \* the lines of the file the program saved last
  load  \* the load under way: its phase, the lines left, those left when the
        \* roll back began, the backup, the last status; and, for the
        \* properties, what a get returned before it, the text set last and
        \* whether anything went wrong on the way

configVars == <<file, load>>
savedVars == <<settingVars, configVars>>

NoLoad == [phase |-> "none", todo |-> <<>>, rest |-> <<>>, backup |-> <<>>, ret |-> "ok",
           before |-> "none", done |-> Unreadable, trouble |-> FALSE]

Line(about, text) == [about |-> about, text |-> text]
KeyLine(text) == Line("key", text)
Other == Line("other", Unreadable)
Application == Line("application", Unreadable)
Comment == Line("comment", Unreadable)

SavedInit == SettingInit /\ file = <<>> /\ load = NoLoad

(* TMR_saveConfig: the bits of a parameter are settled first, one that is  *)
(* not present, or whose get fails, is left out.  Lists are got into 64    *)
(* entries, enough for any.                                                *)
SaveResults ==
  LET Saved(p, known) ==
        [fields |-> p.fields, present |-> known, confirmed |-> TRUE,
         missed |-> missed \/ p.status # "ok", lines |-> <<Other>>]
      Got(s) ==
        IF key \in NotSaved \/ (Remembers /\ ~s.present) THEN {s}
        ELSE {[s EXCEPT !.fields = g.fields, !.missed = @ \/ g.status # "ok",
                        !.lines = IF g.status = "ok"
                                  THEN <<KeyLine(Text(key, g.value)), Other>> ELSE @] :
                g \in {r \in GetResults(s.fields) : r.value # "short" \/ s.fields = r.fields}}
      Listed ==
        IF Remembers /\ ~confirmed
        THEN {Saved(p, Settled(p)) : p \in GetResults(fields)}
        ELSE {[Saved(Result("ok", "none", fields), present) EXCEPT !.confirmed = confirmed]}
  IN  UNION {Got(s) : s \in Listed}

HasKeyLine(lines) == \E i \in DOMAIN lines : lines[i].about = "key"

TakeOver(s) ==
  /\ fields' = s.fields /\ present' = s.present
  /\ confirmed' = s.confirmed /\ missed' = s.missed

(* Bound: configurations are saved and loaded after a connect or a set     *)
(* that went well, by a program that has not saved a profile.              *)
Tried ==
  /\ stage = "ready" /\ load.phase = "none" /\ model \in LoadModels /\ ~usb
  /\ last.call \in {"connect", "set", "saveConfig"} /\ last.status = "ok"
  /\ module.saved.items = Factory(key, model)

SaveConfig ==
  /\ Tried
  /\ \E s \in SaveResults : file' = s.lines /\ TakeOver(s)
  /\ last' = [call |-> "saveConfig", value |-> "none", status |-> "ok"]
  /\ UNCHANGED <<fixed, wire, stageVars, module, chosen, load>>

(* The files a program may load: the one it saved, or one written by hand. *)
HandTexts ==
  {Unreadable} \cup {Text(key, v) : v \in {"a", "b"} \cap Values}
    \cup (IF key \in DOMAIN NameTable
          THEN {Beginning({"FULL", "FM0"}), Beginning({"S0", "S1", "S2", "S3", "SLEEP"})}
          ELSE {})
HandWritten ==
  {<<Comment>>, <<Other, Application, Comment, Other>>}
    \cup UNION {{<<KeyLine(t)>>, <<KeyLine(t), Other>>, <<Other, KeyLine(t)>>,
                 <<Application, KeyLine(t)>>} : t \in HandTexts}

(* Comments are skipped, and so is a last line that does not end; values   *)
(* are appended to memory that was never cleared.                          *)
Entries(lines, ended, garbled) ==
  LET whole == IF ended \/ lines = <<>> THEN lines ELSE SubSeq(lines, 1, Len(lines) - 1)
      kept == SelectSeq(whole, LAMBDA l : l.about # "comment")
  IN  [i \in DOMAIN kept |-> IF garbled THEN [kept[i] EXCEPT !.text = Unreadable] ELSE kept[i]]

(* The status with which a file is given up before anything is set.        *)
Unloadable(entries) ==
  CASE entries = <<>> -> {"INVALID"}
    [] Len(entries) >= MaxParameters -> {"OUT_OF_MEMORY"}
    [] OTHER -> {}

LoadConfig ==
  /\ Tried
  /\ Set[key].how # "rate"
  /\ \E lines \in HandWritten \cup {file} : \E ended, garbled \in BOOLEAN :
       LET entries == Entries(lines, ended \/ lines = file, garbled)
       IN  \/ \E status \in Unloadable(entries) \cup {"TRYAGAIN"} :
                /\ last' = [call |-> "loadConfig", value |-> "none", status |-> status]
                /\ UNCHANGED <<fields, bits, missed, load>>
           \/ /\ Unloadable(entries) = {}
              /\ \E s \in SaveResults :
                   /\ load' = [NoLoad EXCEPT !.phase = "loading", !.todo = entries,
                                 !.backup = s.lines, !.before = Seen,
                                 !.trouble = garbled \/ ~HasKeyLine(s.lines) \/ s.missed]
                   /\ TakeOver(s)
              /\ UNCHANGED last
  /\ UNCHANGED <<fixed, wire, stageVars, module, chosen, file>>

Skippable == {"READONLY", "NOT_FOUND", "UNIMPLEMENTED_FEATURE", "UNSUPPORTED"}

(* What becomes of the load after a line was tried; a roll back that       *)
(* cannot begin has failed, and the load goes on with the next line.       *)
After(l, status) ==
  CASE status = "ok" \/ status \in Skippable -> [l EXCEPT !.ret = "ok"]
    [] status \notin Skippable \cup {"ok"} /\ l.phase = "rolling" -> [l EXCEPT !.ret = status]
    [] status \notin Skippable \cup {"ok"} /\ l.phase = "loading" ->
         [l EXCEPT !.ret = status, !.phase = "roll back"]

(* getSetOneParam on the next line.                                        *)
LoadLine ==
  /\ load.phase \in {"loading", "rolling"} /\ load.todo # <<>>
  /\ LET entry == Head(load.todo)
         next == [load EXCEPT !.todo = Tail(@)]
         v == ReadBack(key, entry.text)
     IN  CASE entry.about = "application" ->
                /\ load' = next
                /\ UNCHANGED <<fields, bits, module, ghosts>>
           [] entry.about = "other" ->
                /\ \E status \in {"ok", "READONLY", "INVALID"} : load' = After(next, status)
                /\ UNCHANGED <<fields, bits, module, ghosts>>
           [] entry.about = "key" /\ v \in {"unparsed", "nothing"} ->
                /\ load' = After(next, IF v = "nothing" THEN "ok" ELSE "INVALID")
                /\ UNCHANGED <<fields, bits, module, ghosts>>
           [] entry.about = "key" /\ v \notin {"unparsed", "nothing"} ->
                \E r \in SetResults(v) :
                  LET status == r.change.status
                  IN  /\ SetTo(v, r)
                      /\ load' = [After(next, status) EXCEPT
                                    !.done = IF status = "ok" THEN entry.text ELSE @,
                                    !.trouble = @ \/ status \in Skippable \/ r.missed
                                                  \/ status \in {"refused", "timeout", "late"}]
  /\ UNCHANGED <<fixed, wire, stageVars, file>>

(* Seeded: the program's file is read in the place of the backup. *)
RollBackSeeded ==
  /\ load.phase = "roll back"
  /\ \/ /\ load' = [load EXCEPT !.phase = "loading", !.ret = "TRYAGAIN"]
        /\ UNCHANGED <<fields, bits, missed>>
     \/ \E garbled \in BOOLEAN : \E s \in SaveResults :
          /\ load' = [load EXCEPT !.phase = "rolling", !.rest = load.todo,
                                  !.todo = Entries(file, TRUE, garbled),
                                  !.trouble = @ \/ garbled \/ s.missed]
          /\ TakeOver(s)
  /\ UNCHANGED <<fixed, wire, stageVars, module, last, chosen, file>>

(* rollBackConfigData: the backup is read, and itself backed up, before    *)
(* its lines are set; it may be unreadable by now.                         *)
RollBack ==
  /\ load.phase = "roll back"
  /\ \/ /\ load' = [load EXCEPT !.phase = "loading", !.ret = "TRYAGAIN"]
        /\ UNCHANGED <<fields, bits, missed>>
     \/ \E garbled \in BOOLEAN : \E s \in SaveResults :
          /\ load' = [load EXCEPT !.phase = "rolling", !.rest = load.todo,
                                  !.todo = Entries(load.backup, TRUE, garbled),
                                  !.trouble = @ \/ garbled \/ s.missed]
          /\ TakeOver(s)
  /\ UNCHANGED <<fixed, wire, stageVars, module, last, chosen, file>>

Finish(status) ==
  /\ load' = NoLoad
  /\ last' = [call |-> "loadConfig", value |-> "none", status |-> status]

(* A roll back that ended well ends the load, with success; one that did   *)
(* not is forgotten: the load goes on with the line after the refused one. *)
EndRollBack ==
  /\ load.phase = "rolling" /\ load.todo = <<>>
  /\ IF load.ret = "ok" THEN Finish("ok")
     ELSE /\ load' = [load EXCEPT !.phase = "loading", !.todo = load.rest, !.rest = <<>>]
          /\ UNCHANGED last
  /\ UNCHANGED <<fixed, fields, bits, wire, stageVars, module, chosen, missed, file>>

EndLoad ==
  /\ load.phase = "loading" /\ load.todo = <<>>
  /\ Finish(load.ret)
  /\ UNCHANGED <<fixed, fields, bits, wire, stageVars, module, chosen, missed, file>>

SavedNext ==
  \/ load.phase = "none" /\ SettingNext /\ UNCHANGED configVars
  \/ SaveConfig
  \/ LoadConfig
  \/ LoadLine
  \/ RollBack
  \/ EndRollBack
  \/ EndLoad

SavedSpec == SavedInit /\ [][SavedNext]_savedVars
-------------------------------------------------------------------------------
(* Properties.                                                             *)

(* Values whose text cannot be loaded, or says nothing: no region, ports   *)
(* that getPortValues does not list, a link frequency of 40,               *)
(* a protocol without a name, a plan with an ISO filter; a load that sets  *)
(* pins sets the third as well, and the default time of the filter is kept *)
(* as zero.                                                                *)
LostInText(v) ==
  \/ key = "REGION_ID" /\ v \in {"NONE", "unlisted"}
  \/ WriteItem[1] = "ANTENNA_PORT 4" /\ v = "unlisted"
  \/ key = "GEN2_BLF" /\ v = "3"
  \/ key = "TAGOP_PROTOCOL" /\ v = "b"
  \/ key = "READ_PLAN" /\ v = "b"
  \/ key = "TAGREADDATA_READFILTERTIMEOUT" /\ v = "-1"
  \/ key = "ANTENNA_PORTSWITCHGPOS"

(* After a roll back in which nothing else failed, a get returns what it   *)
(* did before the load.                                                    *)
RollBackRestores ==
  [][load.phase = "rolling" /\ load'.phase = "none" /\ ~load.trouble /\ ~LostInText(load.before)
       => Seen' = load.before]_savedVars

(* After a load in which nothing failed, a save would write what the file  *)
(* says: the two halves of getSetOneParam fit.                             *)
LoadedAsWritten ==
  [][load.phase = "loading" /\ load'.phase = "none" /\ load.ret = "ok" /\ ~load.trouble
       /\ load.done \in {Text(key, v) : v \in {w \in Values \ {"illegal"} : ~LostInText(w)}}
     => Text(key, Seen') = load.done]_savedVars
=============================================================================
