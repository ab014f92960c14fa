------------------------- MODULE MCSettingsAndOperations -------------------------
(***************************************************************************)
(* Two programs in one run: one that sets, saves and loads the parameters  *)
(* of a serial reader (SavedConfiguration), one that has tag operations    *)
(* executed (TagOperations).  They share no state; program says which of   *)
(* the two a behaviour is about, and the other stays in an initial state.  *)
(***************************************************************************)
EXTENDS SavedConfiguration, TagOperations

VARIABLE program

TestedModelsValue == {"M6e", "Micro", "M5e"}
ProbeRatesValue == {"r9600", "r115200"}
LinkKeysValue == {"BAUDRATE"}
LoadModelsValue == {"Micro"}

Init ==
  /\ program \in {"parameters", "operations"}
  /\ SavedInit /\ TagInit
  /\ program = "operations" => key = "BAUDRATE" /\ model = "M6e" /\ ~usb
  /\ program = "parameters" => readerType = "serial"

Next ==
  \/ program = "parameters" /\ SavedNext /\ UNCHANGED <<program, tagVars>>
  \/ program = "operations" /\ TagNext /\ UNCHANGED <<program, savedVars>>

Spec == Init /\ [][Next]_<<program, savedVars, tagVars>>
=============================================================================
