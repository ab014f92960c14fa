----------------------------- MODULE TagOperations -----------------------------
(***************************************************************************)
(* Tag operations: a program fills a TMR_TagOp with a TMR_TagOp_init       *)
(* function and has it executed (TMR_executeTagOp) or carried out on every *)
(* tag of a search (a read plan's tagop), on a serial reader or on an LLRP *)
(* reader.  The module joins the tables of TagOpTables and LlrpTagOpTables *)
(* into the messages that are sent, with the reader state that outlives a  *)
(* call: the access password and the option that makes the serial parser   *)
(* split a read of all memory banks.                                       *)
(*                                                                         *)
(* A structure is memory the caller may have used before: what an          *)
(* initialisation does not assign is a leftover.                           *)
(***************************************************************************)
EXTENDS LlrpTagOpTables

CONSTANTS
  Passwords,  \* access passwords the program sets with paramSet
  MaxTags     \* bound: tags that one search finds

ASSUME MaxTagsAssumption == MaxTags \in Nat \ {0}

VARIABLES
  readerType,               \* "serial" or "llrp"
  gen2AccessPassword,       \* the reader's setting: a password, or the
                            \* operation's own ("own")
  gen2AllMemoryBankEnabled, \* the parser splits the next data it sees
  op,        \* the operation: name, silicon, whether it reads all banks
  memory,    \* its fields: "own" when its initialisation assigned them
  sent,      \* the messages of the last call, in order
  found,     \* tags of the last search not parsed yet (left), and whether
             \* their data is one bank's, all banks' or absent (data)
  parsed,    \* how the data of the tags parsed so far was returned
  asked,     \* the password the program set last
  borrowed,  \* a secure read left its password in the reader since then
  answered   \* what an LLRP operation came to: the outcome at the reader,
             \* the status the program sees, what happened to the data

opVars == <<op, memory>>
bankVars == <<gen2AllMemoryBankEnabled, found, parsed>>
passwordVars == <<gen2AccessPassword, asked, borrowed>>
tagVars == <<readerType, opVars, bankVars, passwordVars, sent, answered>>

NoOp == [name |-> "none", chip |-> "none", allBanks |-> FALSE]

NoAnswer == [outcome |-> "none", status |-> "none", data |-> "none", room |-> "none"]

Filters == {"none", "tagData"}

TagInit ==
  /\ readerType \in {"serial", "llrp"}
  /\ gen2AccessPassword = "zero"
  /\ gen2AllMemoryBankEnabled = FALSE
  /\ op = NoOp
  /\ memory = <<>>
  /\ sent = <<>>
  /\ found = [left |-> 0, data |-> "none"]
  /\ parsed = <<>>
  /\ asked = "zero"
  /\ borrowed = FALSE
  /\ answered = NoAnswer

-------------------------------------------------------------------------------
(* What a call sends.                                                      *)

Position(formals, argument) == CHOOSE i \in 1..Len(formals) : formals[i] = argument

(* A place of the message (slot) and what comes there: the actual argument *)
(* that the call put where the function expects the one it lays out.       *)
Value(formals, actuals, argument) ==
  LET actual == actuals[Position(formals, argument)]
  IN  [slot  |-> argument,
       field |-> actual,
       from  |-> IF actual = "zero" THEN "zero" ELSE memory[actual]]

(* Seeded: an operation's own password is left out. *)
SelectionPasswordSeeded(select) ==
  CASE select = "setting" -> gen2AccessPassword
    [] select = "none"    -> "none"
    [] OTHER              -> "zero"

SelectionPassword(select) ==
  CASE select = "setting" -> gen2AccessPassword
    [] select = "none"    -> "none"
    [] OTHER              -> "own"

Message(o, formals, call) ==
  LET row == Builder[o]
  IN  [code   |-> row.code,
       head   |-> row.head,
       body   |-> [i \in 1..Len(row.body) |-> Value(formals, call.actuals, row.body[i])],
       select |-> SelectionPassword(call.select)]

(* The head of a search with room for the embedded command.                *)
SearchHead(password) ==
  [code |-> "READ_TAG_ID_MULTIPLE", head |-> <<"embedded", "1">>, body |-> <<>>,
   select |-> password]

-------------------------------------------------------------------------------
(* Operations of the program.                                              *)

(* TMR_paramSet of TMR_PARAM_GEN2_ACCESSPASSWORD.                          *)
SetAccessPassword ==
  \E p \in Passwords :
    /\ gen2AccessPassword' = p
    /\ asked' = p
    /\ borrowed' = FALSE
    /\ sent' = <<>> /\ answered' = NoAnswer
    /\ UNCHANGED <<readerType, opVars, bankVars>>

(* A TMR_TagOp_init function, on memory that may hold another operation.   *)
(* The bank argument of ReadData also carries the wish to read more banks. *)
InitTagOp ==
  \E o \in OpName :
    \E c \in Filler[o].chips, all \in BOOLEAN :
      /\ all => o = "ReadData"
      /\ op' = [name |-> o, chip |-> c, allBanks |-> all]
      /\ memory' = [f \in Fields[o] |-> IF f \in Filler[o].sets THEN "own"
                                                                ELSE "leftover"]
      /\ sent' = <<>> /\ answered' = NoAnswer
      /\ UNCHANGED <<readerType, passwordVars, bankVars>>

(* What the functions behind TMR_SR_executeTagOp refuse.                   *)
RefusedDirectly(filter) ==
  \/ op.name \notin DOMAIN Execute
  \/ op.name \in {"Higgs2PartialLoad", "Higgs2FullLoad", "EASAlarm"} /\ filter # "none"
  \/ op.name = "ChangeConfig" /\ op.chip = "NXP_G2X"
  \/ op.name \in {"ISOReadData", "ISOLock"} /\ filter # "tagData"

ExecuteTagOp ==
  /\ readerType = "serial" /\ op # NoOp
  /\ \E filter \in Filters :
       IF RefusedDirectly(filter)
       THEN sent' = <<>>
       ELSE sent' = <<Message(op.name, DirectFormals(op.name), Execute[op.name])>>
  /\ UNCHANGED <<readerType, opVars, bankVars, passwordVars, answered>>

(* What TMR_SR_addTagOp refuses.                                           *)
RefusedInSearch ==
  \/ op.name \notin DOMAIN Embed
  \/ op.name \in {"ResetReadProtect", "ChangeConfig"} /\ op.chip = "NXP_G2X"

(* The password of the search: a secure read puts its own into the setting.*)
Borrows == op.name = "SecureReadData"

(* The command of the case that ends without a break is followed by the    *)
(* one of the next case, which takes its arguments from the same union.    *)
Embedded ==
  LET Both(o) == LET password == IF Borrows THEN "own"
                                 ELSE SelectionPassword(Embed[o].select)
                 IN  <<SearchHead(password),
                       [Message(o, Builder[o].formals, Embed[o])
                          EXCEPT !.select = "none"]>>
  IN  IF op.name = "GetMeasurementSetup"
      THEN Both(op.name) \o Both("GetLogState")
      ELSE Both(op.name)

(* What the module answers for every tag.                                  *)
DataOf(o) ==
  CASE o.allBanks -> "banks"
    [] ~o.allBanks /\ (o.name \in {"ReadData", "SecureReadData"}
                        \/ Builder[o.name].answer # 0) -> "plain"
    [] OTHER -> "none"

(* A search with the operation embedded.  It finds some tags, or none.     *)
SearchWithTagOp ==
  /\ readerType = "serial" /\ op # NoOp
  /\ IF RefusedInSearch
     THEN /\ sent' = <<>>
          /\ UNCHANGED <<gen2AllMemoryBankEnabled, found, parsed, passwordVars>>
     ELSE /\ sent' = Embedded
          /\ gen2AllMemoryBankEnabled' = (gen2AllMemoryBankEnabled \/ op.allBanks)
          /\ gen2AccessPassword' = IF Borrows THEN "own" ELSE gen2AccessPassword
          /\ borrowed' = (borrowed \/ Borrows)
          /\ \E n \in 0..MaxTags : found' = [left |-> n, data |-> DataOf(op)]
          /\ parsed' = <<>>
          /\ UNCHANGED asked
  /\ UNCHANGED <<readerType, opVars, answered>>

(* Seeded: the tag stays among those to come. *)
ParseTagSeeded ==
  /\ found.left > 0
  /\ parsed' = Append(parsed, "whole")
  /\ gen2AllMemoryBankEnabled' = FALSE
  /\ sent' = <<>>
  /\ UNCHANGED <<readerType, opVars, passwordVars, answered, found>>

(* TMR_SR_parseMetadataFromMessage on the data of one tag, with the data   *)
(* among the metadata: the option is consulted and cleared by every tag.   *)
HowParsed ==
  CASE found.data = "banks" -> IF gen2AllMemoryBankEnabled THEN "split" ELSE "whole"
    [] found.data = "plain" -> IF gen2AllMemoryBankEnabled THEN "garbled" ELSE "whole"
    [] OTHER -> "none"

ParseTag ==
  /\ found.left > 0
  /\ found' = [found EXCEPT !.left = @ - 1]
  /\ parsed' = Append(parsed, HowParsed)
  /\ gen2AllMemoryBankEnabled' = FALSE
  /\ sent' = <<>>
  /\ UNCHANGED <<readerType, opVars, passwordVars, answered>>

(* The AccessSpec of an operation: one OpSpec, made of the structure, and  *)
(* what it locks, if anything.                                             *)
AccessSpec(o, locks) ==
  [code   |-> "ADD_ACCESSSPEC",
   head   |-> <<>>,
   body   |-> [slot \in DOMAIN OpSpecs[o].places |->
                 LET field == OpSpecs[o].places[slot]
                 IN  [slot |-> slot, field |-> field, from |-> memory[field]]],
   locks  |-> locks,
   select |-> SelectionPassword(OpSpecs[o].select)]

(* A lock of the bits in mask to those in action, as it is asked and sent. *)
Locks(mask, action) ==
  LET bit == CHOOSE b \in mask : TRUE
  IN  [mask |-> mask, action |-> action, payload |-> LockPayload(bit, action)]

(* TMR_LLRP_executeTagOp up to the start of the ROSpec, and the AccessSpec *)
(* of a read whose plan has the operation.  A lock asks for one bit or     *)
(* two; only the first kind has an OpSpec.                                 *)
AddAccessSpec ==
  /\ readerType = "llrp" /\ op # NoOp
  /\ \/ /\ \/ op.name \notin DOMAIN OpSpecs
           \/ op.name = "ChangeConfig" /\ op.chip = "NXP_G2X"
           \/ op.name = "Lock"
        /\ sent' = <<>>
     \/ /\ op.name \in DOMAIN OpSpecs \ {"Lock"}
        /\ op.name = "ChangeConfig" => op.chip # "NXP_G2X"
        /\ sent' = <<AccessSpec(op.name, {})>>
     \/ /\ op.name = "Lock"
        /\ \E bit, other \in LockBits :
             \E action \in SUBSET {bit, other} :
               sent' = <<AccessSpec(op.name, {Locks({bit}, action)})>>
  /\ answered' = NoAnswer
  /\ UNCHANGED <<readerType, opVars, bankVars, passwordVars>>

TagOutcomes == CustomOutcomes \cup {"overrun", "locked", "power", "zero password"}

(* The report: of a tag with the operation's result, or, for a standalone  *)
(* operation, of no tag, which is a success with nothing done.  Only the   *)
(* data of a success is taken, into a list with no room, just enough or    *)
(* more.                                                                   *)
TakeReport ==
  /\ readerType = "llrp" /\ sent # <<>> /\ answered = NoAnswer
  /\ \/ answered' = [NoAnswer EXCEPT !.outcome = "no tag", !.status = "success"]
     \/ \E outcome \in TagOutcomes, room \in {"none", "exact", "ample"} :
          LET status == Status(op.name, outcome)
          IN  answered' = [outcome |-> outcome, status |-> status,
                           data |-> IF status = "success" /\ room # "none"
                                    THEN Parsed(op.name, room) ELSE "none",
                           room |-> room]
  /\ sent' = <<>>
  /\ UNCHANGED <<readerType, opVars, bankVars, passwordVars>>

TagNext ==
  \/ SetAccessPassword
  \/ InitTagOp
  \/ ExecuteTagOp
  \/ SearchWithTagOp
  \/ ParseTag
  \/ AddAccessSpec
  \/ TakeReport

TagSpec == TagInit /\ [][TagNext]_tagVars
-------------------------------------------------------------------------------
(* Properties.                                                             *)

(* The state of the reader and of the program's operation stays in its     *)
(* types: every search finds at most MaxTags tags, every field is one of   *)
(* the operation's.                                                        *)
TagTypeOK ==
  /\ readerType \in {"serial", "llrp"}
  /\ gen2AccessPassword \in Passwords \cup {"zero", "own"}
  /\ asked \in Passwords \cup {"zero"}
  /\ gen2AllMemoryBankEnabled \in BOOLEAN /\ borrowed \in BOOLEAN
  /\ op # NoOp => op.name \in OpName /\ DOMAIN memory = Fields[op.name]
  /\ found.left + Len(parsed) <= MaxTags

(* A command carries no leftover of the memory its operation was built in: *)
(* every byte that the layout functions take from the structure was put    *)
(* there by the operation's own TMR_TagOp_init.  The exceptions are the    *)
(* delays of the SL900A's Initialize, which tm_reader.c composes bit by    *)
(* bit without clearing them, and the token of a Siniav command without    *)
(* one, of which an LLRP reader is sent eight bytes.                       *)
NoLeftovers ==
  \/ op.name \in {"Initialize", "InitializeTimer"}
  \/ readerType = "llrp" /\ op.name = "Siniav"
  \/ \A k \in 1..Len(sent) : \A i \in DOMAIN sent[k].body :
       sent[k].body[i].from # "leftover"

(* Arguments pass by position through two functions and into a message of  *)
(* yet another order: what arrives at a field's place is that field, in    *)
(* direct and in embedded commands (an embedded lock sends no password of  *)
(* its own) and in OpSpecs (but for the identification of a WriteMemMap,   *)
(* which is the first half of its data).  A lock's privilege is the one    *)
(* that its action asks for, while the action stays within the mask.       *)
FieldsInPlace ==
  \A k \in 1..Len(sent) :
    /\ \A i \in DOMAIN sent[k].body :
         LET part == sent[k].body[i]
         IN  \/ part.field = part.slot
             \/ part.field = "zero" /\ op.name = "Lock" /\ Len(sent) = 2
             \/ part.slot = "tagIdentification" /\ readerType = "llrp"
    /\ "locks" \in DOMAIN sent[k] =>
         \A lock \in sent[k].locks :
           lock.action \subseteq lock.mask =>
             (lock.payload.privilege \in {"Perma_Lock", "Read_Write"}
                <=> lock.action = lock.mask)

(* The answer to a chip's own command repeats the command's head, of three *)
(* or four bytes: its data is taken from behind that and the frame's five. *)
AnswerPastEcho ==
  op.name \in DOMAIN Builder =>
    LET row == Builder[op.name]
    IN  row.code = "WRITE_TAG_SPECIFIC" /\ row.answer # 0 =>
          row.answer = 5 + Len(row.head)

(* A tag is selected with the password the program set last or with the    *)
(* operation's own, never with one of an earlier operation, unless a       *)
(* secure read put its password into the reader's setting since.           *)
PasswordAsAsked ==
  ~borrowed =>
    /\ gen2AccessPassword = asked
    /\ \A k \in 1..Len(sent) : sent[k].select \in {asked, "own", "none"}

(* The switches over an LLRP operation's result agree with the one that    *)
(* sent it: the status is a success exactly when the reader says so (or    *)
(* reports no tag at all), and then the data of an operation that has any  *)
(* (on a serial reader) is in the caller's list, as far as there is room.  *)
(* The exceptions, all in TMR_LLRP_parseTagOpSpecData: the answers of      *)
(* FifoWrite and BlockPermaLock are not taken, those of QTReadWrite and    *)
(* ISOReadData in part.                                                    *)
AnswerTaken ==
  /\ answered.status = "success" <=> answered.outcome \in {"success", "no tag"}
  /\ (/\ answered.outcome = "success" /\ answered.room # "none"
      /\ op.name = "ReadData" \/ Builder[op.name].answer # 0
      /\ op.name \notin {"FifoWrite", "BlockPermaLock", "QTReadWrite", "ISOReadData"})
       => answered.data = "taken"
=============================================================================
