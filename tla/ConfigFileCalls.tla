-------------------------- MODULE ConfigFileCalls --------------------------
(***************************************************************************)
(* What a program does with TSDocConfigFile objects besides loading them   *)
(* from a disk: it makes one from JSON or from a parser, edits it, applies *)
(* it to a parser, again or on top of what is there, and saves it.  The    *)
(* object that it works with is the root.  "Edited" is a root that has     *)
(* changed since it was loaded, "Updated" a parser that was not cleared.   *)
(***************************************************************************)
EXTENDS ConfigFile

CONSTANTS
  EditedDisks,        \* bound: the disks that are there while files are edited
  Objects,            \* what is passed to loadFromObject()
  Parameters,         \* ... and to addTagDefinition()
  MaxCalls            \* bound: calls of one program

VARIABLE calls

callVars == <<vars, calls>>

CallsInit == Init /\ calls = 0

\* One more call, in one of the states of "from"
Call(from) ==
  /\ pc \in from /\ disk \in EditedDisks
  /\ calls < MaxCalls /\ calls' = calls + 1

HasRoot == {"Loaded", "Edited", "Configured", "Updated"}

\* A new root is on the heap
NewRoot(f, next) ==
  /\ files' = Append(files, f)
  /\ stack' = <<Len(files) + 1>>
  /\ pc' = next
  /\ UNCHANGED <<disk, visited, content, configuration>>

LoadFromObject(json) ==
  /\ Call({"Start"})
  /\ IF json.json = "null" THEN NewRoot(NewFile, "Thrown")
     ELSE \E f \in {LoadJsonObject(NewFile, json)} :
            NewRoot(f, IF f.extendsPaths = <<>> THEN "Loaded" ELSE "Thrown")

LoadFromParser ==
  /\ Call({"Configured", "Updated"})
  /\ Len(files) < MaxFiles
  /\ NewRoot(FromParser(configuration), "Edited")

-----------------------------------------------------------------------------
\* A method of the root is called that makes it f, or throws
EditRoot(f) ==
  /\ Call(HasRoot)
  /\ files' = [files EXCEPT ![root] = [f EXCEPT !.threw = FALSE]]
  /\ pc' = "Edited"
  /\ UNCHANGED <<disk, stack, visited, content, configuration>>

ClearTagDefinitions == EditRoot(ClearTagDefinitionsOfFile(files[root]))
AddTag(parameters) == EditRoot(AddTagDefinitionToFile(files[root], parameters))
ClearSupportForTags == EditRoot([files[root] EXCEPT !.supportForTags = <<>>])
SetSupport(name, b) == EditRoot(SetSupportInFile(files[root], name, b))
ClearSupportedHtmlElements == EditRoot([files[root] EXCEPT !.supportedHtmlElements = <<>>])
AddSupportedHtmlElement(e) == EditRoot(AddHtmlElement(files[root], e))
SetNoStandardTags(b) == EditRoot([files[root] EXCEPT !.noStandardTags = b])
SetReportUnsupportedHtmlElements(b) ==
  EditRoot([files[root] EXCEPT !.reportUnsupportedHtmlElements = b])

Edits ==
  \/ ClearTagDefinitions \/ ClearSupportForTags \/ ClearSupportedHtmlElements
  \/ \E p \in Parameters : AddTag(p)
  \/ \E n \in Names, b \in BOOLEAN : SetSupport(n, b)
  \/ \E e \in HtmlElements : AddSupportedHtmlElement(e)
  \/ \E b \in Switch : SetNoStandardTags(b) \/ SetReportUnsupportedHtmlElements(b)

ConfigureEdited ==
  /\ pc = "Edited"
  /\ ConfigureParser(root)
  /\ pc' = "Configured"
  /\ UNCHANGED <<disk, stack, visited, content, calls>>

\* updateParser() of the root, on the parser as it is
Update ==
  /\ Call(HasRoot)
  /\ \E s \in {UpdateWith(configuration, root)} : configuration' = s.configuration /\ files' = s.files
  /\ pc' = "Updated"
  /\ UNCHANGED <<disk, stack, visited, content>>

\* The program sets a validation switch of its parser
SetSwitch(switch, b) ==
  /\ Call({"Configured", "Updated"})
  /\ configuration' = SetValidation(configuration, switch, b)
  /\ pc' = "Updated"
  /\ UNCHANGED <<disk, files, stack, visited, content>>

\* saveFile(): nothing is checked, and what was there is gone
SaveFile(p) ==
  /\ Call(HasRoot)
  /\ Edit(p, SaveToObject(files[root]))

CallsNext ==
  \/ Next /\ UNCHANGED calls
  \/ \E json \in Objects : LoadFromObject(json)
  \/ LoadFromParser
  \/ Edits
  \/ ConfigureEdited
  \/ Update
  \/ \E v \in ValidationSwitches, b \in BOOLEAN : SetSwitch(v, b)
  \/ \E p \in DOMAIN disk : SaveFile(p)

CallsSpec == CallsInit /\ [][CallsNext]_callVars /\ WF_callVars(Load /\ UNCHANGED calls)

-----------------------------------------------------------------------------
\* What is left of definitions when they are written down: everything but who they are
Spelled(definitions) ==
  [i \in DOMAIN definitions |->
     [tagName |-> definitions[i].tagName, syntaxKind |-> definitions[i].syntaxKind,
      allowMultiple |-> definitions[i].allowMultiple]]

(***************************************************************************)
(* A parser survives the way through a file: loadFromParser() never fails, *)
(* and configureParser() of what it makes gives the same definitions in    *)
(* the same order, the same support, and the same HTML elements and switch *)
(* for them as before, without an error.  A file has no place for the      *)
(* other two switches: unsupported tags are reported afterwards exactly if *)
(* some tag is supported, and undefined tags are no longer ignored.        *)
(***************************************************************************)
ParserRoundTrip ==
  (pc \in {"Configured", "Updated"} /\ ~configuration.threw) =>
    LET f == FromParser(configuration)
        s == UpdateParser([configuration |-> Cleared(f.noStandardTags = "true"),
                           files |-> <<f>>], 1)
        c == s.configuration
        supported(d) == {e.tagName : e \in d.supportedTagDefinitions}
    IN /\ ~f.threw /\ ~c.threw /\ s.files[1].log = <<>>
       /\ Spelled(c.tagDefinitions) = Spelled(configuration.tagDefinitions)
       /\ supported(c) = supported(configuration)
       /\ c.supportedHtmlElements = configuration.supportedHtmlElements
       /\ c.reportUnsupportedHtmlElements = configuration.reportUnsupportedHtmlElements
       /\ c.reportUnsupportedTags = (supported(configuration) # {})
       /\ ~c.ignoreUndefinedTags

\* The settings of a file itself, as they are written down
OwnSettings(f) ==
  <<f.noStandardTags, Spelled(f.tagDefinitions), f.supportForTags, f.supportedHtmlElements,
    f.reportUnsupportedHtmlElements>>
Repeats(f) ==
  {i \in DOMAIN f.tagDefinitions :
     \E j \in 1 .. i - 1 : Key(f.tagDefinitions[i]) = Key(f.tagDefinitions[j])}

(***************************************************************************)
(* A file that was loaded or edited can be saved and loaded again: the     *)
(* settings are the same, and nothing is reported but a name that is       *)
(* defined again, once for every time.  Such a name was reported when it   *)
(* was loaded, or the first definition is not spelled in capitals: these   *)
(* are the ones that addTagDefinition() does not find.                     *)
(***************************************************************************)
SavedFilesReadBack ==
  pc \in HasRoot =>
    LET f == files[root]
        g == LoadJsonObject(NewFile, SaveToObject(f))
    IN /\ OwnSettings(g) = OwnSettings(f) /\ g.extendsPaths = <<>>
       /\ g.log = [k \in 1 .. Cardinality(Repeats(f)) |-> "DuplicateTagName"]
       /\ \A i \in Repeats(f) :
            \/ "DuplicateTagName" \in ToSet(f.log)
            \/ \E j \in 1 .. i - 1 : /\ Key(f.tagDefinitions[i]) = Key(f.tagDefinitions[j])
                                     /\ f.tagDefinitions[j].tagName # Key(f.tagDefinitions[j])
=============================================================================
