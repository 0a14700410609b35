--------------------------- MODULE ConfigSettings ---------------------------
(***************************************************************************)
(* One TSDocConfigFile object: the settings that it holds, as a record,    *)
(* with the operators that fill it from JSON, from a parser or by calls,   *)
(* save it, and apply it to a TSDocConfiguration.  ConfigFile builds trees *)
(* of these objects from a disk, ConfigFileCalls lets a program edit one.  *)
(*                                                                         *)
(* A setting that is undefined is "unset", or <<>> for a list.  "threw" is *)
(* set when a method throws; what it did before stays done.  "made" counts *)
(* the TSDocTagDefinition objects of a file, which tells them apart.       *)
(***************************************************************************)
EXTENDS TSDocConfiguration, SequencesExt

CONSTANTS
  NoPath,             \* "", for a folder without a configuration file
  InvalidNames        \* the names that TSDocTagDefinition rejects

SyntaxKinds == {"InlineTag", "BlockTag", "ModifierTag"}
Switch == {"unset", "true", "false"}
FromBoolean(b) == IF b THEN "true" ELSE "false"

\* The constructor; "version" is not in the code: what the file was when it was read
NewFile ==
  [filePath |-> NoPath, fileNotFound |-> FALSE, version |-> 0, fileMTime |-> 0,
   hasErrors |-> FALSE, log |-> <<>>, extendsPaths |-> <<>>, extendsFiles |-> <<>>,
   noStandardTags |-> "unset", tagDefinitions |-> <<>>, tagDefinitionNames |-> {}, made |-> 0,
   supportForTags |-> <<>>, supportedHtmlElements |-> <<>>,
   reportUnsupportedHtmlElements |-> "unset", threw |-> FALSE]

\* _reportError(), for a list of errors
Report(f, ids) == [f EXCEPT !.log = @ \o ids, !.hasErrors = @ \/ ids # <<>>]

-----------------------------------------------------------------------------
\* A definition of the file, remembered under "name"
Define(f, parameters, name) ==
  [f EXCEPT !.tagDefinitionNames = @ \union {name}, !.made = @ + 1,
            !.tagDefinitions =
              Append(@, [tagName |-> parameters.tagName, syntaxKind |-> parameters.syntaxKind,
                         allowMultiple |-> parameters.allowMultiple, serial |-> f.made + 1])]

\* _addTagDefinitionForLoad(): a duplicate is reported, and added all the same
AddTagDefinitionForLoad(f, parameters) ==
  LET name == UpperCase[parameters.tagName]
      reported == IF name \in f.tagDefinitionNames THEN Report(f, <<"DuplicateTagName">>) ELSE f
  IN IF parameters.tagName \in InvalidNames THEN Report(f, <<"InvalidTagName">>)
     ELSE Define(reported, parameters, name)

\* addTagDefinition(): it looks for the name in capitals, and remembers it as it is spelled
AddTagDefinitionToFile(f, parameters) ==
  IF \/ f.threw \/ parameters.tagName \in InvalidNames
     \/ UpperCase[parameters.tagName] \in f.tagDefinitionNames
    THEN [f EXCEPT !.threw = TRUE]
  ELSE Define(f, parameters, parameters.tagName)

ClearTagDefinitionsOfFile(f) == [f EXCEPT !.tagDefinitions = <<>>, !.tagDefinitionNames = {}]

AddHtmlElement(f, element) ==
  [f EXCEPT !.supportedHtmlElements =
     IF @ = <<>> THEN <<{element}>> ELSE <<@[1] \union {element}>>]

\* Map.set() on supportForTags, in the order in which the names were first set
SetEntry(entries, name, b) ==
  IF \E k \in DOMAIN entries : entries[k].tagName = name
    THEN [k \in DOMAIN entries |->
            IF entries[k].tagName = name THEN [entries[k] EXCEPT !.supported = b] ELSE entries[k]]
  ELSE Append(entries, [tagName |-> name, supported |-> b])

SetSupportInFile(f, name, b) ==
  IF f.threw \/ name \in InvalidNames THEN [f EXCEPT !.threw = TRUE]
  ELSE [f EXCEPT !.supportForTags = SetEntry(@, name, b)]

-----------------------------------------------------------------------------
\* The syntaxKind of the JSON, and back
JsonKinds == [inline |-> "InlineTag", block |-> "BlockTag", modifier |-> "ModifierTag"]
SerializedKind(kind) == CHOOSE k \in DOMAIN JsonKinds : JsonKinds[k] = kind

FromJson(tag) ==
  [tagName |-> tag.tagName, syntaxKind |-> JsonKinds[tag.syntaxKind],
   allowMultiple |-> tag.allowMultiple = "true"]

\* _serializeTagDefinition()
ToJson(d) ==
  [tagName |-> d.tagName, syntaxKind |-> SerializedKind(d.syntaxKind),
   allowMultiple |-> IF d.allowMultiple THEN "true" ELSE "unset"]

\* _loadJsonObject(), for JSON that is an object
LoadJsonObject(f, json) ==
  CASE json.json = "otherSchema" -> Report(f, <<"UnsupportedSchema">>)
    [] json.json = "invalid" -> Report(f, <<"SchemaError">>)
    [] json.json = "settings" ->
         LET tagged == FoldLeft(AddTagDefinitionForLoad, f,
                                [i \in DOMAIN json.tagDefinitions |-> FromJson(json.tagDefinitions[i])])
         IN [tagged EXCEPT !.extendsPaths = json.extends,
                           !.noStandardTags = json.noStandardTags,
                           !.supportForTags = json.supportForTags,
                           !.supportedHtmlElements = json.supportedHtmlElements,
                           !.reportUnsupportedHtmlElements = json.reportUnsupportedHtmlElements]

\* mutant: a list without elements is left out, like the other lists
SaveWhatIsSet(f) ==
  [json |-> "settings", extends |-> <<>>, noStandardTags |-> f.noStandardTags,
   tagDefinitions |-> [i \in DOMAIN f.tagDefinitions |-> ToJson(f.tagDefinitions[i])],
   supportForTags |-> f.supportForTags,
   supportedHtmlElements |-> SelectSeq(f.supportedHtmlElements, LAMBDA s : s # {}),
   reportUnsupportedHtmlElements |-> f.reportUnsupportedHtmlElements]
\* saveToObject(): without the files that it extends
SaveToObject(f) ==
  [json |-> "settings", extends |-> <<>>, noStandardTags |-> f.noStandardTags,
   tagDefinitions |-> [i \in DOMAIN f.tagDefinitions |-> ToJson(f.tagDefinitions[i])],
   supportForTags |-> f.supportForTags,
   supportedHtmlElements |-> f.supportedHtmlElements,
   reportUnsupportedHtmlElements |-> f.reportUnsupportedHtmlElements]

-----------------------------------------------------------------------------
\* The definition objects of a loaded file
DefinitionsOf(f, id) ==
  [i \in DOMAIN f.tagDefinitions |->
     [tagName |-> f.tagDefinitions[i].tagName, syntaxKind |-> f.tagDefinitions[i].syntaxKind,
      allowMultiple |-> f.tagDefinitions[i].allowMultiple,
      id |-> <<id, f.tagDefinitions[i].serial>>]]

\* One entry of supportForTags, on s = [configuration, files]
ApplySupport(s, id, entry) ==
  LET key == UpperCase[entry.tagName] IN
  IF HasKey(s.configuration, key)
    THEN [s EXCEPT !.configuration =
            SetSupportForTag(@, @.tagDefinitionsByName[key], entry.supported)]
    ELSE [s EXCEPT !.files[id] = Report(@, <<"UndefinedTag">>)]

ApplyHtml(c, f) ==
  LET listed == IF f.supportedHtmlElements = <<>> THEN c
                ELSE SetSupportedHtmlElements(c, f.supportedHtmlElements[1])
  IN IF f.reportUnsupportedHtmlElements = "unset" THEN listed
     ELSE [listed EXCEPT !.reportUnsupportedHtmlElements =
                           f.reportUnsupportedHtmlElements = "true"]

\* mutant: support is set before the tags of the file are defined
SupportBeforeTags(s, id) ==
  LET f == s.files[id]
      supported == FoldLeft(LAMBDA t, entry : ApplySupport(t, id, entry), s, f.supportForTags)
      tagged == [supported EXCEPT !.configuration =
                   FoldLeft(AddTagDefinition, @, DefinitionsOf(f, id))]
  IN IF s.configuration.threw \/ tagged.configuration.threw THEN tagged
     ELSE [tagged EXCEPT !.configuration = ApplyHtml(@, f)]
\* updateParser() of one file, after its base files
UpdateParser(s, id) ==
  LET f == s.files[id]
      tagged == [s EXCEPT !.configuration = FoldLeft(AddTagDefinition, @, DefinitionsOf(f, id))]
      supported == FoldLeft(LAMBDA t, entry : ApplySupport(t, id, entry), tagged,
                            f.supportForTags)
  IN IF s.configuration.threw \/ tagged.configuration.threw THEN tagged
     ELSE [supported EXCEPT !.configuration = ApplyHtml(@, f)]

\* clear(), as configureParser() calls it
Cleared(noStandardTags) ==
  FoldLeft(Apply, EmptyConfiguration, IF noStandardTags THEN <<>> ELSE StandardCalls)

FromParserWith(c, noStandardTags) ==
  LET supported == SelectSeq(c.tagDefinitions, LAMBDA d : d \in c.supportedTagDefinitions)
      defined == FoldLeft(AddTagDefinitionToFile, [NewFile EXCEPT !.noStandardTags = noStandardTags],
                          c.tagDefinitions)
      marked == FoldLeft(LAMBDA f, d : SetSupportInFile(f, d.tagName, TRUE), defined, supported)
  IN [FoldSet(LAMBDA e, f : AddHtmlElement(f, e), marked, c.supportedHtmlElements)
        EXCEPT !.reportUnsupportedHtmlElements = FromBoolean(c.reportUnsupportedHtmlElements)]
\* mutant: the standard tags are defined twice
FromParserOverStandard(c) == FromParserWith(c, "unset")
\* loadFromParser(): the definitions are those of the parser, the standard ones among them
FromParser(c) == FromParserWith(c, "true")

-----------------------------------------------------------------------------
\* The types of what the operators above set, and of the JSON that they are given
TagDefinition ==
  [tagName : Names \ InvalidNames, syntaxKind : SyntaxKinds, allowMultiple : BOOLEAN, serial : Nat]
MessageIds ==
  {"FileNotFound", "CyclicExtends", "InvalidJson", "UnresolvedExtends", "UnsupportedSchema",
   "SchemaError", "DuplicateTagName", "InvalidTagName", "UndefinedTag"}
SupportEntry == [tagName : Names, supported : BOOLEAN]
JsonTag == [tagName : Names, syntaxKind : DOMAIN JsonKinds, allowMultiple : Switch]
SettingsJson ==
  [json : {"settings"}, extends : Seq(STRING), noStandardTags : Switch,
   tagDefinitions : Seq(JsonTag), supportForTags : Seq(SupportEntry),
   supportedHtmlElements : Seq(SUBSET HtmlElements), reportUnsupportedHtmlElements : Switch]
ConfigJson == SettingsJson \union [json : {"garbage", "null", "otherSchema", "invalid"}]
=============================================================================
