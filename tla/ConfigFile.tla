----------------------------- MODULE ConfigFile -----------------------------
(***************************************************************************)
(* TSDocConfigFile: loading a tsdoc.json with the files that it extends,   *)
(* while other processes write the same files, and applying the result to  *)
(* a TSDocConfiguration.                                                   *)
(*                                                                         *)
(* loadFile() is one synchronous call, but each of its system calls sees   *)
(* the disk as it is then.  "files" is the heap of TSDocConfigFile objects *)
(* and "stack" the recursion of _loadWithExtends().  disk[p] is the list   *)
(* of everything that was ever in p, the present content last; its length  *)
(* stands for the modification time.                                       *)
(***************************************************************************)
EXTENDS ConfigSettings, Relation

CONSTANTS
  Paths,              \* the paths of files
  RealPath,           \* fs.realpathSync()
  Disks,              \* what is on the disk at first, and what was there before
  Contents,           \* what may be written later
  MaxVersions,        \* bound: how often a file changes
  MaxFiles            \* bound: objects on the heap (LoadEnds shows that loads need fewer)

ASSUME PathsAssumption == NoPath \notin Paths /\ RealPath \in [Paths -> Paths]

Absent == [json |-> "absent"]

\* What is in a file is JSON of some kind, or it is not there
ASSUME DisksAssumption ==
  /\ MaxVersions \in Nat
  /\ \A d \in Disks :
       /\ {RealPath[p] : p \in Paths} \subseteq DOMAIN d
       /\ \A p \in DOMAIN d : d[p] \in Seq(ConfigJson \union {Absent}) /\ Len(d[p]) \in 1 .. MaxVersions
  /\ Contents \subseteq ConfigJson

VARIABLES
  disk,
  files, stack, visited,
  content,            \* configJsonContent
  configuration, pc

loader == <<files, stack, visited, content, configuration, pc>>
vars == <<disk, loader>>

Current(p) == disk[RealPath[p]][Len(disk[RealPath[p]])]
IsPresent(p) == p \in Paths /\ Current(p) # Absent
Time(p) == Len(disk[RealPath[p]])

Init ==
  /\ disk \in Disks
  /\ files = <<>> /\ stack = <<>> /\ visited = {} /\ content = Absent
  /\ configuration = EmptyConfiguration
  /\ pc = "Start"

\* Someone writes, touches or removes a file
Edit(p, c) ==
  /\ Len(disk[p]) < MaxVersions
  /\ disk' = [disk EXCEPT ![p] = Append(@, c)]
  /\ UNCHANGED loader

-----------------------------------------------------------------------------
this == stack[Len(stack)]
thisFile == files[this]

\* Go on with file f in place of thisFile
Become(f, next) == files' = [files EXCEPT ![this] = f] /\ pc' = next

LoadFile(path) ==
  /\ pc = "Start"
  /\ files' = Append(files, [NewFile EXCEPT !.filePath = path])
  /\ stack' = <<Len(files) + 1>>
  /\ visited' = {}
  /\ pc' = "Exists"
  /\ UNCHANGED <<disk, content, configuration>>

FileMissing ==
  /\ pc = "Exists" /\ ~IsPresent(thisFile.filePath)
  /\ Become(Report([thisFile EXCEPT !.fileNotFound = TRUE], <<"FileNotFound">>), "Return")
  /\ UNCHANGED <<disk, stack, visited, content, configuration>>

FileExists ==
  /\ pc = "Exists" /\ IsPresent(thisFile.filePath)
  /\ pc' = "Read"
  /\ UNCHANGED <<disk, files, stack, visited, content, configuration>>

ReadFile ==
  /\ pc = "Read" /\ IsPresent(thisFile.filePath)
  /\ content' = Current(thisFile.filePath)
  /\ Become([thisFile EXCEPT !.version = Time(thisFile.filePath)], "Stat")
  /\ UNCHANGED <<disk, stack, visited, configuration>>

StatFile ==
  /\ pc = "Stat" /\ IsPresent(thisFile.filePath)
  /\ Become([thisFile EXCEPT !.fileMTime = Time(thisFile.filePath)], "Visit")
  /\ UNCHANGED <<disk, stack, visited, content, configuration>>

\* The file was there a moment ago: readFileSync(), statSync() or realpathSync() throws
FileVanished ==
  /\ pc \in {"Read", "Stat", "Visit"} /\ ~IsPresent(thisFile.filePath)
  /\ pc' = "Thrown"
  /\ UNCHANGED <<disk, files, stack, visited, content, configuration>>

\* mutants: only a file that extends itself is circular; a link is another file
ExtendsItself ==
  /\ Len(stack) > 1
  /\ RealPath[thisFile.filePath] = RealPath[files[stack[Len(stack) - 1]].filePath]
WasVisitedByPath == Len(stack) > 1 /\ thisFile.filePath \in visited
WasVisited == Len(stack) > 1 /\ RealPath[thisFile.filePath] \in visited

RejectCircular ==
  /\ pc = "Visit" /\ IsPresent(thisFile.filePath)
  /\ WasVisited
  /\ Become(Report(thisFile, <<"CyclicExtends">>), "Return")
  /\ UNCHANGED <<disk, stack, visited, content, configuration>>

-----------------------------------------------------------------------------
\* JSON that is "null" has no properties to ask for: an exception
ParseFile ==
  /\ pc = "Visit" /\ IsPresent(thisFile.filePath)
  /\ ~WasVisited
  /\ visited' = visited \union {RealPath[thisFile.filePath]}
  /\ CASE content.json = "garbage" -> Become(Report(thisFile, <<"InvalidJson">>), "Return")
       [] content.json = "null" -> Become(thisFile, "Thrown")
       [] OTHER -> Become(LoadJsonObject(thisFile, content), "Extends")
  /\ content' = Absent
  /\ UNCHANGED <<disk, stack, configuration>>

\* Each base file that is done is in extendsFiles, so this is the next one
extendsField == thisFile.extendsPaths[Len(thisFile.extendsFiles) + 1]
hasExtendsField == Len(thisFile.extendsFiles) < Len(thisFile.extendsPaths)

\* resolve.sync() finds no file: the paths that follow are not looked at
UnresolvedExtends ==
  /\ pc = "Extends" /\ hasExtendsField /\ ~IsPresent(extendsField)
  /\ Become(Report(thisFile, <<"UnresolvedExtends">>), "Return")
  /\ UNCHANGED <<disk, stack, visited, content, configuration>>

LoadBaseFile ==
  /\ pc = "Extends" /\ hasExtendsField /\ IsPresent(extendsField)
  /\ Len(files) < MaxFiles
  /\ files' = Append(files, [NewFile EXCEPT !.filePath = extendsField])
  /\ stack' = Append(stack, Len(files) + 1)
  /\ pc' = "Exists"
  /\ UNCHANGED <<disk, visited, content, configuration>>

AllExtended ==
  /\ pc = "Extends" /\ ~hasExtendsField
  /\ pc' = "Return"
  /\ UNCHANGED <<disk, files, stack, visited, content, configuration>>

\* mutant: the errors of a base file stay with it
ReturnWithoutErrors ==
  LET referencing == stack[Len(stack) - 1] IN
  /\ pc = "Return" /\ Len(stack) > 1
  /\ files' = [files EXCEPT ![referencing] = [@ EXCEPT !.extendsFiles = Append(@, this)]]
  /\ stack' = Front(stack) /\ pc' = "Extends"
  /\ UNCHANGED <<disk, visited, content, configuration>>
ReturnBaseFile ==
  LET referencing == stack[Len(stack) - 1]
      unresolved == IF thisFile.fileNotFound THEN <<"UnresolvedExtends">> ELSE <<>>
      merged == Report(files[referencing], unresolved)
  IN /\ pc = "Return" /\ Len(stack) > 1
     /\ files' = [files EXCEPT ![referencing] =
                    [merged EXCEPT !.extendsFiles = Append(@, this),
                                     !.hasErrors = @ \/ thisFile.hasErrors]]
     /\ stack' = Front(stack) /\ pc' = "Extends"
     /\ UNCHANGED <<disk, visited, content, configuration>>

ReturnFile ==
  /\ pc = "Return" /\ Len(stack) = 1
  /\ pc' = "Loaded"
  /\ UNCHANGED <<disk, files, stack, visited, content, configuration>>

Load ==
  \/ FileMissing \/ FileExists \/ ReadFile \/ StatFile \/ FileVanished \/ RejectCircular
  \/ ParseFile \/ UnresolvedExtends \/ LoadBaseFile \/ AllExtended \/ ReturnBaseFile \/ ReturnFile

-----------------------------------------------------------------------------
\* The files in the order in which updateParser() applies them: base files first
Traversal[id \in 1 .. Len(files)] ==
  FlattenSeq([k \in DOMAIN files[id].extendsFiles |-> Traversal[files[id].extendsFiles[k]]])
    \o <<id>>
Tree(id) == {Traversal[id][k] : k \in DOMAIN Traversal[id]}

\* _getNoStandardTagsWithExtends(): the answer of a base file is never undefined,
\* so that the last one decides
NoStandardTags[id \in 1 .. Len(files)] ==
  LET f == files[id]
      n == Len(f.extendsFiles)
  IN IF f.noStandardTags # "unset" THEN f.noStandardTags = "true"
     ELSE n > 0 /\ NoStandardTags[f.extendsFiles[n]]

\* checkForModifiedFiles() of one file, and of those it extends
IsModified(f) ==
  /\ ~f.fileNotFound /\ f.filePath # NoPath
  /\ ~IsPresent(f.filePath) \/ Time(f.filePath) # f.fileMTime
CheckForModifiedFiles(id) == \E j \in Tree(id) : IsModified(files[j])

\* updateParser() of a file and its base files, on a parser with configuration c
UpdateWith(c, id) ==
  FoldLeft(UpdateParser, [configuration |-> [c EXCEPT !.threw = FALSE], files |-> files],
           Traversal[id])

ConfigureParser(id) ==
  \E s \in {UpdateWith(Cleared(NoStandardTags[id]), id)} :
    configuration' = s.configuration /\ files' = s.files

Configure ==
  /\ pc = "Loaded"
  /\ ConfigureParser(stack[1])
  /\ pc' = "Configured"
  /\ UNCHANGED <<disk, stack, visited, content>>

Next ==
  \/ \E p \in DOMAIN disk, c \in Contents \union {Absent} : Edit(p, c)
  \/ \E p \in Paths \union {NoPath} : LoadFile(p)
  \/ Load
  \/ Configure

\* Loading is one synchronous call; nobody has to load, configure or edit files.
Spec == Init /\ [][Next]_vars /\ WF_vars(Load)

-----------------------------------------------------------------------------
File ==
  [filePath : Paths \union {NoPath}, fileNotFound : BOOLEAN, version : 0 .. MaxVersions,
   fileMTime : 0 .. MaxVersions, hasErrors : BOOLEAN, log : Seq(MessageIds),
   extendsPaths : Seq(STRING), extendsFiles : Seq(Nat), noStandardTags : Switch,
   tagDefinitions : Seq(TagDefinition), made : Nat,
   tagDefinitionNames : SUBSET (Names \union {UpperCase[n] : n \in Names}),
   supportForTags : Seq(SupportEntry),
   supportedHtmlElements : Seq(SUBSET HtmlElements), reportUnsupportedHtmlElements : Switch,
   threw : BOOLEAN]

TypeOK ==
  /\ \A p \in DOMAIN disk : Len(disk[p]) \in 1 .. MaxVersions
  /\ files \in Seq(File)
  /\ stack \in Seq(1 .. Len(files)) /\ visited \subseteq Paths
  /\ pc \in {"Start", "Exists", "Read", "Stat", "Visit", "Extends", "Return", "Loaded",
             "Configured", "Thrown"}

\* the root of a load that is over, if there is one
IsLoaded == pc \in {"Loaded", "Configured"}
root == stack[1]
IsRead(f) == ~f.fileNotFound /\ "CyclicExtends" \notin {f.log[k] : k \in DOMAIN f.log}

(***************************************************************************)
(* An error of any file of the tree, however deep, makes every file above  *)
(* it one with errors (getErrorSummary() descends only into those): after  *)
(* loading, hasErrors is true exactly when a log below is not empty.       *)
(***************************************************************************)
ErrorsReachTheRoot ==
  pc = "Loaded" =>
    \A id \in Tree(root) :
      files[id].hasErrors <=> \E j \in Tree(id) : files[j].log # <<>>

\* The base files that the code would follow: up to the first that is not there
Follows(p, q) ==
  LET json == Current(p) IN
  /\ json.json = "settings"
  /\ \E k \in DOMAIN json.extends : /\ \A j \in 1 .. k : IsPresent(json.extends[j])
                                    /\ q = RealPath[json.extends[k]]
Reachable(p) ==
  LET edges == [e \in Paths \X Paths |-> IsPresent(e[1]) /\ Follows(e[1], e[2])]
  IN {q \in Paths : ReflexiveTransitiveClosure(edges, Paths)[p, q]}

(***************************************************************************)
(* Loading is a traversal of the graph of files: on a disk that nobody     *)
(* writes to, every file that the first one reaches, directly or not, is   *)
(* read, and read once, whatever cycles, shared bases and symbolic links   *)
(* the graph has.                                                          *)
(***************************************************************************)
LoadsReachableFiles ==
  (pc = "Loaded" /\ IsPresent(files[root].filePath) /\ disk \in Disks) =>
    LET reads == {id \in Tree(root) : IsRead(files[id])}
        expected == Reachable(RealPath[files[root].filePath])
    IN /\ {RealPath[files[id].filePath] : id \in reads} = expected
       /\ Cardinality(reads) = Cardinality(expected)

\* The last value that the files of the tree give, in their order, or none
LastGiven(Gives(_)) ==
  LET ids == SelectSeq(Traversal[root], LAMBDA id : Gives(files[id]) # <<>>)
  IN IF ids = <<>> THEN <<>> ELSE Gives(files[ids[Len(ids)]])

\* The exception to that rule for noStandardTags: the file, the last of its base files,
\* the last of that one's, and so on, say nothing; what earlier base files say is lost
EndsSilent[id \in 1 .. Len(files)] ==
  LET n == Len(files[id].extendsFiles) IN
  /\ files[id].noStandardTags = "unset"
  /\ n > 0 => EndsSilent[files[id].extendsFiles[n]]

\* The standard tags are defined unless the last file that mentions noStandardTags sets it
ExpectsStandardTags ==
  \/ LastGiven(LAMBDA f : IF f.noStandardTags = "unset" THEN <<>> ELSE <<f.noStandardTags>>) # <<"true">>
  \/ EndsSilent[root]

\* Every definition that the files would make, with the file's place in the traversal
AllDefinitions ==
  (IF ExpectsStandardTags THEN {<<0, StandardTags[i]>> : i \in DOMAIN StandardTags} ELSE {})
    \union UNION {{<<k, DefinitionsOf(files[Traversal[root][k]], Traversal[root][k])[i]>> :
                     i \in DOMAIN files[Traversal[root][k]].tagDefinitions} :
                  k \in DOMAIN Traversal[root]}

\* What the k-th file of the traversal, and it alone, says of a definition
SupportGiven(k, d) ==
  LET entries == SelectSeq(files[Traversal[root][k]].supportForTags,
                           LAMBDA entry : UpperCase[entry.tagName] = Key(d))
  IN IF entries = <<>> THEN "unset" ELSE IF entries[Len(entries)].supported THEN "true" ELSE "false"

DefinesTwice == \E d, e \in AllDefinitions : d # e /\ Key(d[2]) = Key(e[2])

\* All definitions; for each, the support that the last file says that comes no
\* earlier than the definition; the last list of HTML elements; and the last
\* word on reporting them, which a list gives too
HasSettings(c) ==
  LET supporters(d) == {k \in DOMAIN Traversal[root] : k >= d[1] /\ SupportGiven(k, d[2]) # "unset"}
      elements == LastGiven(LAMBDA f : f.supportedHtmlElements)
      reports == LastGiven(LAMBDA f :
                   CASE f.reportUnsupportedHtmlElements # "unset" ->
                          <<f.reportUnsupportedHtmlElements = "true">>
                     [] f.supportedHtmlElements # <<>> -> <<TRUE>>
                     [] OTHER -> <<>>)
  IN /\ ToSet(c.tagDefinitions) = {d[2] : d \in AllDefinitions}
     /\ c.supportedTagDefinitions =
          {d[2] : d \in {e \in AllDefinitions :
                          supporters(e) # {} /\ SupportGiven(Max(supporters(e)), e[2]) = "true"}}
     /\ c.supportedHtmlElements = IF elements = <<>> THEN {} ELSE elements[1]
     /\ c.reportUnsupportedHtmlElements = (reports = <<TRUE>>)

(***************************************************************************)
(* What the parser gets is what the tree of files says, in the order of a  *)
(* depth-first traversal, later files overriding earlier ones.  The code   *)
(* departs from what TSDocConfigFile.ts:160 says of noStandardTags in one  *)
(* case, EndsSilent: a last base file that says nothing overrides one that *)
(* said "true", and the standard tags are defined.  configureParser()      *)
(* throws exactly if two of the definitions, of any two files or of a file *)
(* and the standard, have one name.  Applying the files again changes      *)
(* nothing, unless there were errors: then a base file may set support for *)
(* a tag that was not defined yet.                                         *)
(***************************************************************************)
SettingsFollowTraversal ==
  pc = "Configured" =>
    /\ configuration.threw <=> DefinesTwice
    /\ ~configuration.threw => HasSettings(configuration)
    /\ ~configuration.threw /\ (\A id \in Tree(root) : files[id].log = <<>>)
         => UpdateWith(configuration, root).configuration = configuration

\* Every load ends, with a file or an exception, whatever the files refer to.
LoadEnds == (pc = "Exists") ~> (pc \in {"Loaded", "Thrown"})

(***************************************************************************)
(* The error for circular references is about "a chain of references that  *)
(* causes a file to indirectly extend itself".                             *)
(***************************************************************************)
OnlyCyclesAreCircular ==
  (IsLoaded /\ disk \in Disks) =>
    \A id \in Tree(root) :
      ~IsRead(files[id]) /\ ~files[id].fileNotFound =>
        LET p == RealPath[files[id].filePath] IN \E q \in Paths : Follows(p, q) /\ p \in Reachable(q)
=============================================================================
