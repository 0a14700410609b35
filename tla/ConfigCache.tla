---------------------------- MODULE ConfigCache ----------------------------
(***************************************************************************)
(* The ESLint rule: ConfigCache.getForSourceFile() and the part of         *)
(* create() that configures the parser, for one source file after another, *)
(* while time passes and other processes write the configuration files.    *)
(*                                                                         *)
(* Loading and configuring are ConfigFile's own steps: a lint takes time,  *)
(* and the clock that the cache compares with was read at its start.       *)
(***************************************************************************)
EXTENDS ConfigFile

CONSTANTS
  Parent,             \* from folder to the folder that it is in; a root is in itself
  Projects,           \* the folders that hold a tsconfig.json or a package.json
  TSDocJson,          \* the path of tsdoc.json in a folder
  SourceFolders,      \* where there are source files
  RootDirs,           \* the values of the tsconfigRootDir setting, NoFolder for none
  NoFolder,
  CheckInterval,      \* CACHE_CHECK_INTERVAL_MS
  Expire,             \* CACHE_EXPIRE_MS
  MaxSize,            \* CACHE_MAX_SIZE
  Horizon,            \* bound: the end of time
  MaxLog              \* bound: messages in a log when a lint begins

Folders == DOMAIN Parent

ASSUME FoldersAssumption ==
  /\ Parent \in [Folders -> Folders] /\ Projects \union SourceFolders \subseteq Folders
  /\ TSDocJson \in [Folders -> Paths]
  /\ NoFolder \notin Folders /\ RootDirs \subseteq Folders \union {NoFolder}
\* The way up from a folder ends at a root
ASSUME TreeAssumption ==
  /\ IsFiniteSet(Folders)
  /\ \E depth \in [Folders -> 0 .. Cardinality(Folders)] :
       \A f \in Folders : Parent[f] = f \/ depth[Parent[f]] < depth[f]
ASSUME LimitsAssumption == MaxSize \in Nat /\ Horizon \in Nat
ASSUME TimesAssumption == CheckInterval \in Nat /\ Expire \in Nat /\ CheckInterval < Expire

VARIABLES
  now,
  changed,            \* changed[p][v]: when disk[p] came to its v-th content
  cachedConfigs,      \* from cache key to entry
  request,            \* of the lint that runs
  reported            \* what the lint has told ESLint

cacheVars == <<now, changed, cachedConfigs, request, reported>>
allVars == <<vars, cacheVars>>

NoRequest == [key |-> NoPath, now |-> 0, step |-> "none"]
Request(key, step) == [key |-> key, now |-> now, step |-> step]

CacheInit ==
  /\ Init
  /\ now = 0
  /\ changed = [p \in DOMAIN disk |-> [v \in DOMAIN disk[p] |-> 0]]
  /\ cachedConfigs = <<>>
  /\ request = NoRequest
  /\ reported = {}

Tick ==
  /\ now < Horizon
  /\ now' = now + 1
  /\ UNCHANGED <<vars, changed, cachedConfigs, request, reported>>

EditNow(p, c) ==
  /\ Edit(p, c)
  /\ changed' = [changed EXCEPT ![p] = Append(@, now)]
  /\ UNCHANGED <<now, cachedConfigs, request, reported>>

-----------------------------------------------------------------------------
\* The search goes up to the first project, and gives up at the root
FindConfigPathForFolder[folder \in Folders] ==
  CASE folder \in Projects -> TSDocJson[folder]
    [] Parent[folder] = folder -> NoPath
    [] OTHER -> FindConfigPathForFolder[Parent[folder]]

\* Where the configuration of a source file is looked for
Source(folder, rootDir) ==
  LET path == IF rootDir = NoFolder THEN FindConfigPathForFolder[folder] ELSE TSDocJson[rootDir]
  IN [path |-> path, key |-> IF path = NoPath THEN folder ELSE path]

IsCached(key) == key \in DOMAIN cachedConfigs
\* mutant: an entry that is not valid any more stays until it is overwritten
KeepEntry(key) == cachedConfigs
Without(key) == [k \in DOMAIN cachedConfigs \ {key} |-> cachedConfigs[k]]

IsExpired(entry) == now - entry.loadTime > Expire
\* mutant: the time of the last check is compared with the wrong limit
IsHardlyDue(entry) == now - entry.lastCheckTime > Expire
IsDue(entry) == now - entry.lastCheckTime > CheckInterval

Answer(key, caches) ==
  /\ cachedConfigs' = caches
  /\ stack' = <<cachedConfigs[key].configFile>>
  /\ pc' = "Loaded"
  /\ request' = Request(key, "answered")
  /\ UNCHANGED <<disk, files, visited, content, configuration, now, changed, reported>>

\* mutant: the cache is never emptied
MissWithoutClear(source, caches) ==
  /\ cachedConfigs' = caches
  /\ LoadFile(source.path)
  /\ request' = Request(source.key, "loading")
  /\ UNCHANGED <<now, changed, reported>>
Miss(source, caches) ==
  /\ cachedConfigs' = IF Cardinality(DOMAIN caches) > MaxSize THEN <<>> ELSE caches
  /\ LoadFile(source.path)
  /\ request' = Request(source.key, "loading")
  /\ UNCHANGED <<now, changed, reported>>

\* A lint starts only while the heap has room for another tree; and the log of a
\* cached file, which each lint adds to, is not too long
HasRoom ==
  /\ Len(files) + 3 <= MaxFiles
  /\ \A id \in DOMAIN files : Len(files[id].log) <= MaxLog

Hit(key) ==
  /\ pc = "Start" /\ HasRoom
  /\ IsCached(key) /\ ~IsExpired(cachedConfigs[key]) /\ ~IsDue(cachedConfigs[key])
  /\ Answer(key, cachedConfigs)

CheckedHit(key) ==
  /\ pc = "Start" /\ HasRoom
  /\ IsCached(key) /\ ~IsExpired(cachedConfigs[key]) /\ IsDue(cachedConfigs[key])
  /\ ~CheckForModifiedFiles(cachedConfigs[key].configFile)
  /\ Answer(key, [cachedConfigs EXCEPT ![key].lastCheckTime = now])

EvictModified(source) ==
  LET key == source.key IN
  /\ pc = "Start" /\ HasRoom
  /\ IsCached(key) /\ ~IsExpired(cachedConfigs[key]) /\ IsDue(cachedConfigs[key])
  /\ CheckForModifiedFiles(cachedConfigs[key].configFile)
  /\ Miss(source, Without(key))

EvictExpired(source) ==
  /\ pc = "Start" /\ HasRoom
  /\ IsCached(source.key) /\ IsExpired(cachedConfigs[source.key])
  /\ Miss(source, Without(source.key))

FirstLoad(source) ==
  /\ pc = "Start" /\ HasRoom
  /\ ~IsCached(source.key)
  /\ Miss(source, cachedConfigs)

Entry == [configFile |-> stack[1], loadTime |-> request.now, lastCheckTime |-> request.now]

Store ==
  /\ pc = "Loaded" /\ request.step = "loading"
  /\ cachedConfigs' = Put(cachedConfigs, request.key, Entry)
  /\ request' = [request EXCEPT !.step = "answered"]
  /\ UNCHANGED <<vars, now, changed, reported>>

-----------------------------------------------------------------------------
\* mutant: the errors of the files that it extends are not reported
ReportOwnErrors ==
  /\ pc = "Loaded" /\ request.step = "answered"
  /\ reported' = IF ~files[stack[1]].fileNotFound /\ files[stack[1]].log # <<>>
                   THEN {"ErrorLoading"} ELSE {}
  /\ request' = [request EXCEPT !.step = "reported"]
  /\ UNCHANGED <<vars, now, changed, cachedConfigs>>
\* The errors of the file are reported before it is applied
ReportErrors ==
  /\ pc = "Loaded" /\ request.step = "answered"
  /\ reported' = IF ~files[stack[1]].fileNotFound /\ files[stack[1]].hasErrors
                   THEN {"ErrorLoading"} ELSE {}
  /\ request' = [request EXCEPT !.step = "reported"]
  /\ UNCHANGED <<vars, now, changed, cachedConfigs>>

ConfigureLint ==
  /\ request.step = "reported" /\ ~files[stack[1]].fileNotFound
  /\ Configure
  /\ reported' = reported \union (IF configuration'.threw THEN {"ErrorApplying"} ELSE {})
  /\ request' = [request EXCEPT !.step = "linted"]
  /\ UNCHANGED <<now, changed, cachedConfigs>>

\* Without a file the parser keeps what its constructor gave it
KeepDefaults ==
  /\ pc = "Loaded" /\ request.step = "reported" /\ files[stack[1]].fileNotFound
  /\ configuration' = Cleared(FALSE)
  /\ pc' = "Configured"
  /\ request' = [request EXCEPT !.step = "linted"]
  /\ UNCHANGED <<disk, files, stack, visited, content, now, changed, cachedConfigs, reported>>

LoadThrew ==
  /\ pc = "Thrown"
  /\ reported' = {"ErrorLoading"}
  /\ request' = [request EXCEPT !.step = "linted"]
  /\ configuration' = Cleared(FALSE)
  /\ pc' = "Configured"
  /\ UNCHANGED <<disk, files, stack, visited, content, now, changed, cachedConfigs>>

EndLint ==
  /\ pc = "Configured"
  /\ pc' = "Start"
  /\ stack' = <<>> /\ visited' = {} /\ content' = Absent
  /\ configuration' = EmptyConfiguration
  /\ request' = NoRequest /\ reported' = {}
  /\ UNCHANGED <<disk, files, now, changed, cachedConfigs>>

GetForSourceFile(source) ==
  Hit(source.key) \/ CheckedHit(source.key) \/ EvictModified(source) \/ EvictExpired(source)
    \/ FirstLoad(source)

Lint ==
  \/ Load /\ UNCHANGED cacheVars
  \/ Store \/ ReportErrors \/ ConfigureLint \/ KeepDefaults \/ LoadThrew \/ EndLint

CacheNext ==
  \/ Tick
  \/ \E p \in DOMAIN disk, c \in Contents \union {Absent} : EditNow(p, c)
  \/ \E f \in SourceFolders, r \in RootDirs : GetForSourceFile(Source(f, r))
  \/ Lint

CacheSpec == CacheInit /\ [][CacheNext]_allVars

-----------------------------------------------------------------------------
CacheTypeOK ==
  /\ TypeOK
  /\ now \in 0 .. Horizon
  /\ \A p \in DOMAIN disk : Len(changed[p]) = Len(disk[p])
  /\ \A k \in DOMAIN cachedConfigs :
       cachedConfigs[k] \in [configFile : 1 .. Len(files), loadTime : 0 .. Horizon,
                             lastCheckTime : 0 .. Horizon]
  /\ request.step \in {"none", "loading", "answered", "reported", "linted"}

\* The v-th content of p was there at the time "from", or later
WasThere(p, v, from) ==
  LET real == RealPath[p] IN v = Len(disk[real]) \/ changed[real][v + 1] >= from
\* ... when the file was read between two changes of it
Raced(f) == f.version < f.fileMTime

(***************************************************************************)
(* How old an answer can be.  At any time, what it says of a file was true *)
(* when the lint began, or at most Expire earlier; and at most             *)
(* CheckInterval earlier if the file exists, unless it was written in the  *)
(* moment between being read and being stat-ed.                            *)
(***************************************************************************)
AnswersAreFresh ==
  (pc = "Loaded" /\ request.step = "answered") =>
    \A id \in Tree(root) :
      LET f == files[id] IN
      /\ f.version # 0 => WasThere(f.filePath, f.version, request.now - Expire)
      /\ f.version # 0 /\ ~Raced(f) =>
           WasThere(f.filePath, f.version, request.now - CheckInterval)
      /\ f.fileNotFound /\ f.filePath # NoPath =>
           \E v \in DOMAIN disk[RealPath[f.filePath]] :
             /\ disk[RealPath[f.filePath]][v] = Absent
             /\ WasThere(f.filePath, v, request.now - Expire)

(***************************************************************************)
(* The cache holds whole loads, and not too many: an entry is the result   *)
(* of loading the file of its key to the end, an exception in the middle   *)
(* leaves none, and a reload never leaves the old one.  There is at most   *)
(* one more than MaxSize, whichever expire and are added meanwhile, since  *)
(* the size is compared before one is added.                               *)
(***************************************************************************)
EntriesAreWholeLoads ==
  /\ CacheTypeOK
  /\ Cardinality(DOMAIN cachedConfigs) <= MaxSize + 1
  /\ \A k \in DOMAIN cachedConfigs :
       LET f == files[cachedConfigs[k].configFile] IN
       /\ f.filePath = k \/ (f.filePath = NoPath /\ k \in SourceFolders)
       /\ Len(f.extendsFiles) < Len(f.extendsPaths) => f.hasErrors
       /\ pc \notin {"Start", "Loaded", "Configured"} => k # request.key

(***************************************************************************)
(* If an error was found when the configuration was loaded, in whichever   *)
(* of its files, or if the load threw, then every lint that is answered    *)
(* with it has reported the configuration when it is over, however often   *)
(* the cache answered in between.  Tags that are not defined do not count: *)
(* they are found when the file is applied, which is after the report.     *)
(***************************************************************************)
LintReportsErrors ==
  pc = "Configured" =>
    /\ (~files[root].fileNotFound /\ \E id \in Tree(root) :
                                       ToSet(files[id].log) \ {"UndefinedTag"} # {})
         => reported # {}
    /\ Len(files[root].extendsFiles) < Len(files[root].extendsPaths) => reported # {}
=============================================================================
