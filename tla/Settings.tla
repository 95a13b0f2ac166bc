------------------------------- MODULE Settings -------------------------------
(***************************************************************************)
(* The settings of the native program (config.cpp) and the text file they  *)
(* are kept in (IniFile): loaded and written back at start, where sites of *)
(* an older version are converted, and rewritten whole by every save.      *)
(*                                                                         *)
(* An address is represented by its scheme, a password by how long it is;  *)
(* user name and kind of HTTP server are stored like the default directory *)
(* and left out, as are the settings of the web server and the API keys,   *)
(* which are stored like temp_folder.                                      *)
(***************************************************************************)
EXTENDS IniFile

CONSTANTS
  sites,        (* the names of the sites, 20 in the program                *)
  Typed,        (* site -> the addresses the user may enter for it          *)
  TypedSecrets, (* site -> the passwords the user may enter for it          *)
  Visited,      (* site -> the directories the user may make its default    *)
  Folders,      (* the local directories the user may enter or choose       *)
  Old,          (* site -> its settings in a file of the older version      *)
  MaxMishaps    (* bound: how many mishaps there are                        *)

Sites == ToSet(sites)
Urls  == {"", "ftp", "http", "webdav", "[address]", "cut"}
Passwords == {"", "short", "long", "cut"}
Directories == {"", "default", "chosen", "[directory]", "cut"}

ASSUME SettingsAssumption ==
  /\ sites \in Seq(STRING \ ({"Global"} \cup Bracketed))
  /\ sites # <<>>
  /\ Typed \in [Sites -> SUBSET (Urls \ {"cut"})]
  /\ TypedSecrets \in [Sites -> SUBSET (Passwords \ {"cut"})]
  /\ Visited \in [Sites -> SUBSET (Directories \ {"cut"})]
  /\ Folders \subseteq Directories \ {"cut"}
  /\ Old \in [Sites -> [url : Urls \ {"cut"}, password : Passwords \ {"cut"},
                       directory : Directories \ {"cut"}]]
  /\ MaxMishaps \in Nat

VARIABLES
  running,
  disk,         (* the lines of config.ini                                  *)
  site_settings,
  last_site,
  temp_folder,
  saved,        (* history: what was saved last, while the file is intact   *)
  damaged,      (* history: has the file lost lines, or its version, or is
                   it read as another, since a start has written it?        *)
  versionLost,  (* history: and does that leave a file without a version?   *)
  turned,       (* history: the sites whose address a start has converted
                   from such a file                                         *)
  mishaps       (* history: how often each kind of mishap has happened      *)

memory == <<site_settings, last_site, temp_folder>>
past == <<saved, damaged, versionLost, turned>>
settingsVars == <<running, disk, memory, past, mishaps>>

-------------------------------------------------------------------------------
(* Values.                                                                 *)

\* CONFIG::Encrypt in base64.  No cipher is stored for an empty password.
Encrypt(password) == [cipher |-> password # "", text |-> password]

\* LoadConfig reads at most 127 characters, and a long password (80 or more) has a
\* cipher of 128 or more.  What cannot be decrypted is taken for a plain password.
Decrypt(value) == IF value.cipher /\ value.text \in {"long", "cut"} THEN "cut" ELSE value.text

\* A site of the older version: http:// and https:// stood for WebDAV.
Converted(url) == IF url = "http" THEN "webdav" ELSE url

-------------------------------------------------------------------------------
(* config.cpp: what a file says, and how it is written back.               *)

ConversionNeeded(lines) == ReadString(lines, "Global", "version", Plain("0")) = Plain("0")

StoredUrl(lines, s) == ReadString(lines, s, "url", Plain("")).text

LoadedUrl(lines, s) ==
  IF ConversionNeeded(lines) THEN Converted(StoredUrl(lines, s)) ELSE StoredUrl(lines, s)

LoadedSite(lines, s) ==
  [url |-> LoadedUrl(lines, s),
   password |-> Decrypt(ReadString(lines, s, "password", Plain(""))),
   directory |-> ReadString(lines, s, "directory", Plain("default")).text]

FirstSite == sites[1]

LoadedLastSite(lines) == ReadString(lines, "Global", "last_site", Plain(FirstSite)).text

LoadedFolder(lines) == ReadString(lines, "Global", "temp_folder", Plain("default")).text

\* All that a start of the program takes from the file.
Loaded(lines) ==
  [sites |-> [s \in Sites |-> LoadedSite(lines, s)],
   last |-> LoadedLastSite(lines),
   folder |-> LoadedFolder(lines)]

WriteSite(text, s, setting) ==
  WriteString(WriteString(WriteString(text, s, "url", Plain(setting.url)),
                          s, "password", Encrypt(setting.password)),
              s, "directory", Plain(setting.directory))

WriteFolder(text, folder) == WriteString(text, "Global", "temp_folder", Plain(folder))

WriteLocal(text, directory) == WriteString(text, "Global", "local_directory", Plain(directory))

WriteLastSite(text, s) == WriteString(text, "Global", "last_site", Plain(s))

\* MUTANT of WriteVersion: the file stays of the older version.
WriteNoVersion(text) == text

WriteVersion(text) == WriteString(text, "Global", "version", Plain("1"))

\* The text after the loop has written the first n sites.
WriteSites(text, settings) ==
  LET written[n \in 0..Len(sites)] ==
        IF n = 0 THEN text
        ELSE WriteSite(written[n - 1], sites[n], settings[sites[n]])
  IN  written[Len(sites)]

\* The order of the writes in LoadConfig.
WrittenBack(text, loaded) ==
  WriteLastSite(
    WriteSites(WriteFolder(WriteLocal(WriteVersion(text), "default"), loaded.folder),
               loaded.sites),
    loaded.last)

-------------------------------------------------------------------------------
(* The file and its mishaps.                                               *)

NotRunning == [sites |-> [s \in Sites |-> [url |-> "", password |-> "", directory |-> ""]],
               last |-> FirstSite, folder |-> "default"]

Mishaps == {"unread", "unwritten", "cut", "full", "brackets"}

Happens(kind) ==
  /\ mishaps["unread"] + mishaps["unwritten"] + mishaps["cut"] + mishaps["full"]
       + mishaps["brackets"] < MaxMishaps
  /\ mishaps' = [mishaps EXCEPT ![kind] = @ + 1]

\* What OpenIniFile makes of the file.
Opened(lines) == TextOf(lines).lines

\* The file is not what was saved, from here until a start has written it back; and has
\* it no version, once these lines are written?
Damages(lines) ==
  /\ damaged' = TRUE
  /\ saved' = NotRunning
  /\ versionLost' = (versionLost \/ ConversionNeeded(Opened(lines)))

\* The writes are buffered, and the section "Global" with all before it goes to
\* the file in one piece.
FirstPiece(lines) == SectionEnd(lines, "Global")

\* What can be left of a line the file ends in.  Without "]" a key is one again.
CutLine(line) ==
  {Comment} \cup
  (IF line.type = "key" \/ line.value.text \in Bracketed
   THEN {[line EXCEPT !.type = "key", !.value = Plain(v)] : v \in {"", "cut"}}
   ELSE {})

\* What can be left of a file whose writing is cut off.
CutFiles(lines) ==
  LET places == FirstPiece(lines)..Len(lines)
  IN  {<<>>}
      \cup {SubSeq(lines, 1, n) : n \in places}
      \cup UNION {{Append(SubSeq(lines, 1, n), rest) : rest \in CutLine(lines[n + 1])} :
                    n \in places \ {Len(lines)}}

Remember(all) ==
  /\ site_settings' = all.sites
  /\ last_site' = all.last
  /\ temp_folder' = all.folder

OldFile ==
  WrittenBack(NoText, [sites |-> Old, last |-> FirstSite, folder |-> "chosen"]).lines

\* The file of the older version has no version and its passwords in clear.
OldLine(line) ==
  IF line.type = "key" /\ line.name = "version" THEN Comment
  ELSE [line EXCEPT !.value = Plain(@.text)]

SettingsInit ==
  /\ disk \in {<<>>, [i \in DOMAIN OldFile |-> OldLine(OldFile[i])]}
  /\ running = FALSE
  /\ site_settings = NotRunning.sites
  /\ last_site = NotRunning.last
  /\ temp_folder = NotRunning.folder
  /\ saved = Loaded(Opened(disk))
  /\ damaged = FALSE
  /\ versionLost = FALSE
  /\ turned = {}
  /\ mishaps = [kind \in Mishaps |-> 0]

-------------------------------------------------------------------------------
(* The operations.  Each opens the file, changes its lines in memory and   *)
(* writes all of them.                                                     *)

\* WriteIniFile when the file cannot be opened.
NotWritten ==
  /\ Happens("unwritten")
  /\ UNCHANGED disk

\* WriteIniFile when the disk is full after fopen has emptied the file: it does not look
\* at the results of fprintf and fclose, and the program goes on.
WrittenInPart(lines) ==
  /\ Happens("full")
  /\ disk' \in CutFiles(lines)
  /\ Damages(disk')

\* The program dies in WriteIniFile, after fopen has emptied the file.
DiesWriting(lines) ==
  /\ Happens("cut")
  /\ disk' \in CutFiles(lines)
  /\ Damages(lines)
  /\ running' = FALSE
  /\ Remember(NotRunning)

\* The sites whose address a start converts although their file was not of the older
\* version.
Turned(lines) ==
  IF versionLost THEN {s \in Sites : LoadedUrl(lines, s) # StoredUrl(lines, s)} ELSE {}

\* LoadConfig, at the start of the program.
LoadConfig ==
  /\ ~running
  /\ \E misread \in BOOLEAN :
       LET text   == IF misread THEN NoText ELSE TextOf(disk)
           loaded == Loaded(text.lines)
           new    == WrittenBack(text, loaded).lines
       IN  /\ turned' = turned \cup Turned(text.lines)
           /\ \/ /\ running' = TRUE
                 /\ Remember(loaded)
                 /\ \/ /\ IF misread THEN Happens("unread") ELSE UNCHANGED mishaps
                       /\ disk' = new
                       /\ saved' = IF misread \/ damaged THEN loaded ELSE saved
                       /\ damaged' = FALSE
                       /\ versionLost' = FALSE
                    \/ /\ ~misread
                       /\ NotWritten
                       /\ IF ConversionNeeded(text.lines) THEN Damages(disk)
                          ELSE UNCHANGED <<saved, damaged, versionLost>>
                    \/ ~misread /\ WrittenInPart(new)
              \/ ~misread /\ DiesWriting(new)

\* Is the file read as it was written?
Settled(lines) == Opened(lines) = lines

\* A save writes the lines of the file with its changes, or its own lines alone when it
\* cannot read the file; now is what has been saved then.
Save(new, alone, now, settings) ==
  /\ running
  /\ UNCHANGED turned
  /\ \/ /\ site_settings' = settings
        /\ UNCHANGED <<running, last_site, temp_folder>>
        /\ \/ /\ Settled(new)
              /\ disk' = new
              /\ saved' = IF damaged THEN saved ELSE now
              /\ UNCHANGED <<damaged, versionLost, mishaps>>
           \/ /\ ~Settled(new)
              /\ Happens("brackets")
              /\ disk' = new
              /\ Damages(new)
           \/ /\ Happens("unread")
              /\ disk' = alone
              /\ Damages(disk')
           \/ NotWritten /\ UNCHANGED <<saved, damaged, versionLost>>
           \/ WrittenInPart(new)
     \/ DiesWriting(new)

SaveSite(settings) ==
  LET setting == settings[last_site]
      Edit(text) == WriteLastSite(WriteSite(text, last_site, setting), last_site)
  IN  Save(Edit(TextOf(disk)).lines, Edit(NoText).lines,
           [saved EXCEPT !.sites[last_site] = setting, !.last = last_site], settings)

\* By Connect.
SaveConfig == SaveSite(site_settings)

\* The remote directory is made the default of its site.
SetDefaultRemoteFolder ==
  \E directory \in Visited[last_site] :
    SaveSite([site_settings EXCEPT ![last_site].directory = directory])

\* When the settings dialog is closed.
SaveGlobalConfig ==
  Save(WriteFolder(TextOf(disk), temp_folder).lines, WriteFolder(NoText, temp_folder).lines,
       [saved EXCEPT !.folder = temp_folder], site_settings)

SaveLocalDirecotry ==
  \E directory \in Folders :
    Save(WriteLocal(TextOf(disk), directory).lines, WriteLocal(NoText, directory).lines,
         saved, site_settings)

SelectSite(s) ==
  /\ running
  /\ last_site' = s
  /\ UNCHANGED <<running, disk, site_settings, temp_folder, past, mishaps>>

EnterSetting(field, values) ==
  /\ running
  /\ \E value \in values :
       site_settings' = [site_settings EXCEPT ![last_site][field] = value]
  /\ UNCHANGED <<running, disk, last_site, temp_folder, past, mishaps>>

EnterServer   == EnterSetting("url", Typed[last_site])
EnterPassword == EnterSetting("password", TypedSecrets[last_site])

EnterFolder ==
  /\ running
  /\ temp_folder' \in Folders
  /\ UNCHANGED <<running, disk, site_settings, last_site, past, mishaps>>

\* The program ends, by the user or by itself; it saves nothing then.
Exit ==
  /\ running
  /\ running' = FALSE
  /\ Remember(NotRunning)
  /\ UNCHANGED <<disk, past, mishaps>>

SettingsNext ==
  \/ LoadConfig \/ SaveConfig \/ SetDefaultRemoteFolder \/ SaveGlobalConfig
  \/ SaveLocalDirecotry
  \/ \E s \in Sites : SelectSite(s)
  \/ EnterServer \/ EnterPassword \/ EnterFolder
  \/ Exit

SettingsSpec == SettingsInit /\ [][SettingsNext]_settingsVars

-------------------------------------------------------------------------------
(* Properties.                                                             *)

\* A saved password of 80 characters or more comes back as a piece of its cipher.
Kept(setting) ==
  [setting EXCEPT !.password = IF @ = "long" THEN "cut" ELSE @]

\* The next start loads what was saved last, of every site and of the program: no
\* save touches what belongs to another, no start converts an address again, and
\* ciphers are undone, except in a file of the older version, which has none.  Only a
\* file that was cut off, by the program's death or a full disk, that could not be read
\* before it was rewritten, was left without a version by a start, or in which a value
\* with brackets was saved, may be loaded otherwise, until a start has written it back.
SavedIsLoaded ==
  ~damaged =>
    LET lines == Opened(disk)
    IN  Loaded(lines) = IF ConversionNeeded(lines) THEN saved
                        ELSE [saved EXCEPT !.sites = [s \in Sites |-> Kept(@[s])]]

\* The program connects to addresses the user entered for the site, to what the
\* conversion of the older version made of them, or to a piece of one after the writing
\* was cut off.  An HTTP server entered today becomes a WebDAV server only when a start
\* finds the file without a version, after a save that could not read it, a start that
\* could not write it, a full disk that left it empty, or a save of a value with brackets
\* that hides the version: never by the death of the program, at whatever place, nor
\* after a start has written the file again.
OnlyEntered ==
  \A s \in Sites :
    \/ site_settings[s].url \in Typed[s] \cup {"", Converted(Old[s].url)}
    \/ site_settings[s].url = "cut" /\ mishaps["cut"] + mishaps["full"] > 0
    \/ s \in turned /\ \E url \in Typed[s] : site_settings[s].url = Converted(url)

Complete(lines) ==
  /\ \A key \in {"version", "temp_folder", "local_directory", "last_site"} :
       FindpKey(lines, "Global", key) # 0
  /\ \A s \in Sites, key \in {"url", "password", "directory"} : FindpKey(lines, s, key) # 0

EndsInSection(lines) == lines # <<>> /\ Last(lines).type = "section"

\* A start that can write completes the file, whatever had been lost or hidden of it, so
\* that the version is known from then on.  Only keys added to a section without lines at
\* the end of the file are dropped again by the section that follows them.
LoadCompletes ==
  [][~running /\ running' /\ mishaps'["unwritten"] = mishaps["unwritten"]
       /\ mishaps'["full"] = mishaps["full"] /\ ~EndsInSection(Opened(disk)) =>
       Complete(Opened(disk'))]_settingsVars

===============================================================================
