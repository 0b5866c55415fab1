-------------------------------- MODULE Settings --------------------------------
(***************************************************************************)
(* SettingsManager and the settings of NebulaAtom: main constructs the     *)
(* application, may add settings of its own, reads the file and sets the   *)
(* application up, in the order and as often as it likes.                  *)
(***************************************************************************)
EXTENDS DValues, Sequences

CONSTANTS
    BasicSettings,    \* AddBasicSettings_: sequence of name, type and value
    OwnSettings,      \* settings main may add
    Defaults,         \* the value each GetSetting_ asks with
    CredentialNames,  \* db_host, db_port, db_name, db_user, db_password
    SettingsFiles,    \* versions of properties.yaml: a node for each name
    NoFile            \* there is none, or it cannot be parsed

SettingNames ==
    {BasicSettings[i].name : i \in DOMAIN BasicSettings} \cup {s.name : s \in OwnSettings}

SettingSet == [name : SettingNames, type : STRING, value : [type : STRING, val : Int]]

\* A setting is added with the type of its value.  A node is a scalar or not (or
\* not there); a scalar converts to some types.
ASSUME SettingsAssumption ==
    /\ BasicSettings \in Seq(SettingSet) /\ OwnSettings \subseteq SettingSet
    /\ \A i \in DOMAIN BasicSettings : BasicSettings[i].type = BasicSettings[i].value.type
    /\ \A s \in OwnSettings : s.type = s.value.type
    /\ \A name \in DOMAIN Defaults : Defaults[name] \in [type : STRING, val : Int]
    /\ \A name \in CredentialNames :
          /\ name \in DOMAIN Defaults
          /\ \E i \in DOMAIN BasicSettings : BasicSettings[i].name = name
    /\ NoFile \notin SettingsFiles
    /\ \A f \in SettingsFiles : \A name \in SettingNames :
          \A type \in DOMAIN f[name].as : f[name].as[type] \in Int

VARIABLES
    settings,     \* settings_
    credentials,  \* those of SessionsManager and PermissionsManager
    file,         \* properties.yaml
    \* history
    lastRead,     \* the file ReadSettings_ read last, and how many settings there were
    behind        \* settings may have changed since SetupSettings_

settingsVars == <<settings, credentials, file, lastRead, behind>>

\* GetSetting_ with a value to fall back on: the first setting of the name, if
\* it has the type of that value.
GetSettingOf(list, name) ==
    LET found == {i \in DOMAIN list : list[i].name = name}
        first == CHOOSE i \in found : \A j \in found : i <= j
    IN  IF found = {} \/ list[first].type # Defaults[name].type THEN Defaults[name]
        ELSE Get(list[first].value, Defaults[name].type)

GetSetting(name) == GetSettingOf(settings, name)

\* What Action and RootHandler give themselves when they are made.
Credentials == [name \in CredentialNames |-> GetSetting(name)]

SettingsInit ==
    /\ settings = <<>>
    /\ credentials = Credentials
    /\ file \in SettingsFiles \cup {NoFile}
    /\ lastRead = [file |-> NoFile, length |-> 0]
    /\ behind = FALSE

\* NebulaAtom's constructor: AddBasicSettings_, SetupSettings_.
ConstructApp ==
    /\ settings' = settings \o BasicSettings
    /\ credentials' = [name \in CredentialNames |-> GetSettingOf(settings', name)]
    /\ behind' = FALSE
    /\ UNCHANGED <<file, lastRead>>

AddSetting(setting) ==
    /\ settings' = Append(settings, setting)
    /\ UNCHANGED <<credentials, file, lastRead, behind>>

SetupSettings ==
    /\ credentials' = Credentials
    /\ behind' = FALSE
    /\ UNCHANGED <<settings, file, lastRead>>

\* A node that is missing or is not a scalar is passed over; one that does not
\* convert throws, and the loop goes on after the catch.
Converted(setting, node) ==
    IF node.scalar /\ setting.type \in DOMAIN node.as
    THEN [setting EXCEPT !.value = Value(setting.type, node.as[setting.type])]
    ELSE setting

Malformed(setting) ==
    LET node == file[setting.name] IN node.scalar /\ setting.type \notin DOMAIN node.as

\* Mutant: one try block around the whole loop.
ReadSettingsUntilError ==
    /\ settings' = IF file = NoFile THEN settings
                   ELSE [i \in DOMAIN settings |->
                           IF \E j \in 1 .. i : Malformed(settings[j]) THEN settings[i]
                           ELSE Converted(settings[i], file[settings[i].name])]
    /\ lastRead' = IF file = NoFile THEN lastRead
                   ELSE [file |-> file, length |-> Len(settings)]
    /\ behind' = (behind \/ settings' # settings)
    /\ UNCHANGED <<credentials, file>>

\* A file that cannot be loaded changes nothing.
ReadSettings ==
    /\ settings' = IF file = NoFile THEN settings
                   ELSE [i \in DOMAIN settings |-> Converted(settings[i], file[settings[i].name])]
    /\ lastRead' = IF file = NoFile THEN lastRead
                   ELSE [file |-> file, length |-> Len(settings)]
    /\ behind' = (behind \/ settings' # settings)
    /\ UNCHANGED <<credentials, file>>

\* Someone edits properties.yaml.
EditFile ==
    /\ file' \in (SettingsFiles \cup {NoFile}) \ {file}
    /\ UNCHANGED <<settings, credentials, lastRead, behind>>

===============================================================================
