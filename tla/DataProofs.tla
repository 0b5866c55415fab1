------------------------------- MODULE DataProofs -------------------------------
(***************************************************************************)
(* Proofs about Data: its types, that settings are those of the file, that *)
(* the last value a request gives a parameter wins, and that answers show  *)
(* the rows; for any settings, files, bodies, parameters and result sets.  *)
(***************************************************************************)
EXTENDS Data, Recursion

-------------------------------------------------------------------------------
(* First and last places                                                   *)

LEMMA SmallestIs ==
    ASSUME NEW F, F \subseteq Nat, F # {}
    PROVE  LET first == CHOOSE i \in F : \A j \in F : i <= j
           IN  first \in F /\ \A j \in F : first <= j
<1>1. \E i \in F : \A j \in F : i <= j
  BY SmallestExists
<1> QED BY <1>1

\* A set of naturals with a bound that is not empty has a largest one.
LEMMA LargestExists ==
    ASSUME NEW n \in Nat, NEW F, F \subseteq 1 .. n, F # {}
    PROVE  \E last \in F : \A j \in F : j <= last
<1> DEFINE G == {n - i : i \in F}
<1>1. G \subseteq Nat /\ G # {}
  <2>1. PICK x : x \in F
    OBVIOUS
  <2>2. n - x \in G
    BY <2>1
  <2>3. \A i \in F : n - i \in Nat
    OBVIOUS
  <2> QED BY <2>2, <2>3
<1>2. PICK least \in G : \A j \in G : least <= j
  <2> HIDE DEF G
  <2> QED BY <1>1, SmallestExists
<1>3. PICK last \in F : least = n - last
  BY <1>2
<1>4. ASSUME NEW j \in F PROVE j <= last
  <2>1. n - last <= n - j
    BY <1>2, <1>3
  <2> QED BY <2>1
<1> QED BY <1>4

LEMMA SmallestIsOne ==
    ASSUME NEW F, F \subseteq Nat, NEW x \in F, \A j \in F : x <= j
    PROVE  (CHOOSE i \in F : \A j \in F : i <= j) = x
<1>1. PICK y : y = CHOOSE i \in F : \A j \in F : i <= j
  OBVIOUS
<1>2. y \in F /\ \A j \in F : y <= j
  BY <1>1, SmallestIs
<1>3. y = x
  BY <1>2
<1> QED BY <1>1, <1>3

LEMMA LargestIsOne ==
    ASSUME NEW F, F \subseteq Nat, NEW x \in F, \A j \in F : j <= x
    PROVE  (CHOOSE i \in F : \A j \in F : i >= j) = x
<1>1. PICK y : y = CHOOSE i \in F : \A j \in F : i >= j
  OBVIOUS
<1>2. y \in F /\ \A j \in F : y >= j
  BY <1>1
<1>3. y = x
  BY <1>2
<1> QED BY <1>1, <1>3

-------------------------------------------------------------------------------
(* Floats                                                                  *)

\* There is a nearest float.
LEMMA NearestExists == ASSUME NEW x \in Int PROVE \E f \in Floats : f \in Nearest(x)
<1> DEFINE D == {Distance(f, x) : f \in Floats}
<1>1. \A f \in Floats : Distance(f, x) \in Nat
  BY NumbersAssumption DEF Distance
<1>2. D \subseteq Nat /\ Distance(0, x) \in D
  BY <1>1, NumbersAssumption
<1>3. PICK least \in D : \A d \in D : least <= d
  <2> HIDE DEF D
  <2> QED BY <1>2, SmallestExists
<1>4. PICK f \in Floats : least = Distance(f, x)
  BY <1>3
<1>5. \A g \in Floats : Distance(f, x) <= Distance(g, x)
  BY <1>3, <1>4
<1> QED BY <1>5 DEF Nearest

LEMMA NarrowIs ==
    ASSUME NEW x \in Int
    PROVE  /\ Narrow(x) \in Floats /\ Narrow(x) \in Int
           /\ \A f \in Floats : Distance(Narrow(x), x) <= Distance(f, x)
<1>1. PICK near : near = Nearest(x)
  OBVIOUS
<1>2. PICK f \in near : TRUE
  BY <1>1, NearestExists
<1>3. \E f0 \in near : (\E g \in near : Even(g, near)) => Even(f0, near)
  BY <1>2
<1>4. Narrow(x) \in near
  BY <1>1, <1>3 DEF Narrow
<1> QED BY <1>1, <1>4, NumbersAssumption DEF Nearest

\* Rounding keeps the order, but for numbers that no float tells apart.
LEMMA NarrowKeepsOrder ==
    ASSUME NEW x \in Int, NEW y \in Int
    PROVE  Narrow(x) <= Narrow(y) <=> ~ (x > y /\ Narrow(x) # Narrow(y))
<1>1. PICK f \in Int : f = Narrow(x) /\ f \in Floats
  BY NarrowIs
<1>2. PICK g \in Int : g = Narrow(y) /\ g \in Floats
  BY NarrowIs
<1>3. Distance(f, x) <= Distance(g, x) /\ Distance(g, y) <= Distance(f, y)
  BY <1>1, <1>2, NarrowIs
<1>4. x = y => f = g
  BY <1>1, <1>2
<1>5. x < y => f <= g
  BY <1>3 DEF Distance
<1>6. x > y => g <= f
  BY <1>3 DEF Distance
<1>7. f <= g <=> ~ (x > y /\ f # g)
  BY <1>4, <1>5, <1>6
<1> QED BY <1>1, <1>2, <1>7

-------------------------------------------------------------------------------
(* The settings                                                            *)

\* A setting added behind one of its name is never looked at.
LEMMA FirstStays ==
    ASSUME NEW list \in Seq(SettingSet), NEW s \in SettingSet, NEW name,
           \E i \in DOMAIN list : list[i].name = name
    PROVE  GetSettingOf(Append(list, s), name) = GetSettingOf(list, name)
<1> DEFINE longer == Append(list, s)
           F == {i \in DOMAIN list : list[i].name = name}
           G == {i \in DOMAIN longer : longer[i].name = name}
<1>1. PICK n \in Nat : n = Len(list) /\ DOMAIN list = 1 .. n
  OBVIOUS
<1>2. /\ DOMAIN longer = 1 .. n + 1
      /\ \A i \in 1 .. n : longer[i] = list[i]
  BY <1>1
<1> HIDE DEF longer
<1>3. F \subseteq Nat /\ G \subseteq Nat /\ F # {} /\ F \subseteq 1 .. n /\ F \subseteq G
      /\ \A j \in G : j \in F \/ j = n + 1
  BY <1>1, <1>2
<1>4. PICK x : x = CHOOSE i \in F : \A j \in F : i <= j
  OBVIOUS
<1>5. x \in F /\ \A j \in F : x <= j
  BY <1>3, <1>4, SmallestIs
<1>6. x \in G /\ \A j \in G : x <= j
  BY <1>3, <1>5
<1>7. x = CHOOSE i \in G : \A j \in G : i <= j
  BY <1>3, <1>6, SmallestIsOne
<1>8. longer[x] = list[x]
  BY <1>2, <1>3, <1>5
<1>9. GetSettingOf(list, name) =
         IF F = {} \/ list[x].type # Defaults[name].type THEN Defaults[name]
         ELSE Get(list[x].value, Defaults[name].type)
  BY <1>4 DEF GetSettingOf
<1>10. GetSettingOf(longer, name) =
         IF G = {} \/ longer[x].type # Defaults[name].type THEN Defaults[name]
         ELSE Get(longer[x].value, Defaults[name].type)
  BY <1>7 DEF GetSettingOf
<1> QED BY <1>3, <1>5, <1>6, <1>8, <1>9, <1>10 DEF longer

-------------------------------------------------------------------------------
(* The invariant of the settings                                           *)

\* A setting has the value its node in a file gives it, if the node has one.
AsFile(setting, f) ==
    LET node == f[setting.name] IN
    node.scalar /\ setting.type \in DOMAIN node.as =>
       setting.value = Value(setting.type, node.as[setting.type])

SettingsInv ==
    /\ settings \in Seq(SettingSet) /\ file \in SettingsFiles \cup {NoFile}
    /\ lastRead.length \in Nat /\ lastRead.length <= Len(settings)
    /\ phase = "new" => settings = <<>>
    /\ phase # "new" =>
          \A name \in CredentialNames : \E i \in DOMAIN settings : settings[i].name = name
    /\ lastRead.file # NoFile => \A i \in 1 .. lastRead.length : AsFile(settings[i], lastRead.file)
    /\ phase # "new" /\ ~behind => credentials = Credentials

\* Of a setting that is read, name and type stay, and the value is the file's.
LEMMA ConvertedIs ==
    ASSUME NEW s \in SettingSet, NEW f \in SettingsFiles
    PROVE  /\ Converted(s, f[s.name]) \in SettingSet
           /\ Converted(s, f[s.name]).name = s.name
           /\ AsFile(Converted(s, f[s.name]), f)
<1> DEFINE node == f[s.name]
<1>1. s.name \in SettingNames /\ s.type \in STRING
  BY DEF SettingSet
<1>2. CASE node.scalar /\ s.type \in DOMAIN node.as
  <2>1. node.as[s.type] \in Int
    BY <1>1, <1>2, SettingsAssumption
  <2>2. PICK v : v = Value(s.type, node.as[s.type])
    OBVIOUS
  <2>3. v \in [type : STRING, val : Int]
    BY <1>1, <2>1, <2>2 DEF Value
  <2>4. Converted(s, node) = [s EXCEPT !.value = v]
    BY <1>2, <2>2 DEF Converted
  <2>5. /\ [s EXCEPT !.value = v] \in SettingSet
        /\ [s EXCEPT !.value = v].name = s.name /\ [s EXCEPT !.value = v].type = s.type
        /\ [s EXCEPT !.value = v].value = v
    BY <2>3 DEF SettingSet
  <2> QED BY <2>2, <2>4, <2>5 DEF AsFile
<1>3. CASE ~ (node.scalar /\ s.type \in DOMAIN node.as)
  BY <1>3 DEF Converted, AsFile
<1> QED BY <1>2, <1>3

LEMMA InitSettings == Init => SettingsInv
<1> SUFFICES ASSUME Init PROVE SettingsInv
  OBVIOUS
<1>1. /\ settings = <<>> /\ file \in SettingsFiles \cup {NoFile} /\ phase = "new"
      /\ lastRead.file = NoFile /\ lastRead.length = 0
  BY DEF Init, SettingsInit
<1> QED BY <1>1 DEF SettingsInv

LEMMA ConstructKeeps == ASSUME SettingsInv, Construct PROVE SettingsInv'
<1>1. /\ phase = "new" /\ phase' = "main" /\ settings' = settings \o BasicSettings
      /\ credentials' = [name \in CredentialNames |-> GetSettingOf(settings', name)]
      /\ UNCHANGED <<file, lastRead>>
  BY DEF Construct, At, ConstructApp
<1>2. settings = <<>> /\ BasicSettings \in Seq(SettingSet)
  BY <1>1, SettingsAssumption DEF SettingsInv
<1>3. settings' = BasicSettings
  BY <1>1, <1>2
<1>4. lastRead.length = 0 /\ Len(BasicSettings) \in Nat
  BY <1>2 DEF SettingsInv
<1>5. \A name \in CredentialNames : \E i \in DOMAIN settings' : settings'[i].name = name
  BY <1>3, SettingsAssumption
<1>6. credentials' = Credentials'
  BY <1>1 DEF Credentials, GetSetting
<1>7. lastRead'.length = 0 /\ 1 .. lastRead'.length = {}
  BY <1>1, <1>4
<1> QED BY <1>1, <1>2, <1>3, <1>4, <1>5, <1>6, <1>7 DEF SettingsInv

LEMMA AddSettingKeeps ==
    ASSUME SettingsInv, NEW s \in OwnSettings, Call(AddSetting(s)) PROVE SettingsInv'
<1>1. /\ phase = "main" /\ phase' = "main" /\ settings' = Append(settings, s)
      /\ UNCHANGED <<credentials, file, lastRead, behind>>
  BY DEF Call, AddSetting, At
<1>2. settings \in Seq(SettingSet) /\ s \in SettingSet
  BY SettingsAssumption DEF SettingsInv
<1>3. PICK n \in Nat : n = Len(settings) /\ DOMAIN settings = 1 .. n
  BY <1>2
<1>4. /\ settings' \in Seq(SettingSet) /\ Len(settings') = n + 1
      /\ DOMAIN settings' = 1 .. n + 1
      /\ \A i \in 1 .. n : settings'[i] = settings[i]
  BY <1>1, <1>2, <1>3
<1>5. lastRead.length \in Nat /\ lastRead.length <= n /\ lastRead' = lastRead
  BY <1>1, <1>3 DEF SettingsInv
<1>6. \A name \in CredentialNames : \E i \in DOMAIN settings : settings[i].name = name
  BY <1>1 DEF SettingsInv
<1>7. \A name \in CredentialNames : \E i \in DOMAIN settings' : settings'[i].name = name
  BY <1>3, <1>4, <1>6
<1>8. lastRead'.file # NoFile =>
         \A i \in 1 .. lastRead'.length : AsFile(settings'[i], lastRead'.file)
  BY <1>4, <1>5 DEF SettingsInv
<1>9. \A name \in CredentialNames : GetSettingOf(settings', name) = GetSettingOf(settings, name)
  BY <1>1, <1>2, <1>6, FirstStays
<1>10. Credentials' = Credentials
  BY <1>9 DEF Credentials, GetSetting
<1>11. phase' # "new" /\ ~ behind' => credentials' = Credentials'
  BY <1>1, <1>10 DEF SettingsInv
<1>12. lastRead'.length \in Nat /\ lastRead'.length <= Len(settings')
  BY <1>4, <1>5
<1> QED BY <1>1, <1>4, <1>7, <1>8, <1>11, <1>12 DEF SettingsInv

LEMMA ReadSettingsKeeps == ASSUME SettingsInv, Call(ReadSettings) PROVE SettingsInv'
<1>1. /\ phase = "main" /\ phase' = "main" /\ ReadSettings
  BY DEF Call, At
<1>2. settings \in Seq(SettingSet)
  BY DEF SettingsInv
<1>3. CASE file = NoFile
  <2>1. UNCHANGED <<settings, lastRead, credentials, file>>
    BY <1>1, <1>3 DEF ReadSettings
  <2>2. ~ behind' => ~ behind
    BY <1>1 DEF ReadSettings
  <2>3. phase' # "new" /\ ~ behind' => credentials' = Credentials'
    BY <1>1, <2>1, <2>2 DEF SettingsInv, Credentials, GetSetting
  <2> QED BY <1>1, <2>1, <2>3 DEF SettingsInv
<1>4. CASE file # NoFile
  <2>1. /\ file \in SettingsFiles /\ UNCHANGED <<credentials, file>>
        /\ settings' = [i \in DOMAIN settings |-> Converted(settings[i], file[settings[i].name])]
        /\ lastRead'.file = file /\ lastRead'.length = Len(settings)
        /\ ~ behind' => ~ behind /\ settings' = settings
    BY <1>1, <1>4 DEF ReadSettings, SettingsInv
  <2>2. PICK n \in Nat : n = Len(settings) /\ DOMAIN settings = 1 .. n
    BY <1>2
  <2>3. \A i \in 1 .. n :
           /\ settings'[i] \in SettingSet /\ settings'[i].name = settings[i].name
           /\ AsFile(settings'[i], file)
    BY <1>2, <2>1, <2>2, ConvertedIs
  <2>4. settings' \in Seq(SettingSet) /\ Len(settings') = n /\ DOMAIN settings' = 1 .. n
    BY <2>1, <2>2, <2>3
  <2>5. \A name \in CredentialNames : \E i \in DOMAIN settings' : settings'[i].name = name
    BY <1>1, <2>2, <2>3, <2>4 DEF SettingsInv
  <2>6. ~ behind' => credentials' = Credentials'
    BY <1>1, <2>1 DEF SettingsInv, Credentials, GetSetting
  <2>7. lastRead'.length \in Nat /\ lastRead'.length <= Len(settings')
    BY <2>1, <2>2, <2>4
  <2>8. \A i \in 1 .. lastRead'.length : AsFile(settings'[i], lastRead'.file)
    BY <2>1, <2>2, <2>3
  <2> QED BY <1>1, <2>1, <2>4, <2>5, <2>6, <2>7, <2>8 DEF SettingsInv
<1> QED BY <1>3, <1>4

\* Steps that leave the settings alone, and those of main that change no setting.
LEMMA OthersKeep ==
    ASSUME SettingsInv, phase # "new", phase' # "new",
           UNCHANGED <<settings, lastRead>>, file' \in SettingsFiles \cup {NoFile},
           UNCHANGED <<credentials, behind>> \/ credentials' = Credentials
    PROVE  SettingsInv'
<1>1. Credentials' = Credentials
  BY DEF Credentials, GetSetting
<1>2. phase' # "new" /\ ~ behind' => credentials' = Credentials'
  BY <1>1 DEF SettingsInv
<1> QED BY <1>2 DEF SettingsInv

LEMMA StepSettings == ASSUME SettingsInv, [Next]_vars PROVE SettingsInv'
<1>1. file \in SettingsFiles \cup {NoFile}
  BY DEF SettingsInv
<1>2. CASE UNCHANGED vars
  BY <1>2 DEF vars, settingsVars, SettingsInv, Credentials, GetSetting
<1>3. CASE Main
  <2>1. CASE Call(SetupSettings)
    BY <1>1, <2>1, OthersKeep DEF Call, At, SetupSettings
  <2>2. CASE Call(EditFile)
    <3>1. /\ phase = "main" /\ phase' = "main"
          /\ UNCHANGED <<settings, credentials, lastRead, behind>>
          /\ file' \in SettingsFiles \cup {NoFile}
      BY <2>2 DEF Call, At, EditFile
    <3> QED BY <3>1, OthersKeep
  <2> QED BY <1>3, <2>1, <2>2, AddSettingKeeps, ReadSettingsKeeps DEF Main
<1>4. ASSUME UNCHANGED settingsVars, phase # "new", phase' # "new" PROVE SettingsInv'
  BY <1>1, <1>4, OthersKeep DEF settingsVars
<1>5. CASE Run
  BY <1>4, <1>5 DEF Run, At
<1>6. CASE \E b \in Bodies, list \in Declared : Arrive(b, list)
  BY <1>4, <1>6 DEF Arrive, Request, At
<1>7. CASE BodyFails \/ IdentifyAll \/ Replace \/ Keep \/ Refuse
  BY <1>4, <1>7 DEF BodyFails, IdentifyAll, Replace, Keep, Refuse, Request, At, Answered
<1>8. CASE \E s \in ResultSets : Execute(s)
  BY <1>4, <1>8 DEF Execute, At
<1>9. CASE Push \/ PushThrows \/ Pushed \/ Inspect \/ Answer
  BY <1>4, <1>9 DEF Push, PushThrows, Pushed, Inspect, Answer, Results, At, Answered
<1> QED BY <1>2, <1>3, <1>5, <1>6, <1>7, <1>8, <1>9, ConstructKeeps DEF Next

LEMMA Invariance == Spec => []SettingsInv
BY InitSettings, StepSettings, PTL DEF Spec

\* For any files, however malformed, and any calls of main in any order, a setting
\* has the value of the file that was read last, and sessions and permissions log
\* in with what the rest of the program does unless main was behind.
THEOREM FileIsFollowed == Spec => []SettingsFollowTheFile
<1>1. SettingsInv => SettingsFollowTheFile
  BY DEF SettingsInv, SettingsFollowTheFile, AsFile
<1> QED BY <1>1, Invariance, PTL

-------------------------------------------------------------------------------
(* Types of the settings, and the control                                  *)

IsTyped(list) == \A i \in DOMAIN list : list[i].value.type = list[i].type

\* What GetSetting_ returns has the type it is asked with.
LEMMA GottenIsTyped ==
    ASSUME NEW list \in Seq(SettingSet), IsTyped(list), NEW name \in DOMAIN Defaults
    PROVE  /\ GetSettingOf(list, name).type = Defaults[name].type
           /\ GetSettingOf(list, name).val \in Int
<1> DEFINE found == {i \in DOMAIN list : list[i].name = name}
           first == CHOOSE i \in found : \A j \in found : i <= j
<1>1. Defaults[name] \in [type : STRING, val : Int]
  BY SettingsAssumption
<1>2. CASE found = {} \/ list[first].type # Defaults[name].type
  <2>1. GetSettingOf(list, name) = Defaults[name]
    BY <1>2 DEF GetSettingOf
  <2> QED BY <1>1, <2>1
<1>3. CASE found # {} /\ list[first].type = Defaults[name].type
  <2>1. found \subseteq Nat
    OBVIOUS
  <2>2. PICK x : x = first
    OBVIOUS
  <2>3. x \in found
    <3> HIDE DEF found
    <3> QED BY <1>3, <2>1, <2>2, SmallestIs
  <2>4. /\ list[x].value \in [type : STRING, val : Int]
        /\ list[x].value.type = Defaults[name].type
    <3>1. x \in DOMAIN list /\ list[x] \in SettingSet
      BY <2>3
    <3>2. list[x].type = Defaults[name].type
      BY <1>3, <2>2
    <3>3. list[x].value.type = list[x].type
      BY <3>1 DEF IsTyped
    <3> QED BY <3>1, <3>2, <3>3 DEF SettingSet
  <2>5. GetSettingOf(list, name) = Get(list[x].value, Defaults[name].type)
    BY <1>3, <2>2 DEF GetSettingOf
  <2>6. GetSettingOf(list, name) = list[x].value
    BY <2>4, <2>5 DEF Get, TypeIsEqual
  <2> QED BY <2>4, <2>6
<1> QED BY <1>2, <1>3

CredentialsAreTyped == \A name \in CredentialNames : credentials[name].type = Defaults[name].type

ControlOK ==
    /\ phase \in {"new", "main", "running", "body", "identified", "compose",
                  "rows", "condition", "json", "answered"}
    /\ calls \in 0 .. MaxCalls
    /\ outcome \in {"none", "200", "400", "500"}
    /\ phase # "answered" => outcome = "none"

ControlInv == ControlOK /\ IsTyped(settings) /\ CredentialsAreTyped

LEMMA CredentialsTyped ==
    ASSUME NEW list \in Seq(SettingSet), IsTyped(list),
           credentials' = [name \in CredentialNames |-> GetSettingOf(list, name)]
    PROVE  CredentialsAreTyped'
<1>1. \A name \in CredentialNames : name \in DOMAIN Defaults
  BY SettingsAssumption
<1> QED BY <1>1, GottenIsTyped DEF CredentialsAreTyped

LEMMA InitControl == Init => ControlInv
<1> SUFFICES ASSUME Init PROVE ControlInv
  OBVIOUS
<1>1. settings = <<>> /\ credentials = Credentials
  BY DEF Init, SettingsInit
<1>2. IsTyped(settings) /\ settings \in Seq(SettingSet)
  BY <1>1 DEF IsTyped
<1>3. CredentialsAreTyped
  <2>1. \A name \in CredentialNames : name \in DOMAIN Defaults
    BY SettingsAssumption
  <2> QED BY <1>1, <1>2, <2>1, GottenIsTyped DEF CredentialsAreTyped, Credentials, GetSetting
<1>4. ControlOK
  BY CallsAssumption DEF Init, ControlOK
<1> QED BY <1>2, <1>3, <1>4 DEF ControlInv

LEMMA MainControl == ASSUME SettingsInv, ControlInv, Main PROVE ControlInv'
<1>1. settings \in Seq(SettingSet) /\ IsTyped(settings)
  BY DEF SettingsInv, ControlInv
<1>3. CASE \E s \in OwnSettings : Call(AddSetting(s))
  <2>1. PICK s \in OwnSettings : Call(AddSetting(s))
    BY <1>3
  <2>2. settings' = Append(settings, s) /\ credentials' = credentials
    BY <2>1 DEF Call, AddSetting
  <2>3. s \in SettingSet /\ s.type = s.value.type
    BY SettingsAssumption
  <2>4. IsTyped(settings')
    BY <1>1, <2>2, <2>3 DEF IsTyped
  <2>5. ControlOK'
    BY <2>1, CallsAssumption DEF Call, At, NotYet, ControlInv, ControlOK
  <2> QED BY <2>2, <2>4, <2>5 DEF ControlInv, CredentialsAreTyped
<1>4. CASE Call(ReadSettings)
  <2>1. credentials' = credentials
    BY <1>4 DEF Call, ReadSettings
  <2>2. IsTyped(settings')
    <3>1. CASE file = NoFile
      BY <1>1, <1>4, <3>1 DEF Call, ReadSettings
    <3>2. CASE file # NoFile
      <4>1. settings' = [i \in DOMAIN settings |->
                            Converted(settings[i], file[settings[i].name])]
        BY <1>4, <3>2 DEF Call, ReadSettings
      <4>2. ASSUME NEW i \in DOMAIN settings
            PROVE  settings'[i].value.type = settings'[i].type
        BY <1>1, <4>1, <4>2 DEF Converted, Value, IsTyped, SettingSet
      <4> QED BY <4>1, <4>2 DEF IsTyped
    <3> QED BY <3>1, <3>2
  <2>3. ControlOK'
    BY <1>4, CallsAssumption DEF Call, At, NotYet, ControlInv, ControlOK
  <2> QED BY <2>1, <2>2, <2>3 DEF ControlInv, CredentialsAreTyped
<1>5. CASE Call(SetupSettings)
  <2>1. settings' = settings /\ credentials' = Credentials
    BY <1>5 DEF Call, SetupSettings
  <2>2. CredentialsAreTyped'
    BY <1>1, <2>1, CredentialsTyped DEF Credentials, GetSetting
  <2>3. ControlOK'
    BY <1>5, CallsAssumption DEF Call, At, NotYet, ControlInv, ControlOK
  <2> QED BY <1>1, <2>1, <2>2, <2>3 DEF ControlInv
<1>6. CASE Call(EditFile)
  <2>1. settings' = settings /\ credentials' = credentials
    BY <1>6 DEF Call, EditFile
  <2>2. ControlOK'
    BY <1>6, CallsAssumption DEF Call, At, NotYet, ControlInv, ControlOK
  <2> QED BY <1>1, <2>1, <2>2 DEF ControlInv, CredentialsAreTyped
<1> QED BY <1>3, <1>4, <1>5, <1>6 DEF Main

LEMMA StepControl == ASSUME SettingsInv, ControlInv, [Next]_vars PROVE ControlInv'
<1>1. ASSUME UNCHANGED settingsVars, ControlOK' PROVE ControlInv'
  BY <1>1 DEF settingsVars, ControlInv, CredentialsAreTyped
<1>2. CASE UNCHANGED vars
  BY <1>1, <1>2 DEF vars, settingsVars, ControlInv, ControlOK
<1>3. CASE Construct
  <2>1. /\ phase = "new" /\ settings' = settings \o BasicSettings
        /\ credentials' = [name \in CredentialNames |-> GetSettingOf(settings', name)]
    BY <1>3 DEF Construct, ConstructApp, At
  <2>2. settings = <<>> /\ BasicSettings \in Seq(SettingSet)
    BY <2>1, SettingsAssumption DEF SettingsInv
  <2>3. settings' = BasicSettings
    BY <2>1, <2>2
  <2>4. IsTyped(settings')
    BY <2>3, SettingsAssumption DEF IsTyped
  <2>5. CredentialsAreTyped'
    BY <2>1, <2>2, <2>3, <2>4, CredentialsTyped
  <2>6. ControlOK'
    BY <1>3 DEF Construct, At, NotYet, ControlInv, ControlOK
  <2> QED BY <2>4, <2>5, <2>6 DEF ControlInv
<1>4. CASE Run
  BY <1>1, <1>4 DEF Run, At, NotYet, ControlInv, ControlOK
<1>5. CASE \E b \in Bodies, list \in Declared : Arrive(b, list)
  BY <1>1, <1>5 DEF Arrive, Request, At, NotYet, ControlInv, ControlOK
<1>6. CASE BodyFails \/ IdentifyAll \/ Replace \/ Keep \/ Refuse
  BY <1>1, <1>6 DEF BodyFails, IdentifyAll, Replace, Keep, Refuse, Request, At, Answered, NotYet,
     ControlInv, ControlOK
<1>7. CASE \E s \in ResultSets : Execute(s)
  BY <1>1, <1>7 DEF Execute, At, NotYet, ControlInv, ControlOK
<1>8. CASE Push \/ PushThrows \/ Pushed \/ Inspect \/ Answer
  BY <1>1, <1>8 DEF Push, PushThrows, Pushed, Inspect, Answer, Results, At, Answered, NotYet,
     ControlInv, ControlOK
<1> QED BY <1>2, <1>3, <1>4, <1>5, <1>6, <1>7, <1>8, MainControl DEF Next

-------------------------------------------------------------------------------
(* Rows, fields and the answer                                             *)

VarSet == [kind : VarKinds, val : Int]
FieldSet == [column : STRING, value : [type : Types \cup {"thrown"}, val : Int]]

ResultSetOK(s) ==
    /\ s.columns \in Seq(STRING) /\ s.rows \in Seq(Seq(VarSet))
    /\ \A i \in DOMAIN s.rows : DOMAIN s.rows[i] = DOMAIN s.columns

LEMMA ResultSetIsOK ==
    ASSUME resultSet \in ResultSets \cup {NoResultSet} PROVE ResultSetOK(resultSet)
<1>1. CASE resultSet \in ResultSets
  BY <1>1, ResultSetsAssumption DEF ResultSetOK, VarSet
<1>2. CASE resultSet = NoResultSet
  BY <1>2 DEF ResultSetOK, NoResultSet
<1> QED BY <1>1, <1>2

\* A cell that does not throw has a type of its own, and is shown as it should be.
LEMMA CellIs ==
    ASSUME NEW var \in VarSet
    PROVE  /\ Format(var) \in [type : Types \cup {"thrown"}, val : Int]
           /\ Format(var) # Thrown =>
                 /\ Format(var).type \in Types
                 /\ Format(var).type = "empty" <=> var.kind = "null"
                 /\ ShownAs(var, Shown(Format(var)))
<1> USE DEF Format, Types, Shown, ShownAs, TypeIsEqual, Value, Text, Empty, Thrown
<1>1. PICK val \in Int : val = var.val
  BY DEF VarSet
<1>2. CASE var.kind = "null"
  BY <1>2
<1>3. CASE var.kind = "bool"
  BY <1>1, <1>3
<1>4. CASE var.kind = "integer"
  BY <1>1, <1>4
<1>5. CASE var.kind = "real"
  <2>1. PICK near : near = Narrow(val)
    OBVIOUS
  <2>2. /\ near \in Floats /\ near \in Int
        /\ \A f \in Floats : Distance(near, val) <= Distance(f, val)
    BY <1>1, <2>1, NarrowIs
  <2> QED BY <1>1, <1>5, <2>1, <2>2
<1>6. CASE var.kind = "date"
  <2>1. PICK second \in Int : second = Seconds(val)
    BY <1>1 DEF Seconds, Second
  <2>2. val - second \in 0 .. Second - 1
    <3>1. val % 2 \in 0 .. 1 /\ second = val - (val % 2)
      BY <1>1, <2>1 DEF Seconds, Second
    <3>2. val - second = val % 2
      BY <1>1, <3>1
    <3> QED BY <3>1, <3>2 DEF Second
  <2> QED BY <1>1, <1>6, <2>1, <2>2
<1>7. CASE var.kind = "text"
  BY <1>1, <1>7
<1> QED BY <1>2, <1>3, <1>4, <1>5, <1>6, <1>7 DEF VarSet, VarKinds

\* A row of fields has the columns and the cells of the result set.
LEMMA RowIs ==
    ASSUME ResultSetOK(resultSet), NEW i \in DOMAIN resultSet.rows
    PROVE  /\ RowOf(i) \in Seq(FieldSet) /\ Len(RowOf(i)) = Len(resultSet.columns)
           /\ DOMAIN RowOf(i) = DOMAIN resultSet.columns
           /\ \A c \in DOMAIN resultSet.columns :
                 /\ RowOf(i)[c].column = resultSet.columns[c]
                 /\ ~ RowThrows(RowOf(i)) =>
                       /\ RowOf(i)[c].value.type \in Types
                       /\ IsNull(RowOf(i)[c]) <=> resultSet.rows[i][c].kind = "null"
                       /\ ShownAs(resultSet.rows[i][c], Shown(RowOf(i)[c].value))
<1> DEFINE row == RowOf(i)
<1>1. PICK n \in Nat : n = Len(resultSet.columns) /\ DOMAIN resultSet.columns = 1 .. n
  BY DEF ResultSetOK
<1>2. ASSUME NEW c \in DOMAIN resultSet.columns
      PROVE  resultSet.rows[i][c] \in VarSet /\ resultSet.columns[c] \in STRING
  BY DEF ResultSetOK
<1>3. ASSUME NEW c \in DOMAIN resultSet.columns
      PROVE  row[c] = [column |-> resultSet.columns[c], value |-> Format(resultSet.rows[i][c])]
  BY DEF RowOf, Field
<1>4. DOMAIN row = 1 .. n
  BY <1>1 DEF RowOf
<1>5. ASSUME NEW c \in DOMAIN resultSet.columns
      PROVE  /\ row[c] \in FieldSet
             /\ row[c].column = resultSet.columns[c]
             /\ row[c].value # Thrown =>
                   /\ row[c].value.type \in Types
                   /\ IsNull(row[c]) <=> resultSet.rows[i][c].kind = "null"
                   /\ ShownAs(resultSet.rows[i][c], Shown(row[c].value))
  <2>1. PICK value : value = Format(resultSet.rows[i][c])
    OBVIOUS
  <2>2. row[c] = [column |-> resultSet.columns[c], value |-> value]
    BY <1>3, <2>1
  <2>3. /\ value \in [type : Types \cup {"thrown"}, val : Int]
        /\ value # Thrown => /\ value.type \in Types
                             /\ value.type = "empty" <=> resultSet.rows[i][c].kind = "null"
                             /\ ShownAs(resultSet.rows[i][c], Shown(value))
    BY <1>2, <2>1, CellIs
  <2> HIDE DEF row
  <2>4. row[c].value = value /\ row[c].column = resultSet.columns[c]
    BY <2>2
  <2>5. row[c] \in FieldSet
    BY <1>2, <2>2, <2>3 DEF FieldSet
  <2> QED BY <2>3, <2>4, <2>5 DEF IsNull, TypeIsEqual
<1>6. row = [c \in 1 .. n |-> row[c]]
  BY <1>1 DEF RowOf
<1> HIDE DEF row
<1>7. row \in Seq(FieldSet) /\ Len(row) = n
  <2>1. \A c \in 1 .. n : row[c] \in FieldSet
    BY <1>1, <1>5
  <2>2. row \in [1 .. n -> FieldSet]
    BY <1>6, <2>1
  <2> QED BY <1>1, <2>2
<1>8. ~ RowThrows(row) => \A c \in DOMAIN row : row[c].value # Thrown
  BY DEF RowThrows
<1>9. row = RowOf(i)
  BY DEF row
<1> QED BY <1>1, <1>4, <1>5, <1>7, <1>8, <1>9

-------------------------------------------------------------------------------
(* The invariant of the rows                                               *)

BeforeRows == {"new", "main", "running", "body", "identified", "compose"}

\* The rows pushed so far are those of the result set, and none holds a value
\* that threw; a row whose value does is answered 400.
TablesInv ==
    /\ resultSet \in ResultSets \cup {NoResultSet}
    /\ results \in Seq(Seq(FieldSet)) /\ Len(results) <= Len(resultSet.rows)
    /\ \A i \in DOMAIN results : results[i] = RowOf(i) /\ ~ RowThrows(RowOf(i))
    /\ phase \in BeforeRows => results = <<>>
    /\ phase \in {"condition", "json"} \/ outcome = "200" => AllPushed
    /\ phase = "json" \/ outcome = "200" => (inspects => results # <<>>)
    /\ outcome = "200" => json = [i \in DOMAIN results |-> RowObject(results[i])]

LEMMA InitTables == Init => TablesInv
BY DEF Init, TablesInit, TablesInv, NoResultSet, AllPushed

\* Steps that leave the tables alone and do not answer 200.
LEMMA TablesStay ==
    ASSUME TablesInv, UNCHANGED tablesVars, UNCHANGED inspects,
           phase' \in BeforeRows => phase \in BeforeRows,
           phase' \in {"condition", "json"} => AllPushed,
           phase' = "json" => (inspects => results # <<>>),
           outcome' # "200"
    PROVE  TablesInv'
BY DEF TablesInv, tablesVars, AllPushed, RowOf, RowThrows

LEMMA PushKeeps == ASSUME ControlInv, TablesInv, Push PROVE TablesInv'
<1> DEFINE n == Len(results)
<1>1. /\ phase = "rows" /\ phase' = "rows" /\ n # Len(resultSet.rows) /\ ~ RowThrows(RowOf(n + 1))
      /\ results' = Append(results, RowOf(n + 1))
      /\ UNCHANGED <<resultSet, json, outcome, inspects>>
  BY DEF Push, Results, At, PushRow, AllPushed, NotYet
<1>2. outcome' # "200"
  BY <1>1 DEF ControlInv, ControlOK
<1>3. results \in Seq(Seq(FieldSet)) /\ n \in Nat /\ DOMAIN results = 1 .. n
      /\ n <= Len(resultSet.rows)
  BY DEF TablesInv
<1>4. ResultSetOK(resultSet) /\ Len(resultSet.rows) \in Nat
      /\ DOMAIN resultSet.rows = 1 .. Len(resultSet.rows)
  BY ResultSetIsOK DEF TablesInv, ResultSetOK
<1>5. n + 1 \in DOMAIN resultSet.rows
  BY <1>1, <1>3, <1>4
<1>6. PICK row \in Seq(FieldSet) : row = RowOf(n + 1) /\ ~ RowThrows(row)
  BY <1>1, <1>4, <1>5, RowIs
<1>7. results' = Append(results, row)
  BY <1>1, <1>6
<1> HIDE DEF n
<1>8. /\ results' \in Seq(Seq(FieldSet)) /\ Len(results') = n + 1 /\ DOMAIN results' = 1 .. n + 1
      /\ results'[n + 1] = row /\ \A i \in 1 .. n : results'[i] = results[i]
  BY <1>3, <1>7 DEF n
<1>9. \A i : RowOf(i)' = RowOf(i)
  BY <1>1 DEF RowOf
<1>10. ASSUME NEW i \in DOMAIN results' PROVE results'[i] = RowOf(i)' /\ ~ RowThrows(RowOf(i))'
  <2>1. CASE i = n + 1
    BY <1>6, <1>8, <1>9, <2>1 DEF RowThrows
  <2>2. CASE i \in 1 .. n
    <3>1. results[i] = RowOf(i) /\ ~ RowThrows(RowOf(i))
      BY <1>3, <2>2 DEF TablesInv
    <3> QED BY <1>8, <1>9, <2>2, <3>1 DEF RowThrows
  <2> QED BY <1>3, <1>8, <2>1, <2>2
<1>11. Len(results') <= Len(resultSet'.rows)
  BY <1>1, <1>3, <1>4, <1>8 DEF n
<1> QED BY <1>1, <1>2, <1>8, <1>10, <1>11 DEF TablesInv, BeforeRows

LEMMA StepTables == ASSUME ControlInv, TablesInv, [Next]_vars PROVE TablesInv'
<1>1. phase # "answered" => outcome = "none"
  BY DEF ControlInv, ControlOK
<1>2. CASE UNCHANGED vars
  BY <1>2 DEF vars, tablesVars, TablesInv, AllPushed, RowOf, RowThrows
<1>3. CASE Construct \/ Main \/ Run
  <2>1. /\ UNCHANGED tablesVars /\ UNCHANGED inspects
        /\ phase \in BeforeRows /\ phase' \in BeforeRows
        /\ phase # "answered" /\ outcome' = outcome
    BY <1>3 DEF Construct, Main, Call, Run, At, NotYet, BeforeRows
  <2> QED BY <1>1, <2>1, TablesStay DEF BeforeRows
<1>4. CASE (\E b \in Bodies, list \in Declared : Arrive(b, list)) \/ IdentifyAll \/ Replace \/ Keep
  <2>1. /\ UNCHANGED tablesVars /\ UNCHANGED inspects
        /\ phase \in BeforeRows /\ phase' \in BeforeRows
        /\ phase # "answered" /\ outcome' = outcome
    BY <1>4 DEF Arrive, IdentifyAll, Replace, Keep, Request, At, NotYet, BeforeRows
  <2> QED BY <1>1, <2>1, TablesStay DEF BeforeRows
<1>5. CASE BodyFails \/ Refuse \/ PushThrows
  <2>1. /\ UNCHANGED tablesVars /\ UNCHANGED inspects /\ phase' = "answered" /\ outcome' # "200"
    BY <1>5 DEF BodyFails, Refuse, PushThrows, PushFails, Request, Results, Answered
  <2> QED BY <2>1, TablesStay DEF BeforeRows
<1>6. CASE \E s \in ResultSets : Execute(s)
  <2>1. PICK s \in ResultSets : Execute(s)
    BY <1>6
  <2>2. /\ phase = "compose" /\ phase' = "rows" /\ resultSet' = s /\ results' = results
        /\ outcome' = outcome
    BY <2>1 DEF Execute, At, NotYet
  <2>3. results = <<>> /\ outcome' # "200"
    BY <1>1, <2>2 DEF TablesInv, BeforeRows
  <2>4. Len(s.rows) \in Nat
    BY ResultSetsAssumption
  <2> QED BY <2>2, <2>3, <2>4 DEF TablesInv, BeforeRows
<1>7. CASE Pushed
  <2>1. /\ UNCHANGED tablesVars /\ UNCHANGED inspects /\ phase = "rows" /\ phase' = "condition"
        /\ AllPushed /\ outcome' = outcome
    BY <1>7 DEF Pushed, Results, At, NotYet
  <2> QED BY <1>1, <2>1, TablesStay DEF BeforeRows
<1>8. CASE Inspect
  <2>1. UNCHANGED tablesVars /\ UNCHANGED inspects /\ phase = "condition" /\ AllPushed
    BY <1>8 DEF Inspect, Results, TablesInv
  <2>2. CASE inspects /\ LastThrows
    <3>1. phase' = "answered" /\ outcome' = "400"
      BY <1>8, <2>2 DEF Inspect, Results, Answered
    <3> QED BY <2>1, <3>1, TablesStay DEF BeforeRows
  <2>3. CASE ~ (inspects /\ LastThrows)
    <3>1. phase' = "json" /\ outcome' = outcome
      BY <1>8, <2>3 DEF Inspect, Results, At, NotYet
    <3> QED BY <1>1, <2>1, <2>3, <3>1, TablesStay DEF BeforeRows, LastThrows
  <2> QED BY <2>2, <2>3
<1>9. CASE Answer
  <2>1. /\ phase = "json" /\ phase' = "answered" /\ UNCHANGED <<resultSet, results, inspects>>
        /\ json' = [i \in DOMAIN results |-> RowObject(results[i])]
    BY <1>9 DEF Answer, Results, Answered, CreateJSONResult
  <2>2. AllPushed /\ (inspects => results # <<>>)
    BY <2>1 DEF TablesInv
  <2>3. json' = [i \in DOMAIN results' |-> RowObject(results'[i])]
    BY <2>1
  <2> QED BY <2>1, <2>2, <2>3 DEF TablesInv, BeforeRows, AllPushed, RowOf, RowThrows
<1> QED BY <1>2, <1>3, <1>4, <1>5, <1>6, <1>7, <1>8, <1>9, PushKeeps DEF Next

LEMMA TablesInvariance == Spec => [](SettingsInv /\ ControlInv /\ TablesInv)
<1>1. Init => SettingsInv /\ ControlInv /\ TablesInv
  BY InitSettings, InitControl, InitTables
<1>2. SettingsInv /\ ControlInv /\ TablesInv /\ [Next]_vars
         => (SettingsInv /\ ControlInv /\ TablesInv)'
  BY StepSettings, StepControl, StepTables
<1> QED BY <1>1, <1>2, PTL DEF Spec

\* The object of a row has, for a name, the last field of the name.
LEMMA ObjectHasTheLast ==
    ASSUME NEW row \in Seq(FieldSet), NEW c \in DOMAIN row,
           \A d \in DOMAIN row : row[d].column = row[c].column => d <= c
    PROVE  RowObject(row)[row[c].column] = Shown(row[c].value)
<1> DEFINE name == row[c].column
           found == {d \in DOMAIN row : row[d].column = name}
           last == CHOOSE d \in found : \A e \in found : d >= e
<1>1. RowObject(row)[name] = Shown(row[last].value)
  BY DEF RowObject
<1>2. found \subseteq Nat /\ c \in found /\ \A d \in found : d <= c
  OBVIOUS
<1>3. last = c
  <2> HIDE DEF found
  <2> QED BY <1>2, LargestIsOne
<1> QED BY <1>1, <1>3

\* Of a name that is there once, ExtractField_ finds the field.
LEMMA NameFindsTheField ==
    ASSUME NEW row \in Seq(FieldSet), NEW c \in DOMAIN row,
           \A d \in DOMAIN row : row[d].column = row[c].column => d = c
    PROVE  ExtractByName(row, row[c].column) = row[c]
<1> DEFINE name == row[c].column
           found == {d \in DOMAIN row : row[d].column = name}
           first == CHOOSE d \in found : \A e \in found : d <= e
<1>1. ExtractByName(row, name) = IF found = {} THEN NoField ELSE row[first]
  BY DEF ExtractByName
<1>2. found \subseteq Nat /\ c \in found /\ \A d \in found : c <= d
  OBVIOUS
<1>3. first = c
  <2> HIDE DEF found
  <2> QED BY <1>2, SmallestIsOne
<1> QED BY <1>1, <1>2, <1>3

LEMMA RowsAreShown == TablesInv => AnswersShowTheRows
<1> SUFFICES ASSUME TablesInv, outcome = "200" PROVE AnswersShowTheRows
  BY DEF AnswersShowTheRows
<1>1. ResultSetOK(resultSet)
  BY ResultSetIsOK DEF TablesInv
<1>2. PICK n \in Nat : n = Len(results) /\ DOMAIN results = 1 .. n
  BY DEF TablesInv
<1>3. Len(resultSet.rows) = n /\ DOMAIN resultSet.rows = 1 .. n
  BY <1>1, <1>2 DEF TablesInv, AllPushed, ResultSetOK
<1>4. PICK m \in Nat : m = Len(resultSet.columns) /\ DOMAIN resultSet.columns = 1 .. m
  BY <1>1 DEF ResultSetOK
<1>5. ASSUME NEW i \in 1 .. n
      PROVE  /\ results[i] \in Seq(FieldSet) /\ Len(results[i]) = m /\ DOMAIN results[i] = 1 .. m
             /\ \A c \in 1 .. m :
                   /\ results[i][c].column = resultSet.columns[c]
                   /\ IsNull(results[i][c]) <=> resultSet.rows[i][c].kind = "null"
                   /\ ShownAs(resultSet.rows[i][c], Shown(results[i][c].value))
  <2>1. results[i] = RowOf(i) /\ ~ RowThrows(RowOf(i))
    BY <1>2 DEF TablesInv
  <2>2. i \in DOMAIN resultSet.rows
    BY <1>3
  <2> QED BY <1>1, <1>4, <2>1, <2>2, RowIs
<1>6. json = [i \in 1 .. n |-> RowObject(results[i])] /\ (inspects => results # <<>>)
  BY <1>2 DEF TablesInv
<1>7. Len(json) = Len(resultSet.rows) /\ DOMAIN json = 1 .. n
  BY <1>3, <1>6
<1>8. ASSUME NEW i \in 1 .. n, NEW c \in 1 .. m, NEW name, name = resultSet.columns[c],
             NEW same, same = {d \in 1 .. m : resultSet.columns[d] = name}
      PROVE  /\ IsLast(c, same) => ShownAs(resultSet.rows[i][c], json[i][name])
             /\ same = {c} =>
                   /\ ShownAs(resultSet.rows[i][c], Shown(ExtractByName(results[i], name).value))
                   /\ IsNull(ExtractField(i - 1, c - 1)) <=> resultSet.rows[i][c].kind = "null"
  <2>1. PICK row \in Seq(FieldSet) : row = results[i] /\ DOMAIN row = 1 .. m /\ Len(row) = m
    BY <1>5
  <2>2. /\ \A d \in 1 .. m : row[d].column = resultSet.columns[d]
        /\ IsNull(row[c]) <=> resultSet.rows[i][c].kind = "null"
        /\ ShownAs(resultSet.rows[i][c], Shown(row[c].value))
    BY <1>5, <2>1
  <2>3. ASSUME IsLast(c, same) PROVE json[i][name] = Shown(row[c].value)
    <3>1. \A d \in DOMAIN row : row[d].column = row[c].column => d <= c
      BY <1>8, <2>1, <2>2, <2>3 DEF IsLast
    <3>2. json[i] = RowObject(row)
      BY <1>6, <2>1
    <3>3. row[c].column = name
      BY <1>8, <2>2
    <3> QED BY <2>1, <3>1, <3>2, <3>3, ObjectHasTheLast
  <2>4. ASSUME same = {c}
        PROVE  ExtractByName(row, name) = row[c] /\ ExtractField(i - 1, c - 1) = row[c]
    <3>1. \A d \in DOMAIN row : row[d].column = row[c].column => d = c
      BY <1>8, <2>1, <2>2, <2>4
    <3>2. row[c].column = name
      BY <1>8, <2>2
    <3>3. ExtractByName(row, name) = row[c]
      BY <2>1, <3>1, <3>2, NameFindsTheField
    <3>4. (i - 1) + 1 = i /\ (c - 1) + 1 = c /\ ~ (i - 1 >= n) /\ ~ (c - 1 >= m)
      BY <1>2, <1>4
    <3>5. ExtractField(i - 1, c - 1) = row[c]
      BY <1>2, <2>1, <3>4 DEF ExtractField
    <3> QED BY <3>3, <3>5
  <2> QED BY <2>1, <2>2, <2>3, <2>4
<1>9. inspects => n > 0
  BY <1>2, <1>6 DEF TablesInv
<1>10. ASSUME n > 0, m > 0 PROVE FirstField = results[1][1]
  <2>1. Len(results[1]) = m /\ ~ (0 >= m) /\ ~ (0 >= n) /\ 0 + 1 = 1
    BY <1>5, <1>10
  <2> QED BY <1>2, <2>1 DEF FirstField, ExtractField
<1>11. ASSUME n > 1, m > 1 PROVE ShownAs(resultSet.rows[n][m], Shown(LastField.value))
  <2>1. n \in 1 .. n /\ n - 1 \in 1 .. n /\ m \in 1 .. m /\ n # 1 /\ m # 1
    BY <1>11
  <2>2. Len(results[n - 1]) = m /\ Len(results[n]) = m
    BY <1>5, <2>1
  <2>3. (n - 1) + 1 = n /\ (m - 1) + 1 = m /\ ~ (n - 1 >= n) /\ ~ (m - 1 >= m)
    BY <1>2, <1>4
  <2>4. LastField = ExtractField(n - 1, m - 1)
    BY <1>2, <2>1, <2>2 DEF LastField
  <2>5. ExtractField(n - 1, m - 1) = results[n][m]
    BY <1>2, <2>2, <2>3 DEF ExtractField
  <2> QED BY <1>5, <2>1, <2>4, <2>5
<1>12. ASSUME NEW i \in DOMAIN json, NEW c \in DOMAIN resultSet.columns
       PROVE  LET name == resultSet.columns[c]
                  same == {d \in DOMAIN resultSet.columns : resultSet.columns[d] = name} IN
              /\ IsLast(c, same) => ShownAs(resultSet.rows[i][c], json[i][name])
              /\ same = {c} =>
                    /\ ShownAs(resultSet.rows[i][c], Shown(ExtractByName(results[i], name).value))
                    /\ IsNull(ExtractField(i - 1, c - 1)) <=> resultSet.rows[i][c].kind = "null"
  <2>1. i \in 1 .. n /\ c \in 1 .. m
    BY <1>4, <1>7
  <2>2. PICK name : name = resultSet.columns[c]
    OBVIOUS
  <2>3. PICK same : same = {d \in DOMAIN resultSet.columns : resultSet.columns[d] = name}
    OBVIOUS
  <2>4. same = {d \in 1 .. m : resultSet.columns[d] = name}
    BY <1>4, <2>3
  <2>5. /\ IsLast(c, same) => ShownAs(resultSet.rows[i][c], json[i][name])
        /\ same = {c} =>
              /\ ShownAs(resultSet.rows[i][c], Shown(ExtractByName(results[i], name).value))
              /\ IsNull(ExtractField(i - 1, c - 1)) <=> resultSet.rows[i][c].kind = "null"
    BY <1>8, <2>1, <2>2, <2>4
  <2> QED BY <2>2, <2>3, <2>5
<1> DEFINE rows == Len(resultSet.rows)
           columns == Len(resultSet.columns)
<1>13. /\ inspects => rows > 0
       /\ rows > 0 /\ columns > 0 => FirstField = results[1][1]
       /\ rows > 1 /\ columns > 1 =>
             ShownAs(resultSet.rows[rows][columns], Shown(LastField.value))
  BY <1>3, <1>4, <1>9, <1>10, <1>11
<1> QED BY <1>7, <1>12, <1>13, Zenon DEF AnswersShowTheRows

\* For any statement and any result set, whatever the kinds, sizes and names of
\* its columns: an answer of 200 shows every row and every cell as they are, and
\* what a condition extracts are the cells it names.
THEOREM RowsShown == Spec => []AnswersShowTheRows
BY TablesInvariance, RowsAreShown, PTL

-------------------------------------------------------------------------------
(* The last item of a name                                                 *)

ValueSet == [type : Types, val : Int]
OfferSet == [name : STRING, value : ValueSet]
TextOfferSet == [name : STRING, value : [type : {"string"}, val : Int]]

LastIn(items, places, name, i) ==
    /\ i \in places /\ items[i].name = name
    /\ \A j \in places : items[j].name = name => j <= i

Silent(items, places, name) == \A i \in places : items[i].name # name

\* A parameter after the first n offers.
AfterOffers(q, p, offers, n) ==
    /\ q \in ParameterSet
    /\ q.name = p.name /\ q.editable = p.editable /\ q.condition = p.condition
    /\ \/ q.value = p.value /\ (p.editable => Silent(offers, 1 .. n, p.name))
       \/ /\ p.editable
          /\ \E i \in 1 .. n : LastIn(offers, 1 .. n, p.name, i) /\ q.value = offers[i].value

\* IdentifyParameters_ of Function: the loop over the parameters of the function
\* leaves an editable parameter with the value of the last of its name.
LEMMA IdentifyIs ==
    ASSUME NEW p \in ParameterSet, NEW offers \in Seq(OfferSet)
    PROVE  AfterOffers(Identify(p, offers), p, offers, Len(offers))
<1> DEFINE N == Len(offers)
           T == ParameterSet
           step == [n \in 1 .. N |-> [x \in T |-> Offered(x, offers[n])]]
           Loop(g) == g = [n \in 0 .. N |-> IF n = 0 THEN p ELSE Offered(g[n - 1], offers[n])]
<1>1. N \in Nat /\ DOMAIN offers = 1 .. N /\ \A n \in 1 .. N : offers[n] \in OfferSet
  OBVIOUS
<1> HIDE DEF N, T
<1>2. \E g \in [0 .. N -> T] : Loop(g)
  <2>1. ASSUME NEW n \in 1 .. N, NEW x \in T PROVE Offered(x, offers[n]) \in T
    <3>1. offers[n].value \in ValueSet
      BY <1>1 DEF OfferSet
    <3>2. [x EXCEPT !.value = offers[n].value] \in ParameterSet
      BY <3>1 DEF T, ParameterSet, ValueSet
    <3> QED BY <3>2 DEF Offered, T
  <2>2. AreTurns(step, N, T)
    BY <2>1 DEF AreTurns
  <2>3. p \in T
    BY DEF T
  <2> HIDE DEF step
  <2>4. PICK g \in [0 .. N -> T] : AreStates(g, N, p, step)
    BY <1>1, <2>2, <2>3, LoopExists
  <2>5. ASSUME NEW n \in 1 .. N PROVE g[n] = Offered(g[n - 1], offers[n])
    <3>1. g[n] = step[n][g[n - 1]]
      BY <2>4 DEF AreStates
    <3>2. g[n - 1] \in T
      BY <1>1, <2>4
    <3> QED BY <3>1, <3>2 DEF step
  <2>6. \A n \in 0 .. N : n = 0 \/ n \in 1 .. N
    BY <1>1
  <2>7. Loop(g)
    BY <1>1, <2>4, <2>5, <2>6 DEF AreStates
  <2> QED BY <2>7
<1>3. PICK after : after = CHOOSE g : Loop(g)
  OBVIOUS
<1>4. after[0] = p /\ \A n \in 1 .. N : after[n] = Offered(after[n - 1], offers[n])
  <2>1. Loop(after)
    <3> HIDE DEF Loop
    <3> QED BY <1>2, <1>3
  <2>2. after[0] = p
    BY <1>1, <2>1
  <2>3. ASSUME NEW n \in 1 .. N PROVE after[n] = Offered(after[n - 1], offers[n])
    BY <1>1, <2>1
  <2> QED BY <2>2, <2>3
<1>5. Identify(p, offers) = after[N]
  BY <1>3 DEF Identify, N
<1> DEFINE Good == {n \in 0 .. N : AfterOffers(after[n], p, offers, n)}
<1>6. 0 \in Good
  BY <1>1, <1>4 DEF AfterOffers, Silent
<1>7. ASSUME NEW n \in 0 .. N, n \in Good, n < N PROVE n + 1 \in Good
  <2>1. n + 1 \in 1 .. N /\ n \in Nat
    BY <1>1, <1>7
  <2>2. (n + 1) - 1 = n
    BY <2>1
  <2>3. after[n + 1] = Offered(after[n], offers[n + 1])
    BY <1>4, <2>1, <2>2
  <2>4. AfterOffers(after[n], p, offers, n)
    BY <1>7
  <2>5. \A i \in 1 .. n + 1 : i \in 1 .. n \/ i = n + 1
    BY <2>1
  <2>6. \A i \in 1 .. n : i \in 1 .. n + 1 /\ i <= n + 1
    BY <2>1
  <2>7. offers[n + 1].value \in ValueSet
    BY <1>1, <2>1 DEF OfferSet
  <2>8. CASE offers[n + 1].name = p.name /\ p.editable
    <3>1. after[n + 1] = [after[n] EXCEPT !.value = offers[n + 1].value]
      BY <2>3, <2>4, <2>8 DEF Offered, AfterOffers
    <3>2. /\ after[n + 1] \in ParameterSet
          /\ after[n + 1].name = p.name /\ after[n + 1].editable = p.editable
          /\ after[n + 1].condition = p.condition /\ after[n + 1].value = offers[n + 1].value
      BY <2>4, <2>7, <3>1 DEF AfterOffers, ParameterSet, ValueSet
    <3>3. LastIn(offers, 1 .. n + 1, p.name, n + 1)
      BY <2>1, <2>5, <2>6, <2>8 DEF LastIn
    <3>4. AfterOffers(after[n + 1], p, offers, n + 1)
      BY <2>1, <2>8, <3>2, <3>3 DEF AfterOffers
    <3> QED BY <2>1, <3>4
  <2>9. CASE ~ (offers[n + 1].name = p.name /\ p.editable)
    <3>1. after[n + 1] = after[n]
      BY <2>3, <2>4, <2>9 DEF Offered, AfterOffers
    <3>2. p.editable /\ Silent(offers, 1 .. n, p.name) => Silent(offers, 1 .. n + 1, p.name)
      BY <2>5, <2>9 DEF Silent
    <3>3. ASSUME p.editable, NEW i \in 1 .. n, LastIn(offers, 1 .. n, p.name, i)
          PROVE  i \in 1 .. n + 1 /\ LastIn(offers, 1 .. n + 1, p.name, i)
      BY <2>5, <2>6, <2>9, <3>3 DEF LastIn
    <3>4. AfterOffers(after[n + 1], p, offers, n + 1)
      BY <2>4, <3>1, <3>2, <3>3 DEF AfterOffers
    <3> QED BY <2>1, <3>4
  <2> QED BY <2>8, <2>9
<1>8. 0 .. N \subseteq Good
  <2> HIDE DEF Good
  <2> QED BY <1>1, <1>6, <1>7, Induction
<1>9. N \in 0 .. N
  BY <1>1
<1> QED BY <1>5, <1>8, <1>9 DEF N

\* The part of a list that is kept has the last item of a name at the places, if
\* there is one.
SameLast(items, places, kept, name) ==
    \/ Silent(items, places, name) /\ Silent(kept, DOMAIN kept, name)
    \/ \E i \in places : \E k \in DOMAIN kept :
          /\ LastIn(items, places, name, i) /\ LastIn(kept, DOMAIN kept, name, k)
          /\ kept[k] = items[i]

LEMMA KeptIs ==
    ASSUME NEW T, NEW items \in Seq(T), NEW places, places \subseteq DOMAIN items, NEW name
    PROVE  /\ Kept(items, places) \in Seq(T)
           /\ SameLast(items, places, Kept(items, places), name)
<1> DEFINE N == Len(items)
           S == Seq(T)
           Turn(x, n) == IF n \in places THEN Append(x, items[n]) ELSE x
           step == [n \in 1 .. N |-> [x \in S |-> Turn(x, n)]]
           Loop(g) == g = [n \in 0 .. N |->
                             IF n = 0 THEN <<>>
                             ELSE IF n \in places THEN Append(g[n - 1], items[n]) ELSE g[n - 1]]
<1>1. N \in Nat /\ DOMAIN items = 1 .. N /\ \A n \in 1 .. N : items[n] \in T
  OBVIOUS
<1> HIDE DEF N
<1>2. \E g \in [0 .. N -> S] : Loop(g)
  <2>1. \A n \in 1 .. N : \A x \in S : Turn(x, n) \in S
    BY <1>1
  <2>2. AreTurns(step, N, S)
    <3> HIDE DEF S, Turn
    <3> QED BY <2>1 DEF AreTurns
  <2>3. <<>> \in S
    OBVIOUS
  <2> HIDE DEF step, S
  <2>4. PICK g \in [0 .. N -> S] : AreStates(g, N, <<>>, step)
    BY <1>1, <2>2, <2>3, LoopExists
  <2>5. ASSUME NEW n \in 1 .. N
        PROVE  g[n] = IF n \in places THEN Append(g[n - 1], items[n]) ELSE g[n - 1]
    <3>1. g[n] = step[n][g[n - 1]]
      BY <2>4 DEF AreStates
    <3>2. g[n - 1] \in S
      BY <1>1, <2>4
    <3> QED BY <3>1, <3>2 DEF step
  <2>6. \A n \in 0 .. N : n = 0 \/ n \in 1 .. N
    BY <1>1
  <2>7. Loop(g)
    BY <1>1, <2>4, <2>5, <2>6 DEF AreStates
  <2> QED BY <2>7
<1>3. PICK kept : kept = CHOOSE g : Loop(g)
  OBVIOUS
<1>4. /\ kept[0] = <<>>
      /\ \A n \in 1 .. N :
            kept[n] = IF n \in places THEN Append(kept[n - 1], items[n]) ELSE kept[n - 1]
  <2>1. Loop(kept)
    <3> HIDE DEF Loop
    <3> QED BY <1>2, <1>3
  <2>2. kept[0] = <<>>
    BY <1>1, <2>1
  <2>3. ASSUME NEW n \in 1 .. N
        PROVE  kept[n] = IF n \in places THEN Append(kept[n - 1], items[n]) ELSE kept[n - 1]
    <3>1. n \in 0 .. N /\ n # 0
      BY <1>1
    <3> QED BY <2>1, <3>1
  <2> QED BY <2>2, <2>3
<1>5. Kept(items, places) = kept[N]
  BY <1>3 DEF Kept, N
<1> DEFINE UpTo(n) == {i \in places : i <= n}
           Good == {n \in 0 .. N : kept[n] \in S /\ SameLast(items, UpTo(n), kept[n], name)}
<1>6. 0 \in Good
  <2>1. UpTo(0) = {}
    BY <1>1
  <2>2. kept[0] \in S /\ DOMAIN kept[0] = {}
    BY <1>4
  <2> HIDE DEF UpTo, S
  <2> QED BY <1>1, <2>1, <2>2 DEF SameLast, Silent
<1>7. ASSUME NEW n \in 0 .. N, n \in Good, n < N PROVE n + 1 \in Good
  <2>1. n + 1 \in 1 .. N /\ n \in Nat
    BY <1>1, <1>7
  <2>2. (n + 1) - 1 = n
    BY <2>1
  <2>3. kept[n + 1] = IF n + 1 \in places THEN Append(kept[n], items[n + 1]) ELSE kept[n]
    BY <1>4, <2>1, <2>2
  <2>4. PICK before \in S : before = kept[n] /\ SameLast(items, UpTo(n), before, name)
    BY <1>7
  <2>5. CASE n + 1 \notin places
    <3>1. UpTo(n + 1) = UpTo(n)
      BY <1>1, <2>1, <2>5
    <3>2. kept[n + 1] = before
      BY <2>3, <2>4, <2>5
    <3> HIDE DEF UpTo
    <3>3. kept[n + 1] \in S /\ SameLast(items, UpTo(n + 1), kept[n + 1], name)
      BY <2>4, <3>1, <3>2
    <3> QED BY <2>1, <3>3
  <2>6. CASE n + 1 \in places
    <3>1. \A i : i \in UpTo(n + 1) <=> i \in UpTo(n) \/ i = n + 1
      BY <1>1, <2>1, <2>6
    <3>2. PICK longer : longer = Append(before, items[n + 1])
      OBVIOUS
    <3>3. PICK m \in Nat : m = Len(before) /\ DOMAIN before = 1 .. m
      OBVIOUS
    <3>4. /\ longer \in S /\ DOMAIN longer = 1 .. m + 1
          /\ longer[m + 1] = items[n + 1] /\ \A k \in 1 .. m : longer[k] = before[k]
      BY <1>1, <2>1, <3>2, <3>3
    <3>5. \A k : k \in DOMAIN longer <=> k \in DOMAIN before \/ k = m + 1
      BY <3>3, <3>4
    <3>6. \A i \in UpTo(n) : i <= n + 1 /\ i \in Nat
      BY <1>1, <2>1
    <3>7. \A k \in DOMAIN before : k <= m + 1 /\ longer[k] = before[k]
      BY <3>3, <3>4
    <3>8. n + 1 <= n + 1 /\ m + 1 <= m + 1
      BY <2>1, <3>3
    <3> HIDE DEF UpTo, S
    <3>9. ASSUME items[n + 1].name = name PROVE SameLast(items, UpTo(n + 1), longer, name)
      <4>1. LastIn(items, UpTo(n + 1), name, n + 1)
        BY <3>1, <3>6, <3>8, <3>9 DEF LastIn
      <4>2. LastIn(longer, DOMAIN longer, name, m + 1)
        BY <3>4, <3>5, <3>7, <3>8, <3>9 DEF LastIn
      <4> QED BY <3>1, <3>4, <3>5, <4>1, <4>2 DEF SameLast
    <3>10. ASSUME items[n + 1].name # name PROVE SameLast(items, UpTo(n + 1), longer, name)
      <4>1. ASSUME Silent(items, UpTo(n), name), Silent(before, DOMAIN before, name)
            PROVE  /\ Silent(items, UpTo(n + 1), name)
                   /\ Silent(longer, DOMAIN longer, name)
        BY <3>1, <3>4, <3>5, <3>7, <3>10, <4>1 DEF Silent
      <4>2. ASSUME NEW i \in UpTo(n), LastIn(items, UpTo(n), name, i)
            PROVE  i \in UpTo(n + 1) /\ LastIn(items, UpTo(n + 1), name, i)
        BY <3>1, <3>10, <4>2 DEF LastIn
      <4>3. ASSUME NEW k \in DOMAIN before, LastIn(before, DOMAIN before, name, k)
            PROVE  k \in DOMAIN longer /\ LastIn(longer, DOMAIN longer, name, k)
        BY <3>4, <3>5, <3>7, <3>10, <4>3 DEF LastIn
      <4> QED BY <2>4, <3>7, <4>1, <4>2, <4>3 DEF SameLast
    <3>11. SameLast(items, UpTo(n + 1), longer, name)
      BY <3>9, <3>10
    <3>12. kept[n + 1] = longer
      BY <2>3, <2>4, <2>6, <3>2
    <3> QED BY <2>1, <3>4, <3>11, <3>12
  <2> QED BY <2>5, <2>6
<1>8. 0 .. N \subseteq Good
  <2> HIDE DEF Good
  <2> QED BY <1>1, <1>6, <1>7, Induction
<1>9. N \in 0 .. N /\ UpTo(N) = places
  BY <1>1
<1> HIDE DEF UpTo
<1> QED BY <1>5, <1>8, <1>9

-------------------------------------------------------------------------------
(* What a body offers                                                      *)

\* The value that is made of an item.
ItemText(items, i) == Text(items[i].val)

\* The last offer of a name is made of the last item of the name at the places.
Says(offers, name, items, places) ==
    \E i \in places : \E k \in DOMAIN offers :
       /\ LastIn(items, places, name, i) /\ LastIn(offers, DOMAIN offers, name, k)
       /\ offers[k].value = ItemText(items, i)

\* There is none of the name in the list, and no offer of it.
Nothing(offers, name, items, places) ==
    Silent(items, places, name) /\ Silent(offers, DOMAIN offers, name)

LEMMA NamedIs ==
    ASSUME NEW T, \A item \in T : item.name \in STRING /\ item.val \in Int,
           NEW items \in Seq(T)
    PROVE  /\ AllNamed(items) \in Seq(TextOfferSet) /\ DOMAIN AllNamed(items) = DOMAIN items
           /\ \A i \in DOMAIN items : /\ AllNamed(items)[i].name = items[i].name
                                      /\ AllNamed(items)[i].value = Text(items[i].val)
<1> DEFINE all == AllNamed(items)
<1>1. PICK n \in Nat : n = Len(items) /\ DOMAIN items = 1 .. n
  OBVIOUS
<1>2. all = [i \in 1 .. n |-> Named(items[i])]
  BY <1>1 DEF AllNamed
<1>3. ASSUME NEW i \in 1 .. n
      PROVE  /\ Named(items[i]) \in TextOfferSet /\ Named(items[i]).name = items[i].name
             /\ Named(items[i]).value = Text(items[i].val)
  <2>1. items[i] \in T
    BY <1>1
  <2> QED BY <2>1 DEF Named, TextOfferSet, Text, Value
<1> HIDE DEF all
<1>4. all \in [1 .. n -> TextOfferSet]
  BY <1>2, <1>3
<1>5. all \in Seq(TextOfferSet)
  BY <1>4
<1> QED BY <1>1, <1>2, <1>3, <1>5 DEF all

\* A whole list of a body, and the part of one that is kept.
LEMMA ListSays ==
    ASSUME NEW T, \A item \in T : item.name \in STRING /\ item.val \in Int,
           NEW items \in Seq(T), NEW name
    PROVE  \/ Says(AllNamed(items), name, items, DOMAIN items)
           \/ Nothing(AllNamed(items), name, items, DOMAIN items)
<1> DEFINE found == {i \in DOMAIN items : items[i].name = name}
<1>1. PICK all : all = AllNamed(items)
  OBVIOUS
<1>2. /\ DOMAIN all = DOMAIN items
      /\ \A i \in DOMAIN items : all[i].name = items[i].name /\ all[i].value = ItemText(items, i)
  BY <1>1, NamedIs DEF ItemText
<1>3. CASE found = {}
  <2>1. Nothing(all, name, items, DOMAIN items)
    BY <1>2, <1>3 DEF Nothing, Silent
  <2> QED BY <1>1, <2>1
<1>4. CASE found # {}
  <2>1. PICK n \in Nat : DOMAIN items = 1 .. n
    OBVIOUS
  <2>2. PICK i \in found : \A j \in found : j <= i
    BY <1>4, <2>1, LargestExists
  <2>3. LastIn(items, DOMAIN items, name, i)
    BY <2>2 DEF LastIn
  <2>4. LastIn(all, DOMAIN all, name, i)
    BY <1>2, <2>2 DEF LastIn
  <2>5. Says(all, name, items, DOMAIN items)
    BY <1>2, <2>2, <2>3, <2>4 DEF Says
  <2> QED BY <1>1, <2>5
<1> QED BY <1>3, <1>4

LEMMA PartSays ==
    ASSUME NEW T, \A item \in T : item.name \in STRING /\ item.val \in Int,
           NEW items \in Seq(T), NEW places, places \subseteq DOMAIN items, NEW name
    PROVE  /\ AllNamed(Kept(items, places)) \in Seq(TextOfferSet)
           /\ \/ Says(AllNamed(Kept(items, places)), name, items, places)
              \/ Nothing(AllNamed(Kept(items, places)), name, items, places)
<1>1. PICK kept \in Seq(T) : kept = Kept(items, places) /\ SameLast(items, places, kept, name)
  BY KeptIs
<1>2. PICK all : all = AllNamed(kept)
  OBVIOUS
<1>3. /\ all \in Seq(TextOfferSet) /\ DOMAIN all = DOMAIN kept
      /\ \A i \in DOMAIN kept : all[i].name = kept[i].name /\ all[i].value = Text(kept[i].val)
  BY <1>2, NamedIs
<1>4. CASE Silent(items, places, name) /\ Silent(kept, DOMAIN kept, name)
  <2>1. Nothing(all, name, items, places)
    BY <1>3, <1>4 DEF Nothing, Silent
  <2> QED BY <1>1, <1>2, <1>3, <2>1
<1>5. CASE ~ (Silent(items, places, name) /\ Silent(kept, DOMAIN kept, name))
  <2>1. PICK i \in places, k \in DOMAIN kept :
           /\ LastIn(items, places, name, i) /\ LastIn(kept, DOMAIN kept, name, k)
           /\ kept[k] = items[i]
    BY <1>1, <1>5 DEF SameLast
  <2>2. LastIn(all, DOMAIN all, name, k)
    BY <1>3, <2>1 DEF LastIn
  <2>3. all[k].value = ItemText(items, i) /\ k \in DOMAIN all
    BY <1>3, <2>1 DEF ItemText
  <2>4. Says(all, name, items, places)
    BY <2>1, <2>2, <2>3 DEF Says
  <2> QED BY <1>1, <1>2, <1>3, <2>4
<1> QED BY <1>4, <1>5

\* Of two lists of offers the second has the last word.
LEMMA JoinedSays ==
    ASSUME NEW s \in Seq(TextOfferSet), NEW t \in Seq(TextOfferSet), NEW name,
           NEW items, NEW places
    PROVE  /\ Says(t, name, items, places) => Says(s \o t, name, items, places)
           /\ Silent(t, DOMAIN t, name) /\ Says(s, name, items, places)
                 => Says(s \o t, name, items, places)
           /\ Silent(s, DOMAIN s, name) /\ Silent(t, DOMAIN t, name)
                 => Silent(s \o t, DOMAIN (s \o t), name)
<1>1. PICK n \in Nat, m \in Nat : DOMAIN s = 1 .. n /\ DOMAIN t = 1 .. m /\ n = Len(s) /\ m = Len(t)
  OBVIOUS
<1>2. PICK joined : joined = s \o t
  OBVIOUS
<1>3. /\ DOMAIN joined = 1 .. n + m
      /\ \A k \in 1 .. n : joined[k] = s[k]
      /\ \A k \in 1 .. m : joined[n + k] = t[k]
  BY <1>1, <1>2
<1>4. \A k \in 1 .. n + m : k \in 1 .. n \/ \E j \in 1 .. m : k = n + j
  <2>1. ASSUME NEW k \in 1 .. n + m, k \notin 1 .. n PROVE k - n \in 1 .. m /\ k = n + (k - n)
    BY <1>1, <2>1
  <2> QED BY <2>1
<1>5. ASSUME NEW k \in 1 .. m, LastIn(t, DOMAIN t, name, k)
      PROVE  n + k \in DOMAIN joined /\ LastIn(joined, DOMAIN joined, name, n + k)
  <2>1. n + k \in 1 .. n + m /\ joined[n + k].name = name
    BY <1>1, <1>3, <1>5 DEF LastIn
  <2>2. ASSUME NEW j \in 1 .. n + m, joined[j].name = name PROVE j <= n + k
    <3>1. CASE j \in 1 .. n
      BY <1>1, <3>1
    <3>2. CASE \E l \in 1 .. m : j = n + l
      <4>1. PICK l \in 1 .. m : j = n + l
        BY <3>2
      <4>2. t[l].name = name
        BY <1>3, <2>2, <4>1
      <4>3. l <= k
        BY <1>1, <1>5, <4>2 DEF LastIn
      <4> QED BY <1>1, <4>1, <4>3
    <3> QED BY <1>4, <3>1, <3>2
  <2> QED BY <1>3, <2>1, <2>2 DEF LastIn
<1>6. ASSUME NEW k \in 1 .. n, LastIn(s, DOMAIN s, name, k), Silent(t, DOMAIN t, name)
      PROVE  k \in DOMAIN joined /\ LastIn(joined, DOMAIN joined, name, k)
  <2>1. k \in 1 .. n + m /\ joined[k].name = name
    BY <1>1, <1>3, <1>6 DEF LastIn
  <2>2. ASSUME NEW j \in 1 .. n + m, joined[j].name = name PROVE j <= k
    <3>1. CASE j \in 1 .. n
      BY <1>1, <1>3, <1>6, <2>2, <3>1 DEF LastIn
    <3>2. CASE \E l \in 1 .. m : j = n + l
      BY <1>1, <1>3, <1>6, <2>2, <3>2 DEF Silent
    <3> QED BY <1>4, <3>1, <3>2
  <2> QED BY <1>3, <2>1, <2>2 DEF LastIn
<1>7. Says(t, name, items, places) => Says(joined, name, items, places)
  <2> SUFFICES ASSUME Says(t, name, items, places) PROVE Says(joined, name, items, places)
    OBVIOUS
  <2>1. PICK i \in places, k \in DOMAIN t :
           /\ LastIn(items, places, name, i) /\ LastIn(t, DOMAIN t, name, k)
           /\ t[k].value = ItemText(items, i)
    BY DEF Says
  <2>2. joined[n + k] = t[k] /\ k \in 1 .. m
    BY <1>1, <1>3, <2>1
  <2>3. n + k \in DOMAIN joined /\ LastIn(joined, DOMAIN joined, name, n + k)
    BY <1>5, <2>1, <2>2
  <2> QED BY <2>1, <2>2, <2>3 DEF Says
<1>8. Silent(t, DOMAIN t, name) /\ Says(s, name, items, places) => Says(joined, name, items, places)
  <2> SUFFICES ASSUME Silent(t, DOMAIN t, name), Says(s, name, items, places)
               PROVE  Says(joined, name, items, places)
    OBVIOUS
  <2>1. PICK i \in places, k \in DOMAIN s :
           /\ LastIn(items, places, name, i) /\ LastIn(s, DOMAIN s, name, k)
           /\ s[k].value = ItemText(items, i)
    BY DEF Says
  <2>2. joined[k] = s[k] /\ k \in 1 .. n
    BY <1>1, <1>3, <2>1
  <2>3. k \in DOMAIN joined /\ LastIn(joined, DOMAIN joined, name, k)
    BY <1>6, <2>1, <2>2
  <2> QED BY <2>1, <2>2, <2>3 DEF Says
<1>9. Silent(s, DOMAIN s, name) /\ Silent(t, DOMAIN t, name) => Silent(joined, DOMAIN joined, name)
  <2> SUFFICES ASSUME Silent(s, DOMAIN s, name), Silent(t, DOMAIN t, name),
                      NEW k \in 1 .. n + m
               PROVE  joined[k].name # name
    BY <1>3 DEF Silent
  <2>1. CASE k \in 1 .. n
    BY <1>1, <1>3, <2>1 DEF Silent
  <2>2. CASE \E j \in 1 .. m : k = n + j
    BY <1>1, <1>3, <2>2 DEF Silent
  <2> QED BY <1>4, <2>1, <2>2
<1> QED BY <1>2, <1>7, <1>8, <1>9

PairSet == [name : STRING, val : Int]
FileSet == [name : STRING, size : Nat, val : Int]
ElementSet == [lacks : {"nothing", "object", "name", "value"}, name : STRING, val : Int]

BodyOK(b) ==
    /\ b.type \in {"multipart", "json", "pairs"}
    /\ b.pairs \in Seq(PairSet) /\ b.files \in Seq(FileSet) /\ b.json \in Seq(ElementSet)

LEMMA BodyIsOK == ASSUME NEW b \in Bodies \cup {NoBody} PROVE BodyOK(b)
<1>1. CASE b \in Bodies
  BY <1>1, BodiesAssumption DEF BodyOK, PairSet, FileSet, ElementSet
<1>2. CASE b = NoBody
  BY <1>2 DEF BodyOK, NoBody
<1> QED BY <1>1, <1>2

SaysOrNothing(offers, name, items, places) ==
    Says(offers, name, items, places) \/ Nothing(offers, name, items, places)

\* IdentifyParameters_ of RootHandler: what a body offers for a name, in the order
\* in which its parts have the last word.
LEMMA GivenIs ==
    ASSUME BodyOK(body), NEW max, NEW name
    PROVE  /\ Given(max) \in Seq(TextOfferSet)
           /\ body.type = "multipart" =>
                 \/ Says(Given(max), name, body.files, SmallEnough(max))
                 \/ /\ Silent(body.files, SmallEnough(max), name)
                    /\ SaysOrNothing(Given(max), name, body.pairs, DOMAIN body.pairs)
           /\ body.type = "json" => SaysOrNothing(Given(max), name, body.json, Complete)
           /\ body.type = "pairs" =>
                 \/ Says(Given(max), name, body.json, Complete)
                 \/ /\ Silent(body.json, Complete, name)
                    /\ SaysOrNothing(Given(max), name, body.pairs, DOMAIN body.pairs)
<1>1. PICK pairs : pairs = AllNamed(body.pairs)
  OBVIOUS
<1>2. /\ pairs \in Seq(TextOfferSet)
      /\ SaysOrNothing(pairs, name, body.pairs, DOMAIN body.pairs)
  <2>1. \A item \in PairSet : item.name \in STRING /\ item.val \in Int
    BY DEF PairSet
  <2>2. body.pairs \in Seq(PairSet)
    BY DEF BodyOK
  <2>3. pairs \in Seq(TextOfferSet)
    BY <1>1, <2>1, <2>2, NamedIs
  <2> QED BY <1>1, <2>1, <2>2, <2>3, ListSays DEF SaysOrNothing
<1>3. PICK files : files = FromFiles(max)
  OBVIOUS
<1>4. /\ files \in Seq(TextOfferSet)
      /\ SaysOrNothing(files, name, body.files, SmallEnough(max))
  <2>1. \A item \in FileSet : item.name \in STRING /\ item.val \in Int
    BY DEF FileSet
  <2>2. body.files \in Seq(FileSet) /\ SmallEnough(max) \subseteq DOMAIN body.files
    BY DEF BodyOK, SmallEnough
  <2> QED BY <1>3, <2>1, <2>2, PartSays DEF SaysOrNothing, FromFiles
<1>5. PICK elements : elements = FromJSON
  OBVIOUS
<1>6. /\ elements \in Seq(TextOfferSet)
      /\ SaysOrNothing(elements, name, body.json, Complete)
  <2>1. \A item \in ElementSet : item.name \in STRING /\ item.val \in Int
    BY DEF ElementSet
  <2>2. body.json \in Seq(ElementSet) /\ Complete \subseteq DOMAIN body.json
    BY DEF BodyOK, Complete
  <2> QED BY <1>5, <2>1, <2>2, PartSays DEF SaysOrNothing, FromJSON
<1>7. ASSUME NEW last \in Seq(TextOfferSet), NEW items, NEW places,
             SaysOrNothing(last, name, items, places)
      PROVE  /\ pairs \o last \in Seq(TextOfferSet)
             /\ \/ Says(pairs \o last, name, items, places)
                \/ /\ Silent(items, places, name)
                   /\ SaysOrNothing(pairs \o last, name, body.pairs, DOMAIN body.pairs)
  <2>1. pairs \o last \in Seq(TextOfferSet)
    BY <1>2
  <2>2. CASE Says(last, name, items, places)
    BY <1>2, <2>1, <2>2, JoinedSays
  <2>3. CASE Nothing(last, name, items, places)
    <3>1. Silent(items, places, name) /\ Silent(last, DOMAIN last, name)
      BY <2>3 DEF Nothing
    <3>2. CASE Says(pairs, name, body.pairs, DOMAIN body.pairs)
      BY <1>2, <2>1, <3>1, <3>2, JoinedSays DEF SaysOrNothing
    <3>3. CASE Nothing(pairs, name, body.pairs, DOMAIN body.pairs)
      BY <1>2, <2>1, <3>1, <3>3, JoinedSays DEF SaysOrNothing, Nothing
    <3> QED BY <1>2, <3>2, <3>3 DEF SaysOrNothing
  <2> QED BY <1>7, <2>2, <2>3 DEF SaysOrNothing
<1>8. CASE body.type = "multipart"
  <2>1. Given(max) = pairs \o files
    BY <1>1, <1>3, <1>8 DEF Given, FromForm
  <2> QED BY <1>4, <1>7, <1>8, <2>1
<1>9. CASE body.type = "json"
  <2>1. Given(max) = elements
    BY <1>5, <1>9 DEF Given
  <2> QED BY <1>6, <1>9, <2>1
<1>10. CASE body.type = "pairs"
  <2>1. Given(max) = pairs \o elements
    BY <1>1, <1>5, <1>10 DEF Given, FromQuery
  <2> QED BY <1>6, <1>7, <1>10, <2>1
<1> QED BY <1>8, <1>9, <1>10 DEF BodyOK

\* What becomes of a parameter that is offered values.
LEMMA IdentifySays ==
    ASSUME NEW p \in ParameterSet, NEW offers \in Seq(TextOfferSet), NEW items, NEW places
    PROVE  /\ Identify(p, offers) \in ParameterSet
           /\ Identify(p, offers).name = p.name /\ Identify(p, offers).editable = p.editable
           /\ ~ p.editable \/ Silent(offers, DOMAIN offers, p.name) =>
                 Identify(p, offers).value = p.value
           /\ p.editable /\ Says(offers, p.name, items, places) =>
                 \E i \in places :
                    /\ LastIn(items, places, p.name, i)
                    /\ Identify(p, offers).value = ItemText(items, i)
<1>1. PICK q : q = Identify(p, offers)
  OBVIOUS
<1>2. offers \in Seq(OfferSet)
  <2>1. TextOfferSet \subseteq OfferSet
    BY DEF TextOfferSet, OfferSet, ValueSet, Types
  <2> QED BY <2>1
<1>3. PICK n \in Nat : n = Len(offers) /\ DOMAIN offers = 1 .. n
  OBVIOUS
<1>4. AfterOffers(q, p, offers, n)
  BY <1>1, <1>2, <1>3, IdentifyIs
<1>5. q \in ParameterSet /\ q.name = p.name /\ q.editable = p.editable
  BY <1>4 DEF AfterOffers
<1>6. ASSUME ~ p.editable \/ Silent(offers, DOMAIN offers, p.name) PROVE q.value = p.value
  BY <1>3, <1>4, <1>6 DEF AfterOffers, Silent, LastIn
<1>7. ASSUME p.editable, Says(offers, p.name, items, places)
      PROVE  \E i \in places : LastIn(items, places, p.name, i) /\ q.value = ItemText(items, i)
  <2>1. PICK i \in places, k \in DOMAIN offers :
           /\ LastIn(items, places, p.name, i) /\ LastIn(offers, DOMAIN offers, p.name, k)
           /\ offers[k].value = ItemText(items, i)
    BY <1>7 DEF Says
  <2>2. ~ Silent(offers, 1 .. n, p.name)
    BY <1>3, <2>1 DEF Silent, LastIn
  <2>3. PICK j \in 1 .. n : LastIn(offers, 1 .. n, p.name, j) /\ q.value = offers[j].value
    BY <1>4, <1>7, <2>2 DEF AfterOffers
  <2>4. j <= k /\ k <= j /\ k \in 1 .. n
    BY <1>3, <2>1, <2>3 DEF LastIn
  <2>5. j = k
    BY <2>4
  <2> QED BY <2>1, <2>3, <2>5
<1> QED BY <1>1, <1>5, <1>6, <1>7

LEMMA IdentifyStays ==
    ASSUME NEW p \in ParameterSet, NEW offers \in Seq(TextOfferSet)
    PROVE  /\ Identify(p, offers) \in ParameterSet
           /\ Identify(p, offers).name = p.name /\ Identify(p, offers).editable = p.editable
BY IdentifySays

-------------------------------------------------------------------------------
(* The invariant of the parameters                                         *)

\* The parameter of an action that ReplaceParamater_ found.
Replaced(k) ==
    /\ replacement # <<>> /\ replacement[1].name = declared[k].name
    /\ \A j \in OfName(declared, declared[k]) : k <= j

\* A parameter of the action once those of the function were handed to it.
AsGiven(k) ==
    LET p == Identify(declared[k], given)
    IN  IF Replaced(k) /\ declared[k].editable THEN [p EXCEPT !.value = replacement[1].value]
        ELSE p

Identified == {"identified", "compose", "rows", "condition", "json"}

ParametersInv ==
    /\ body \in Bodies \cup {NoBody} /\ declared \in Declared \cup {<<>>}
    /\ given \in Seq(TextOfferSet)
    /\ parameters \in Seq(ParameterSet) /\ DOMAIN parameters = DOMAIN declared
    /\ \A i \in DOMAIN replacement : replacement[i].value \in ValueSet
    /\ replacement = <<>> \/ replacement = <<replacement[1]>>
    /\ phase \in {"new", "main", "running", "body", "identified"} => replacement = <<>>
    /\ phase = "body" => parameters = declared
    /\ phase \in Identified =>
          /\ limit \in Limits /\ given = Given(limit)
          /\ \A k \in DOMAIN declared : parameters[k] = AsGiven(k)

LEMMA InitParameters == Init => ParametersInv
<1> SUFFICES ASSUME Init PROVE ParametersInv
  OBVIOUS
<1>1. /\ body = NoBody /\ given = <<>> /\ declared = <<>> /\ parameters = <<>>
      /\ replacement = <<>> /\ phase = "new"
  BY DEF Init, ParametersInit
<1> QED BY <1>1 DEF ParametersInv, Identified

\* What is given depends on the body only, the limit on the settings only.
LEMMA GivenStays ==
    ASSUME UNCHANGED body, UNCHANGED limit PROVE Given(limit)' = Given(limit)
<1>1. SmallEnough(limit)' = SmallEnough(limit) /\ Complete' = Complete
  BY DEF SmallEnough, Complete
<1>2. FromFiles(limit)' = FromFiles(limit) /\ FromJSON' = FromJSON
  BY <1>1 DEF FromFiles, FromJSON
<1>3. FromForm' = FromForm /\ FromQuery' = FromQuery
  BY DEF FromForm, FromQuery
<1> QED BY <1>2, <1>3 DEF Given

LEMMA LimitsStay == ASSUME UNCHANGED settings PROVE Limits' = Limits
BY DEF Limits, GetSetting

\* Steps that leave the parameters alone.
LEMMA ParametersStay ==
    ASSUME ParametersInv, UNCHANGED parametersVars, UNCHANGED settings \/ phase' \notin Identified,
           phase' \in {"new", "main", "running", "body", "identified"} =>
              phase \in {"new", "main", "running", "body", "identified"},
           phase' = "body" => phase = "body", phase' \in Identified => phase \in Identified
    PROVE  ParametersInv'
<1>1. \A k : AsGiven(k)' = AsGiven(k)
  BY DEF parametersVars, AsGiven, Replaced
<1>2. ASSUME phase' \in Identified
      PROVE  /\ limit' \in Limits' /\ given' = Given(limit)'
             /\ \A k \in DOMAIN declared' : parameters'[k] = AsGiven(k)'
  <2>1. Limits' = Limits /\ Given(limit)' = Given(limit)
    BY <1>2, LimitsStay, GivenStays DEF parametersVars
  <2> QED BY <1>1, <1>2, <2>1 DEF ParametersInv, parametersVars
<1> QED BY <1>2 DEF ParametersInv, parametersVars

LEMMA IdentifyAllKeeps == ASSUME ParametersInv, IdentifyAll PROVE ParametersInv'
<1>1. /\ phase = "body" /\ phase' = "identified" /\ limit' \in Limits /\ given' = Given(limit')
      /\ parameters' = [i \in DOMAIN parameters |-> Identify(parameters[i], given')]
      /\ UNCHANGED <<body, declared, replacement, settings>>
  BY DEF IdentifyAll, Request, At, IdentifyParameters, settingsVars
<1>2. parameters = declared /\ replacement = <<>> /\ parameters \in Seq(ParameterSet)
  BY <1>1 DEF ParametersInv
<1>3. BodyOK(body)
  BY BodyIsOK DEF ParametersInv
<1>4. given' \in Seq(TextOfferSet)
  BY <1>1, <1>3, GivenIs
<1>5. PICK n \in Nat : n = Len(parameters) /\ DOMAIN parameters = 1 .. n
  BY <1>2
<1>6. PICK offers \in Seq(TextOfferSet) : offers = given'
  BY <1>4
<1>7. parameters' = [i \in 1 .. n |-> Identify(parameters[i], offers)]
  BY <1>1, <1>5, <1>6
<1>8. \A i \in 1 .. n : Identify(parameters[i], offers) \in ParameterSet
  <2>1. \A i \in 1 .. n : parameters[i] \in ParameterSet
    BY <1>2, <1>5
  <2> QED BY <2>1, IdentifySays
<1>9. parameters' \in [1 .. n -> ParameterSet]
  BY <1>7, <1>8
<1>10. parameters' \in Seq(ParameterSet)
  BY <1>9
<1>11. DOMAIN parameters' = DOMAIN declared'
  BY <1>1, <1>2, <1>5, <1>7
<1>12. Limits' = Limits /\ Given(limit)' = Given(limit')
  <2>1. SmallEnough(limit)' = SmallEnough(limit') /\ Complete' = Complete
    BY <1>1 DEF SmallEnough, Complete
  <2>2. FromFiles(limit)' = FromFiles(limit') /\ FromJSON' = FromJSON
    BY <1>1, <2>1 DEF FromFiles, FromJSON
  <2>3. FromForm' = FromForm /\ FromQuery' = FromQuery
    BY <1>1 DEF FromForm, FromQuery
  <2>4. Given(limit)' = Given(limit')
    BY <1>1, <2>2, <2>3 DEF Given
  <2> QED BY <1>1, <2>4, LimitsStay
<1>13. ASSUME NEW k \in DOMAIN declared' PROVE parameters'[k] = AsGiven(k)'
  <2>1. ~ Replaced(k)'
    BY <1>1, <1>2 DEF Replaced
  <2>2. AsGiven(k)' = Identify(declared'[k], given')
    BY <2>1 DEF AsGiven
  <2> QED BY <1>1, <1>2, <2>2
<1> QED BY <1>1, <1>2, <1>4, <1>10, <1>11, <1>12, <1>13 DEF ParametersInv, Identified

LEMMA ReplaceKeeps == ASSUME ParametersInv, Replace PROVE ParametersInv'
<1> DEFINE value == Value("int", 1)
           n == Len(parameters)
<1>1. PICK d \in DOMAIN declared :
         /\ phase = "identified" /\ phase' = "compose" /\ UNCHANGED settings
         /\ ReplaceParameter(declared[d].name, value)
  BY DEF Replace, Request, At, settingsVars
<1>2. PICK name : name = declared[d].name
  OBVIOUS
<1> DEFINE found == {i \in DOMAIN parameters : parameters[i].name = name}
           first == CHOOSE i \in found : \A j \in found : i <= j
<1>3. /\ replacement' = <<[name |-> name, value |-> value]>>
      /\ parameters' = IF found = {} \/ ~ parameters[first].editable THEN parameters
                       ELSE [parameters EXCEPT ![first].value = value]
      /\ UNCHANGED <<body, limit, given, declared>>
  BY <1>1, <1>2 DEF ReplaceParameter
<1>4. /\ parameters \in Seq(ParameterSet) /\ DOMAIN parameters = DOMAIN declared
      /\ DOMAIN parameters = 1 .. n /\ n \in Nat /\ declared \in Seq(ParameterSet)
      /\ given \in Seq(TextOfferSet)
  BY DeclaredAssumption DEF ParametersInv
<1>5. limit \in Limits /\ given = Given(limit)
  BY <1>1 DEF ParametersInv, Identified
<1>6. ASSUME NEW k \in DOMAIN declared
      PROVE  /\ parameters[k] = Identify(declared[k], given)
             /\ parameters[k] \in ParameterSet /\ declared[k] \in ParameterSet
             /\ parameters[k].name = declared[k].name
             /\ parameters[k].editable = declared[k].editable
  <2>1. replacement = <<>> /\ parameters[k] = AsGiven(k)
    BY <1>1 DEF ParametersInv, Identified
  <2>2. parameters[k] = Identify(declared[k], given)
    BY <2>1 DEF AsGiven, Replaced
  <2>3. declared[k] \in ParameterSet
    <3>1. declared \in Seq(ParameterSet)
      BY <1>4
    <3> QED BY <3>1
  <2>4. PICK p \in ParameterSet : p = declared[k]
    BY <2>3
  <2> QED BY <1>4, <2>2, <2>4, IdentifyStays
<1>7. found = OfName(declared, declared[d]) /\ d \in found /\ found \subseteq Nat
  <2>1. found = {i \in DOMAIN declared : declared[i].name = name}
    BY <1>4, <1>6
  <2> QED BY <1>2, <1>4, <2>1 DEF OfName
<1>8. PICK x : x = first
  OBVIOUS
<1>9. x \in found /\ \A j \in found : x <= j
  <2> HIDE DEF found
  <2> QED BY <1>7, <1>8, SmallestIs
<1>10. x \in DOMAIN parameters /\ parameters[x].name = name
  BY <1>9
<1>11. \A k \in DOMAIN declared : Replaced(k)' <=> k = x
  <2> SUFFICES ASSUME NEW k \in DOMAIN declared PROVE Replaced(k)' <=> k = x
    OBVIOUS
  <2>1. Replaced(k)' <=> declared[k].name = name /\ \A j \in OfName(declared, declared[k]) : k <= j
    <3>1. replacement' # <<>> /\ replacement'[1].name = name /\ declared' = declared
      BY <1>3
    <3> QED BY <3>1 DEF Replaced
  <2>2. declared[x].name = name
    BY <1>4, <1>6, <1>10
  <2>3. declared[k].name = name => OfName(declared, declared[k]) = found
    BY <1>2, <1>7 DEF OfName
  <2>4. declared[k].name = name => k \in found
    BY <1>4, <1>6
  <2> HIDE DEF found
  <2>5. CASE declared[k].name = name
    <3>1. k \in found /\ x \in found /\ OfName(declared, declared[k]) = found
      BY <1>9, <2>3, <2>4, <2>5
    <3>2. k \in Nat /\ x \in Nat
      BY <1>7, <3>1
    <3>3. (\A j \in found : k <= j) <=> k = x
      BY <1>9, <3>1, <3>2
    <3> QED BY <2>1, <2>5, <3>1, <3>3
  <2>6. CASE declared[k].name # name
    BY <2>1, <2>2, <2>6
  <2> QED BY <2>5, <2>6
<1>12. value \in ValueSet
  BY DEF ValueSet, Types, Value
<1>13. /\ parameters' \in Seq(ParameterSet) /\ DOMAIN parameters' = DOMAIN parameters
       /\ \A k \in DOMAIN parameters :
             parameters'[k] = IF k = x /\ parameters[k].editable
                              THEN [parameters[k] EXCEPT !.value = value] ELSE parameters[k]
  <2> HIDE DEF found, value
  <2>1. CASE ~ parameters[x].editable
    <3>1. parameters' = parameters
      BY <1>3, <1>8, <2>1
    <3> QED BY <1>4, <2>1, <3>1
  <2>2. CASE parameters[x].editable
    <3>1. parameters' = [parameters EXCEPT ![x] = [parameters[x] EXCEPT !.value = value]]
      BY <1>3, <1>8, <1>9, <1>10, <2>2
    <3>2. [parameters[x] EXCEPT !.value = value] \in ParameterSet
      BY <1>4, <1>6, <1>10, <1>12 DEF ParameterSet, ValueSet
    <3>3. parameters' \in Seq(ParameterSet) /\ DOMAIN parameters' = DOMAIN parameters
      BY <1>4, <1>10, <3>1, <3>2
    <3> QED BY <1>10, <2>2, <3>1, <3>3
  <2> QED BY <2>1, <2>2
<1>14. ASSUME NEW k \in DOMAIN declared PROVE parameters'[k] = AsGiven(k)'
  <2>1. replacement'[1].value = value /\ UNCHANGED <<declared, given>>
    BY <1>3
  <2> HIDE DEF value
  <2>2. AsGiven(k)' = IF Replaced(k)' /\ declared[k].editable
                      THEN [Identify(declared[k], given) EXCEPT !.value = value]
                      ELSE Identify(declared[k], given)
    BY <2>1 DEF AsGiven
  <2>3. /\ parameters[k] = Identify(declared[k], given)
        /\ parameters[k].editable = declared[k].editable
    BY <1>6
  <2>4. Replaced(k)' <=> k = x
    BY <1>11
  <2>5. parameters'[k] = IF k = x /\ parameters[k].editable
                         THEN [parameters[k] EXCEPT !.value = value] ELSE parameters[k]
    BY <1>4, <1>13
  <2> QED BY <2>2, <2>3, <2>4, <2>5
<1>15. /\ \A i \in DOMAIN replacement' : replacement'[i].value \in ValueSet
       /\ replacement' = <<replacement'[1]>>
  BY <1>3, <1>12
<1>16. limit' \in Limits' /\ given' = Given(limit)'
  BY <1>1, <1>3, <1>5, LimitsStay, GivenStays
<1> QED BY <1>1, <1>3, <1>4, <1>13, <1>14, <1>15, <1>16 DEF ParametersInv, Identified

LEMMA StepParameters == ASSUME ControlInv, ParametersInv, [Next]_vars PROVE ParametersInv'
<1> DEFINE Early == {"new", "main", "running", "body", "identified"}
<1>1. CASE UNCHANGED vars
  <2>1. UNCHANGED parametersVars /\ UNCHANGED settings /\ phase' = phase
    BY <1>1 DEF vars, settingsVars
  <2> QED BY <2>1, ParametersStay
<1>2. CASE Construct \/ Main \/ Run
  <2>1. /\ UNCHANGED parametersVars /\ phase \in Early /\ phase' \in {"main", "running"}
    BY <1>2 DEF Construct, Main, Call, Run, At
  <2> QED BY <2>1, ParametersStay DEF Identified
<1>3. CASE \E b \in Bodies, list \in Declared : Arrive(b, list)
  <2>1. PICK b \in Bodies, list \in Declared : Arrive(b, list)
    BY <1>3
  <2>2. /\ phase = "running" /\ phase' = "body" /\ body' = b /\ declared' = list
        /\ parameters' = list /\ UNCHANGED <<limit, given, replacement>>
    BY <2>1 DEF Arrive, Request, At, ArriveWith
  <2>3. list \in Seq(ParameterSet) /\ replacement = <<>>
    BY <2>2, DeclaredAssumption DEF ParametersInv
  <2> QED BY <2>2, <2>3 DEF ParametersInv, Identified
<1>4. CASE BodyFails \/ Refuse \/ PushThrows \/ Answer
  <2>1. UNCHANGED parametersVars /\ phase' = "answered"
    BY <1>4 DEF BodyFails, Refuse, PushThrows, Answer, Request, Results, Answered
  <2> QED BY <2>1, ParametersStay DEF Identified
<1>5. CASE Keep \/ Pushed \/ Push \/ \E s \in ResultSets : Execute(s)
  <2>1. /\ UNCHANGED parametersVars /\ UNCHANGED settings
        /\ phase \in Identified /\ phase' \in {"compose", "rows", "condition"}
    BY <1>5 DEF Keep, Pushed, Push, Execute, Request, Results, At, settingsVars, Identified
  <2> QED BY <2>1, ParametersStay
<1>6. CASE Inspect
  <2>1. /\ UNCHANGED parametersVars /\ UNCHANGED settings
        /\ phase \in Identified /\ phase' \in {"answered", "json"}
    BY <1>6 DEF Inspect, Results, At, Answered, settingsVars, Identified
  <2> QED BY <2>1, ParametersStay
<1> QED BY <1>1, <1>2, <1>3, <1>4, <1>5, <1>6, IdentifyAllKeeps, ReplaceKeeps DEF Next

DataInv == SettingsInv /\ ControlInv /\ TablesInv /\ ParametersInv

LEMMA DataInvariance == Spec => []DataInv
<1>1. Init => ParametersInv
  BY InitParameters
<1>2. SettingsInv /\ ControlInv /\ TablesInv /\ ParametersInv /\ [Next]_vars => ParametersInv'
  BY StepParameters
<1> QED BY <1>1, <1>2, TablesInvariance, PTL DEF Spec, DataInv

-------------------------------------------------------------------------------
(* The types, and the last value                                           *)

LEMMA LimitIs ==
    ASSUME settings \in Seq(SettingSet), IsTyped(settings), limit \in Limits
    PROVE  /\ limit \in Int
           /\ \/ limit = GetSetting("max_file_size").val * Megabyte
              \/ GetSetting("max_file_size").val * Megabyte > MaxInt
<1>1. PICK size \in Int : size = GetSetting("max_file_size").val
  BY GottenIsTyped, DeclaredAssumption DEF GetSetting
<1>2. PICK bytes \in Int : bytes = size * Megabyte
  BY BodiesAssumption
<1>3. CASE bytes <= MaxInt
  BY <1>1, <1>2, <1>3 DEF Limits
<1>4. CASE bytes > MaxInt
  <2>1. limit \in {bytes, ((bytes + MaxInt + 1) % (2 * (MaxInt + 1))) - MaxInt - 1}
    BY <1>1, <1>2, <1>4, NumbersAssumption DEF Limits
  <2>2. PICK w \in Nat : w = 2 * (MaxInt + 1) /\ w > 0
    BY NumbersAssumption
  <2>3. PICK rest \in Int : rest = (bytes + MaxInt + 1) % w
    BY <2>2, NumbersAssumption
  <2>4. rest - MaxInt - 1 \in Int
    BY NumbersAssumption
  <2>5. limit \in Int
    BY <2>1, <2>2, <2>3, <2>4
  <2> QED BY <1>1, <1>2, <1>4, <2>5
<1> QED BY <1>2, <1>3, <1>4, NumbersAssumption

\* A value a parameter takes of items is that of the last one, said as the
\* property does.
Here(items, places, p) == {j \in places : items[j].name = p.name}

LEMMA LastIsLast ==
    ASSUME NEW items, NEW places, NEW p, NEW i \in places,
           LastIn(items, places, p.name, i)
    PROVE  IsLast(i, Here(items, places, p)) /\ i \in Here(items, places, p)
BY DEF LastIn, IsLast, Here

Takes(p, offers, items, places) ==
    \E i \in Here(items, places, p) :
       /\ IsLast(i, Here(items, places, p))
       /\ Identify(p, offers).value = ItemText(items, i)

LEMMA TakenIs ==
    ASSUME NEW p \in ParameterSet, NEW offers \in Seq(TextOfferSet), NEW items, NEW places,
           p.editable, Says(offers, p.name, items, places)
    PROVE  Takes(p, offers, items, places)
<1>1. PICK i \in places :
         LastIn(items, places, p.name, i) /\ Identify(p, offers).value = ItemText(items, i)
  BY IdentifySays
<1> QED BY <1>1, LastIsLast DEF Takes

\* The items of each part of the body that have the name of a parameter.
FilesOf(p) == {i \in OfName(body.files, p) : ~ TooLarge(body.files[i].size)}
ElementsOf(p) == {i \in OfName(body.json, p) : body.json[i].lacks = "nothing"}
PairsOf(p) == OfName(body.pairs, p)

LEMMA OneIsGiven ==
    ASSUME SettingsInv, ControlInv, ParametersInv, phase = "rows", NEW k \in DOMAIN parameters,
           NEW p, p = declared[k], NEW now, now = parameters[k].value
    PROVE  /\ ~ p.editable => now = p.value
           /\ p.editable /\ Replaced(k) => now = replacement[1].value
           /\ p.editable /\ ~ Replaced(k) /\ body.type = "multipart" /\ FilesOf(p) # {} =>
                 \E i \in FilesOf(p) : IsLast(i, FilesOf(p)) /\ now = ItemText(body.files, i)
           /\ p.editable /\ ~ Replaced(k) /\ body.type # "multipart" /\ ElementsOf(p) # {} =>
                 \E i \in ElementsOf(p) : IsLast(i, ElementsOf(p)) /\ now = ItemText(body.json, i)
           /\ p.editable /\ ~ Replaced(k) /\ body.type # "json" /\ PairsOf(p) # {}
                 /\ ~ (body.type = "multipart" /\ FilesOf(p) # {})
                 /\ ~ (body.type # "multipart" /\ ElementsOf(p) # {}) =>
                 \E i \in PairsOf(p) : IsLast(i, PairsOf(p)) /\ now = ItemText(body.pairs, i)
           /\ p.editable /\ ~ Replaced(k) /\ ~ (body.type # "json" /\ PairsOf(p) # {})
                 /\ ~ (body.type = "multipart" /\ FilesOf(p) # {})
                 /\ ~ (body.type # "multipart" /\ ElementsOf(p) # {}) => now = p.value
<1>1. /\ k \in DOMAIN declared /\ parameters[k] = AsGiven(k)
      /\ given = Given(limit) /\ BodyOK(body)
  BY BodyIsOK DEF ParametersInv, Identified
<1>2. p \in ParameterSet
  <2>1. declared \in Seq(ParameterSet)
    BY DeclaredAssumption DEF ParametersInv
  <2> QED BY <1>1, <2>1
<1>3. PICK offers \in Seq(TextOfferSet) : offers = given
  BY DEF ParametersInv
<1>4. PICK q \in ParameterSet : q = Identify(p, offers)
  BY <1>2, <1>3, IdentifyStays
<1>5. AsGiven(k) = IF Replaced(k) /\ p.editable
                   THEN [q EXCEPT !.value = replacement[1].value] ELSE q
  BY <1>3, <1>4 DEF AsGiven
<1>6. q.name = p.name /\ q.editable = p.editable
  BY <1>2, <1>3, <1>4, IdentifyStays
<1>7. p.editable /\ Replaced(k) => now = replacement[1].value
  BY <1>1, <1>5 DEF ParameterSet
<1>8. ~ p.editable \/ ~ Replaced(k) => now = q.value
  BY <1>1, <1>5
<1>9. ~ p.editable \/ Silent(offers, DOMAIN offers, p.name) => q.value = p.value
  BY <1>2, <1>4, IdentifySays
<1>10. ASSUME NEW items, NEW places, p.editable, Says(offers, p.name, items, places)
       PROVE  \E i \in Here(items, places, p) :
                 IsLast(i, Here(items, places, p)) /\ q.value = ItemText(items, i)
  <2>1. p.editable /\ Says(offers, p.name, items, places)
    BY <1>10
  <2>2. Takes(p, offers, items, places)
    BY <1>2, <1>3, <2>1, TakenIs
  <2> QED BY <1>4, <2>2 DEF Takes
<1>11. /\ FilesOf(p) = Here(body.files, SmallEnough(limit), p)
       /\ ElementsOf(p) = Here(body.json, Complete, p)
       /\ PairsOf(p) = Here(body.pairs, DOMAIN body.pairs, p)
  <2>1. limit \in Int
    BY LimitIs DEF SettingsInv, ControlInv, ParametersInv, Identified
  <2>2. \A i \in DOMAIN body.files : body.files[i].size \in Int
    <3>1. body.files \in Seq(FileSet) /\ \A item \in FileSet : item.size \in Int
      BY <1>1 DEF BodyOK, FileSet
    <3>2. \A i \in DOMAIN body.files : body.files[i] \in FileSet
      BY <3>1
    <3> QED BY <3>1, <3>2
  <2>3. \A i \in DOMAIN body.files : i \in SmallEnough(limit) <=> ~ TooLarge(body.files[i].size)
    BY <2>1, <2>2, NarrowKeepsOrder DEF TooLarge, SmallEnough
  <2>4. FilesOf(p) = Here(body.files, SmallEnough(limit), p)
    BY <2>3 DEF FilesOf, OfName, Here, SmallEnough
  <2> QED BY <2>4 DEF ElementsOf, PairsOf, OfName, Complete, Here
<1>12. /\ Silent(body.files, SmallEnough(limit), p.name) <=> FilesOf(p) = {}
       /\ Silent(body.json, Complete, p.name) <=> ElementsOf(p) = {}
       /\ Silent(body.pairs, DOMAIN body.pairs, p.name) <=> PairsOf(p) = {}
  BY <1>11 DEF ElementsOf, PairsOf, Silent, OfName, Complete, Here
<1>13. /\ p.editable /\ Says(offers, p.name, body.files, SmallEnough(limit)) =>
             \E i \in FilesOf(p) : IsLast(i, FilesOf(p)) /\ q.value = ItemText(body.files, i)
       /\ p.editable /\ Says(offers, p.name, body.json, Complete) =>
             \E i \in ElementsOf(p) : IsLast(i, ElementsOf(p)) /\ q.value = ItemText(body.json, i)
       /\ p.editable /\ Says(offers, p.name, body.pairs, DOMAIN body.pairs) =>
             \E i \in PairsOf(p) : IsLast(i, PairsOf(p)) /\ q.value = ItemText(body.pairs, i)
  <2>1. ASSUME p.editable, Says(offers, p.name, body.files, SmallEnough(limit))
        PROVE  \E i \in FilesOf(p) : IsLast(i, FilesOf(p)) /\ q.value = ItemText(body.files, i)
    <3>1. \E i \in Here(body.files, SmallEnough(limit), p) :
             IsLast(i, Here(body.files, SmallEnough(limit), p)) /\ q.value = ItemText(body.files, i)
      BY <1>10, <2>1
    <3> QED BY <1>11, <3>1
  <2>2. ASSUME p.editable, Says(offers, p.name, body.json, Complete)
        PROVE  \E i \in ElementsOf(p) : IsLast(i, ElementsOf(p)) /\ q.value = ItemText(body.json, i)
    <3>1. \E i \in Here(body.json, Complete, p) :
             IsLast(i, Here(body.json, Complete, p)) /\ q.value = ItemText(body.json, i)
      BY <1>10, <2>2
    <3> QED BY <1>11, <3>1
  <2>3. ASSUME p.editable, Says(offers, p.name, body.pairs, DOMAIN body.pairs)
        PROVE  \E i \in PairsOf(p) : IsLast(i, PairsOf(p)) /\ q.value = ItemText(body.pairs, i)
    <3>1. \E i \in Here(body.pairs, DOMAIN body.pairs, p) :
             IsLast(i, Here(body.pairs, DOMAIN body.pairs, p)) /\ q.value = ItemText(body.pairs, i)
      BY <1>10, <2>3
    <3> QED BY <1>11, <3>1
  <2> QED BY <2>1, <2>2, <2>3
<1>14. /\ body.type = "multipart" =>
             \/ Says(offers, p.name, body.files, SmallEnough(limit))
             \/ FilesOf(p) = {} /\ SaysOrNothing(offers, p.name, body.pairs, DOMAIN body.pairs)
       /\ body.type = "json" => SaysOrNothing(offers, p.name, body.json, Complete)
       /\ body.type = "pairs" =>
             \/ Says(offers, p.name, body.json, Complete)
             \/ ElementsOf(p) = {} /\ SaysOrNothing(offers, p.name, body.pairs, DOMAIN body.pairs)
       /\ body.type \in {"multipart", "json", "pairs"}
  BY <1>1, <1>3, <1>12, GivenIs DEF BodyOK
<1>15. /\ Says(offers, p.name, body.files, SmallEnough(limit)) => FilesOf(p) # {}
       /\ Says(offers, p.name, body.json, Complete) => ElementsOf(p) # {}
       /\ Says(offers, p.name, body.pairs, DOMAIN body.pairs) => PairsOf(p) # {}
  BY <1>12 DEF Says, LastIn, Silent
<1>16. /\ Nothing(offers, p.name, body.json, Complete) =>
             ElementsOf(p) = {} /\ Silent(offers, DOMAIN offers, p.name)
       /\ Nothing(offers, p.name, body.pairs, DOMAIN body.pairs) =>
             PairsOf(p) = {} /\ Silent(offers, DOMAIN offers, p.name)
  BY <1>12 DEF Nothing
<1>17. CASE body.type = "multipart"
  BY <1>7, <1>8, <1>9, <1>13, <1>14, <1>15, <1>16, <1>17 DEF SaysOrNothing
<1>18. CASE body.type = "json"
  BY <1>7, <1>8, <1>9, <1>13, <1>14, <1>15, <1>16, <1>18 DEF SaysOrNothing
<1>19. CASE body.type = "pairs"
  BY <1>7, <1>8, <1>9, <1>13, <1>14, <1>15, <1>16, <1>19 DEF SaysOrNothing
<1> QED BY <1>14, <1>17, <1>18, <1>19

LEMMA LastWins == SettingsInv /\ ControlInv /\ ParametersInv => LastGivenWins
<1> SUFFICES ASSUME SettingsInv, ControlInv, ParametersInv, phase = "rows" PROVE LastGivenWins
  BY DEF LastGivenWins
<1>1. limit = GetSetting("max_file_size").val * Megabyte
         \/ GetSetting("max_file_size").val * Megabyte > MaxInt
  BY LimitIs DEF SettingsInv, ControlInv, ParametersInv, Identified
<1>2. ASSUME NEW k \in DOMAIN parameters
      PROVE  LET p == declared[k]
                 now == parameters[k].value
                 replaced == /\ replacement # <<>> /\ replacement[1].name = p.name
                             /\ \A j \in OfName(declared, p) : k <= j
                 files == {i \in OfName(body.files, p) : ~TooLarge(body.files[i].size)}
                 elements == {i \in OfName(body.json, p) : body.json[i].lacks = "nothing"}
                 pairs == OfName(body.pairs, p)
                 Is(items, places) ==
                    \E i \in places : IsLast(i, places) /\ now = Text(items[i].val)
             IN  /\ ~p.editable => now = p.value
                 /\ p.editable =>
                       CASE replaced -> now = replacement[1].value
                         [] ~replaced /\ body.type = "multipart" /\ files # {} ->
                               Is(body.files, files)
                         [] ~replaced /\ body.type # "multipart" /\ elements # {} ->
                               Is(body.json, elements)
                         [] OTHER -> IF body.type # "json" /\ pairs # {} THEN Is(body.pairs, pairs)
                                     ELSE now = p.value
  <2>1. PICK p : p = declared[k]
    OBVIOUS
  <2>2. PICK now : now = parameters[k].value
    OBVIOUS
  <2> DEFINE Is(items, places) == \E i \in places : IsLast(i, places) /\ now = ItemText(items, i)
             Multipart == body.type = "multipart" /\ FilesOf(p) # {}
             Listed == body.type # "multipart" /\ ElementsOf(p) # {}
             Paired == body.type # "json" /\ PairsOf(p) # {}
  <2>3. /\ ~ p.editable => now = p.value
        /\ p.editable /\ Replaced(k) => now = replacement[1].value
        /\ p.editable /\ ~ Replaced(k) /\ Multipart => Is(body.files, FilesOf(p))
        /\ p.editable /\ ~ Replaced(k) /\ Listed => Is(body.json, ElementsOf(p))
        /\ p.editable /\ ~ Replaced(k) /\ Paired /\ ~ Multipart /\ ~ Listed =>
              Is(body.pairs, PairsOf(p))
        /\ p.editable /\ ~ Replaced(k) /\ ~ Paired /\ ~ Multipart /\ ~ Listed => now = p.value
    BY <2>1, <2>2, OneIsGiven
  <2>4. ~ (Multipart /\ Listed)
    OBVIOUS
  <2> HIDE DEF Is
  <2>5. /\ ~ p.editable => now = p.value
        /\ p.editable =>
              CASE Replaced(k) -> now = replacement[1].value
                [] ~ Replaced(k) /\ body.type = "multipart" /\ FilesOf(p) # {} ->
                      Is(body.files, FilesOf(p))
                [] ~ Replaced(k) /\ body.type # "multipart" /\ ElementsOf(p) # {} ->
                      Is(body.json, ElementsOf(p))
                [] OTHER -> IF body.type # "json" /\ PairsOf(p) # {} THEN Is(body.pairs, PairsOf(p))
                            ELSE now = p.value
    <3>1. ASSUME p.editable, Replaced(k) PROVE now = replacement[1].value
      BY <2>3, <3>1
    <3> HIDE DEF Multipart, Listed, Paired
    <3>2. ASSUME p.editable
          PROVE  CASE Replaced(k) -> now = replacement[1].value
                   [] ~ Replaced(k) /\ Multipart -> Is(body.files, FilesOf(p))
                   [] ~ Replaced(k) /\ Listed -> Is(body.json, ElementsOf(p))
                   [] OTHER -> IF Paired THEN Is(body.pairs, PairsOf(p)) ELSE now = p.value
      <4>1. CASE Replaced(k)
        BY <3>1, <3>2, <4>1
      <4>2. CASE ~ Replaced(k) /\ Multipart
        BY <2>3, <2>4, <3>2, <4>2
      <4>3. CASE ~ Replaced(k) /\ Listed
        BY <2>3, <2>4, <3>2, <4>3
      <4>4. CASE ~ Replaced(k) /\ ~ Multipart /\ ~ Listed
        BY <2>3, <3>2, <4>4
      <4> QED BY <4>1, <4>2, <4>3, <4>4
    <3> QED BY <2>3, <3>2 DEF Multipart, Listed, Paired
  <2> QED BY <2>1, <2>2, <2>5, Zenon DEF Is, Replaced, ItemText, FilesOf, ElementsOf, PairsOf
<1> QED BY <1>1, <1>2, Zenon DEF LastGivenWins

\* For any bodies, parameter lists and size limits: when the statement runs, a
\* parameter has the value that wins, whichever the order and number of values of
\* its name are in the request.
THEOREM LastValueWins == Spec => []LastGivenWins
BY DataInvariance, LastWins, PTL DEF DataInv

\* Settings, parameters, fields and the thread have their types, for any data.
THEOREM TypesHold == Spec => []TypeOK
<1>1. DataInv => TypeOK
  <2> SUFFICES ASSUME DataInv PROVE TypeOK
    OBVIOUS
  <2>1. /\ phase \in {"new", "main", "running", "body", "identified", "compose",
                      "rows", "condition", "json", "answered"}
        /\ calls \in 0 .. MaxCalls /\ outcome \in {"none", "200", "400", "500"}
        /\ \A i \in DOMAIN settings : settings[i].value.type = settings[i].type
        /\ \A name \in CredentialNames : credentials[name].type = Defaults[name].type
    BY DEF DataInv, ControlInv, ControlOK, IsTyped, CredentialsAreTyped
  <2>2. body \in Bodies \cup {NoBody} /\ resultSet \in ResultSets \cup {NoResultSet}
        /\ Len(results) <= Len(resultSet.rows)
    BY DEF DataInv, ParametersInv, TablesInv
  <2>3. \A i \in DOMAIN given : given[i].value.type = "string"
    <3>1. given \in Seq(TextOfferSet)
      BY DEF DataInv, ParametersInv
    <3>2. \A i \in DOMAIN given : given[i] \in TextOfferSet
      BY <3>1
    <3> QED BY <3>2 DEF TextOfferSet
  <2>4. \A i \in DOMAIN parameters : parameters[i].value.type \in Types
    <3>1. parameters \in Seq(ParameterSet)
      BY DEF DataInv, ParametersInv
    <3>2. \A i \in DOMAIN parameters : parameters[i] \in ParameterSet
      BY <3>1
    <3> QED BY <3>2 DEF ParameterSet
  <2>5. ASSUME NEW i \in DOMAIN results, NEW c \in DOMAIN results[i]
        PROVE  results[i][c].value.type \in Types
    <3>1. results[i] = RowOf(i) /\ ~ RowThrows(RowOf(i)) /\ ResultSetOK(resultSet)
      BY ResultSetIsOK DEF DataInv, TablesInv
    <3>2. results \in Seq(Seq(FieldSet)) /\ Len(results) <= Len(resultSet.rows)
      BY DEF DataInv, TablesInv
    <3>3. i \in DOMAIN resultSet.rows
      BY <3>1, <3>2 DEF ResultSetOK
    <3> QED BY <2>5, <3>1, <3>3, RowIs
  <2> QED BY <2>1, <2>2, <2>3, <2>4, <2>5 DEF TypeOK
<1> QED BY <1>1, DataInvariance, PTL

===============================================================================
