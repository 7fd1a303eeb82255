---------------------------- MODULE AdminSettings ----------------------------
(***************************************************************************)
(* The AI settings of internal/admin/service.go: one row in Postgres, a    *)
(* copy in memory under an RWMutex, and four services that are told of     *)
(* every change (App.ApplyAIConfig).  Bootstrap loads the row when the     *)
(* process starts; PUT /api/admin/settings saves, then applies, all under  *)
(* the lock.  A configuration is a model value: no branch of this code     *)
(* looks inside one that validateAIConfig accepted.                        *)
(***************************************************************************)
EXTENDS Integers

CONSTANTS
  Requests,      \* goroutines that serve HTTP requests
  Boot,          \* the goroutine of App.Run
  Configs,       \* AI configurations that pass validateAIConfig
  InitialConfig, \* the one from the environment
  NoRow,         \* the settings row does not exist
  Free,          \* nobody holds the lock
  MaxVersion     \* bound: versions saved in a behaviour

ASSUME SettingsAssumption ==
  /\ MaxVersion \in Nat
  /\ Boot \notin Requests
  /\ Free \notin Requests \cup {Boot}
  /\ NoRow \notin [version : Nat, config : Configs \cup {InitialConfig}]

VARIABLES
  stored,    \* the row of admin_settings
  current,   \* Service.current
  booted,    \* Service.booted
  applied,   \* the configuration each service works with
  lock,      \* who holds Service.mu for writing
  task,      \* what each goroutine is doing with the settings
  accepted,  \* history: the latest version a client was told was saved
  doubtful   \* history: a save failed after it had committed, and neither a
             \* later save nor a restart has made memory agree again

settingsVars == <<stored, current, booted, applied, lock, task, accepted, doubtful>>

-----------------------------------------------------------------------------
\* ApplyAIConfig tells the services in this order.
Services == {"stt", "summary", "action_items", "tts"}
\* Fault: the action items service is not told.
AfterSkippingItems(stage) == CASE stage = "stt" -> "summary"
                               [] stage = "summary" -> "tts"
                               [] stage = "tts" -> "idle"
After(stage) == CASE stage = "stt" -> "summary"
                  [] stage = "summary" -> "action_items"
                  [] stage = "action_items" -> "tts"
                  [] stage = "tts" -> "idle"

Settings == [version : 0..MaxVersion, config : Configs \cup {InitialConfig}]
FromEnvironment == [version |-> 0, config |-> InitialConfig]

Resting == [stage |-> "idle", config |-> InitialConfig]
Stages == {"idle", "load", "install", "get", "test", "update", "save"} \cup Services

Goto(r, stage) == task' = [task EXCEPT ![r].stage = stage]
Finish(r) == task' = [task EXCEPT ![r] = Resting]
RowVersion == IF stored = NoRow THEN 0 ELSE stored.version

-----------------------------------------------------------------------------
(* Bootstrap *)

\* Bootstrap reads the row before it takes the lock.
Load ==
  /\ task[Boot].stage = "load"
  /\ Goto(Boot, "install")
  /\ UNCHANGED <<stored, current, booted, applied, lock, accepted, doubtful>>

\* Fault: the stored row is not used.
FromTheEnvironmentOnly == FromEnvironment

\* What Bootstrap installs.
StoredOrInitial == IF stored = NoRow THEN FromEnvironment ELSE stored

\* Nothing else can write the row between Load and here: requests are served
\* only after Bootstrap returned.
Install ==
  /\ task[Boot].stage = "install"
  /\ lock = Free
  /\ lock' = Boot
  /\ current' = StoredOrInitial
  /\ booted' = TRUE
  /\ doubtful' = FALSE
  /\ Goto(Boot, "stt")
  /\ UNCHANGED <<stored, applied, accepted>>

-----------------------------------------------------------------------------
(* Requests *)

Begin(r, stage, config) ==
  /\ task[r].stage = "idle"
  /\ task' = [task EXCEPT ![r] = [stage |-> stage, config |-> config]]
  /\ UNCHANGED <<stored, current, booted, applied, lock, accepted, doubtful>>

\* GET /api/admin/settings, and the part of POST .../settings/test that reads
\* the settings: both wait for a writer, then answer without changing anything.
Current(r) ==
  /\ task[r].stage = "get"
  /\ lock = Free
  /\ Finish(r)
  /\ UNCHANGED <<stored, current, booted, applied, lock, accepted, doubtful>>

Test(r) ==
  /\ task[r].stage = "test"
  /\ lock = Free
  /\ Finish(r)
  /\ UNCHANGED <<stored, current, booted, applied, lock, accepted, doubtful>>

\* Update takes the lock; before Bootstrap it answers with an error.
Update(r) ==
  /\ task[r].stage = "update"
  /\ lock = Free
  /\ IF booted THEN lock' = r /\ Goto(r, "save") ELSE Finish(r) /\ UNCHANGED lock
  /\ UNCHANGED <<stored, current, booted, applied, accepted, doubtful>>

\* Fault: the new version is counted from the copy in memory.
CountedInMemory(config) == [version |-> current.version + 1, config |-> config]

\* The upsert counts the version in the row itself.
SavedRow(config) == [version |-> RowVersion + 1, config |-> config]

Save(r) ==
  /\ task[r].stage = "save"
  /\ RowVersion < MaxVersion
  /\ stored' = SavedRow(task[r].config)
  /\ current' = stored'
  /\ doubtful' = FALSE
  /\ Goto(r, "stt")
  /\ UNCHANGED <<booted, applied, lock, accepted>>

\* Fault: the lock is not released when the save fails.
KeepTheLock(r) == UNCHANGED lock

ReleaseLock(r) == lock' = Free

\* The statement fails, or its answer is lost after it committed.
SaveFails(r) ==
  /\ task[r].stage = "save"
  /\ \/ UNCHANGED <<stored, doubtful>>
     \/ /\ RowVersion < MaxVersion
        /\ stored' = SavedRow(task[r].config)
        /\ doubtful' = TRUE
  /\ ReleaseLock(r)
  /\ Finish(r)
  /\ UNCHANGED <<current, booted, applied, accepted>>

\* One setter of ApplyAIConfig; after the last the lock is released and an
\* update is answered.
Apply(r) ==
  LET service == task[r].stage IN
  /\ service \in Services
  /\ applied' = [applied EXCEPT ![service] = current.config]
  /\ IF service = "tts"
     THEN /\ lock' = Free
          /\ Finish(r)
          /\ accepted' = IF r = Boot THEN accepted ELSE current.version
     ELSE Goto(r, After(service)) /\ UNCHANGED <<lock, accepted>>
  /\ UNCHANGED <<stored, current, booted, doubtful>>

SettingsRequest(r) ==
  \/ \E stage \in {"get", "test"} : Begin(r, stage, InitialConfig)
  \/ RowVersion < MaxVersion /\ \E config \in Configs : Begin(r, "update", config)

SettingsStep(r) == Current(r) \/ Test(r) \/ Update(r) \/ Save(r) \/ SaveFails(r) \/ Apply(r)

\* The process is gone; the row stays.
ForgetSettings ==
  /\ current' = FromEnvironment
  /\ booted' = FALSE
  /\ applied' = [service \in Services |-> InitialConfig]
  /\ lock' = Free
  /\ task' = [r \in Requests \cup {Boot} |-> Resting]
  /\ doubtful' = FALSE
  /\ UNCHANGED <<stored, accepted>>

SettingsInit ==
  /\ stored = NoRow
  /\ current = FromEnvironment
  /\ booted = FALSE
  /\ applied = [service \in Services |-> InitialConfig]
  /\ lock = Free
  /\ task = [r \in Requests \cup {Boot} |-> Resting]
  /\ accepted = 0
  /\ doubtful = FALSE

-----------------------------------------------------------------------------
(* Properties *)

SettingsTypeOK ==
  /\ stored \in Settings \cup {NoRow}
  /\ current \in Settings
  /\ booted \in BOOLEAN
  /\ applied \in [Services -> Configs \cup {InitialConfig}]
  /\ lock \in Requests \cup {Boot, Free}
  /\ task \in [Requests \cup {Boot} -> [stage : Stages, config : Configs \cup {InitialConfig}]]
  /\ accepted \in 0..MaxVersion
  /\ doubtful \in BOOLEAN

\* Whenever nobody is changing the settings, the four services, the copy in
\* memory and the row agree, except that a save that failed after it committed
\* may have left the row ahead.
SettingsAgree ==
  booted /\ lock = Free =>
    /\ \A service \in Services : applied[service] = current.config
    /\ doubtful \/ stored = NoRow \/ current = stored

\* A saved version is never reused for other settings, whatever saves failed
\* half way and however often the process restarted.
VersionsRise == [][stored' # stored => RowVersion' > RowVersion]_settingsVars

\* Settings a client was told were saved are still in force, or were replaced
\* by later ones: in the row, and in memory once the process is up again.
NothingAcceptedIsLost ==
  /\ accepted <= RowVersion
  /\ booted /\ lock = Free => accepted <= current.version
=============================================================================
