---------------------------- MODULE SettingsStore ----------------------------
(***************************************************************************)
(* The settings store (settings/store, merge, resolve, validation, audit): *)
(* sparse overrides in settings.ron, the live settings that every handler  *)
(* reads, and the dashboard handlers that change them concurrently - the   *)
(* settings page, its reset buttons and the schedules page.  At every boot *)
(* main.rs opens the store and migrates keys of config.toml, once.         *)
(*                                                                         *)
(* Seven keys stand for the ninety of the code: one with bounds of its own *)
(* (pings.cooldown), one bounded above (expected_latency), the two pairs   *)
(* that are validated against each other (history.length and prefill;      *)
(* admin_channel and ai_channel, both also against the boot channel) and   *)
(* the list of schedules.                                                  *)
(***************************************************************************)
EXTENDS Integers, Sequences

CONSTANTS
  Writers,        \* dashboard requests in flight
  Channels,       \* names of IRC channels
  RowNames,       \* names of schedules
  Unset,          \* an override that is not there
  Clear,          \* admin_channel or ai_channel set to None
  Blank, Nothing,
  Empty,          \* a channel field with nothing in it
  Forms,          \* what the settings page may send
  Legacy,         \* what config.toml may hold of the keys that are migrated
  MAX_HISTORY_LENGTH, DEFAULT_HISTORY_LENGTH,
  MaxCooldown, DefaultCooldown,  \* pings.cooldown
  MaxLatency, DefaultLatency,    \* twitch.expected_latency
  MaxBoots, MaxRequests, MaxFaults   \* bounds

Keys == {"cooldown", "length", "prefill", "latency", "admin", "ai", "schedules"}

Defaults ==
  [cooldown |-> DefaultCooldown, length |-> DEFAULT_HISTORY_LENGTH, prefill |-> "none",
   latency |-> DefaultLatency, admin |-> Clear, ai |-> Clear, schedules |-> << >>]

NoOverrides == [k \in Keys |-> Unset]

\* Of a schedule, its name and whether it is enabled.
Rows == [name : RowNames \cup {Blank}, enabled : BOOLEAN]

ASSUME SettingsAssumption ==
  /\ MAX_HISTORY_LENGTH \in Nat /\ DEFAULT_HISTORY_LENGTH \in 1 .. MAX_HISTORY_LENGTH
  /\ MaxCooldown \in Nat /\ DefaultCooldown \in 1 .. MaxCooldown
  /\ MaxLatency \in Nat /\ DefaultLatency \in 0 .. MaxLatency
  /\ Clear \notin Channels /\ Blank \notin Channels /\ Blank # Clear
  /\ Nothing \notin Writers

Values(k) == CASE k \in {"cooldown", "length", "latency"} -> Nat
               [] k = "prefill" -> {"none", "some"}
               [] k \in {"admin", "ai"} -> Channels \cup {Clear, Blank}
               [] k = "schedules" -> Seq(Rows)

IsOverrides(o) ==
  DOMAIN o = Keys /\ \A k \in Keys : o[k] = Unset \/ o[k] \in Values(k)

-----------------------------------------------------------------------------
(***************************************************************************)
(* Overrides and settings.                                                 *)
(***************************************************************************)
Resolve(o) == [k \in Keys |-> IF o[k] = Unset THEN Defaults[k] ELSE o[k]]

merge_into(o, patch) == [k \in Keys |-> IF k \in DOMAIN patch THEN patch[k] ELSE o[k]]

\* What a reset clears, as far as it is modelled.  TwitchChannels leaves
\* expected_latency alone.
SectionKeys ==
  [Pings |-> {"cooldown"}, AiHistory |-> {"length"}, AiPrefill |-> {"prefill"},
   TwitchChannels |-> {"admin", "ai"}, Schedules |-> {"schedules"}]

\* The reset buttons the dashboard has.
DashboardSections == {"Pings", "TwitchChannels"}

cleared(o, section) == [k \in Keys |-> IF k \in SectionKeys[section] THEN Unset ELSE o[k]]

ValidSchedules(rows) ==
  /\ \A i \in DOMAIN rows : rows[i].name # Blank
  /\ \A i, j \in DOMAIN rows : rows[i].name = rows[j].name => i = j

ValidChannels(s, boot_channel) ==
  /\ s["admin"] \notin {Blank, boot_channel} /\ s["ai"] \notin {Blank, boot_channel}
  /\ s["admin"] # Clear => s["admin"] # s["ai"]

validate_ai(s) ==
  /\ s["length"] <= MAX_HISTORY_LENGTH
  /\ s["prefill"] = "some" => s["length"] > 0

validate(s, boot_channel) ==
  /\ s["cooldown"] \in 1 .. MaxCooldown
  /\ validate_ai(s)
  /\ s["latency"] <= MaxLatency
  /\ ValidChannels(s, boot_channel)
  /\ ValidSchedules(s["schedules"])

-----------------------------------------------------------------------------
(***************************************************************************)
(* The patches that forms and an old config.toml stand for.                *)
(***************************************************************************)
\* An empty text field clears its key.
tri_state(field) == IF field = Empty THEN Clear ELSE field

\* The page is one form with every card in it: saving overrides every key it shows,
\* those the user has not touched with what they were when the page was opened.
overrides_from_save_form(form) ==
  [k \in Keys \ {"schedules"} |->
     CASE k \in {"admin", "ai"} -> tri_state(form[k])
       [] k = "prefill" -> IF form[k] THEN "some" ELSE "none"
       [] OTHER -> form[k]]

\* A negative number is passed over.
Readable(toml, keys) ==
  {k \in keys \cap DOMAIN toml : k \in {"length", "latency"} => toml[k] >= 0}

\* That there is a table for the prefill enables it.
migrate_legacy_ai(toml) ==
  [k \in Readable(toml, {"length", "prefill"}) |-> IF k = "prefill" THEN "some" ELSE toml[k]]

\* A blank channel clears the key.
migrate_legacy_config(toml) ==
  [k \in Readable(toml, {"latency", "admin", "ai"}) |->
     IF toml[k] = Blank THEN Clear ELSE toml[k]]

-----------------------------------------------------------------------------
(***************************************************************************)
(* The changes a dashboard request may ask for.                            *)
(***************************************************************************)
Requests ==
  [op : {"save"}, form : Forms] \cup [op : {"reset"}, section : DashboardSections]
    \cup [op : {"create"}, row : Rows] \cup [op : {"update"}, name : RowNames, row : Rows]
    \cup [op : {"delete", "toggle"}, name : RowNames]

RowsOf(o) == IF o["schedules"] = Unset THEN << >> ELSE o["schedules"]

\* The first row of that name, if there is one.
AtName(rows, name) ==
  {i \in DOMAIN rows : rows[i].name = name /\ \A j \in 1 .. i - 1 : rows[j].name # name}

\* What the closure of the request makes of the overrides.
Mutated(req, o) ==
  LET rows == RowsOf(o)
      with(new) == [o EXCEPT !["schedules"] = new]
      changed(new) == [i \in DOMAIN rows |->
                         IF i \in AtName(rows, req.name) THEN new[i] ELSE rows[i]]
  IN CASE req.op = "save" -> merge_into(o, overrides_from_save_form(req.form))
       [] req.op = "reset" -> cleared(o, req.section)
       [] req.op = "create" -> with(Append(rows, req.row))
       [] req.op = "update" -> with(changed([i \in DOMAIN rows |-> req.row]))
       [] req.op = "delete" -> with(SelectSeq(rows, LAMBDA r : r.name # req.name))
       [] req.op = "toggle" ->
            with(changed([i \in DOMAIN rows |-> [rows[i] EXCEPT !.enabled = ~@]]))

-----------------------------------------------------------------------------
VARIABLES
  file,      \* settings.ron; without the file there are no overrides
  live,      \* the shared handle: settings
  channel,   \* twitch.channel of config.toml, the boot channel
  legacy,    \* the keys and values that config.toml holds of them
  markers,   \* .ai_migrated_v2 and .config_migrated_v3
  phase,     \* how far the boot has come: down, ai, ai applied, config,
             \* config applied, up
  lock,      \* the writer that holds write_lock, or Nothing
  writer,    \* per writer its state, its request and the overrides it will save
  told,      \* history: the settings as the entries of the audit log have them
  lost,      \* history: the keys whose last change has no entry in the audit log
  edited,    \* history: the keys the dashboard has changed in this file
  apart,     \* history: a commit has ended between its save and the swap, and no
             \* swap or start has come since
  boots, requests, faults   \* faults: dropped requests and lost entries

boot == <<channel, legacy, markers, phase, boots>>
settingsVars == <<file, live, boot, lock, writer, told, lost, edited, apart, requests, faults>>

InStep(st, req, prior, next) == [st |-> st, req |-> req, prior |-> prior, next |-> next]
Idle == InStep("idle", Nothing, Nothing, Nothing)

SettingsInit ==
  /\ file = NoOverrides /\ live = Defaults /\ told = Defaults
  /\ channel \in Channels /\ legacy \in Legacy
  /\ markers = {} /\ phase = "down"
  /\ lock = Nothing /\ writer = [w \in Writers |-> Idle]
  /\ edited = {} /\ lost = {} /\ apart = FALSE /\ boots = 0 /\ requests = 0 /\ faults = 0

-----------------------------------------------------------------------------
(***************************************************************************)
(* The audit log.                                                          *)
(***************************************************************************)
Differ(prior, new) == {k \in Keys : prior[k] # new[k]}

\* Mutant: the log gets the old values.
LoggedOld(prior, new) == [k \in Keys |-> IF prior[k] # new[k] THEN prior[k] ELSE told[k]]

\* diff_changes: the log gets the new value of every key that differs from the
\* settings that were loaded.
Logged(prior, new) == [k \in Keys |-> IF prior[k] # new[k] THEN new[k] ELSE told[k]]

\* The entry of a commit; that it cannot be appended is noted in the bot's own log
\* and changes nothing else.
Audit(prior, new) ==
  \/ /\ told' = Logged(prior, new) /\ lost' = lost \ Differ(prior, new)
     /\ UNCHANGED faults
  \/ /\ Differ(prior, new) # {} /\ faults < MaxFaults
     /\ lost' = lost \cup Differ(prior, new)
     /\ faults' = faults + 1
     /\ UNCHANGED told

-----------------------------------------------------------------------------
(***************************************************************************)
(* Boot.  The operator may have edited config.toml while the bot was down. *)
(***************************************************************************)
\* SettingsStore::open: a file that is not valid, for instance because the boot
\* channel has become one of the other two, is put aside, without an entry.
Open ==
  /\ phase = "down"
  /\ channel' \in Channels /\ legacy' \in Legacy
  /\ phase' = "ai"
  /\ IF validate(Resolve(file), channel')
     THEN live' = Resolve(file) /\ UNCHANGED <<file, edited, lost>>
     ELSE /\ live' = Defaults /\ file' = NoOverrides /\ edited' = {}
          /\ lost' = lost \cup Differ(Resolve(file), Defaults)
  /\ UNCHANGED <<markers, lock, writer, told, apart, boots, requests, faults>>

Applied(m) == IF m = "ai" THEN "ai applied" ELSE "config applied"

Patch(m) == IF m = "ai" THEN migrate_legacy_ai(legacy) ELSE migrate_legacy_config(legacy)

\* apply for the patch of one migration; an error ends the boot.  (That the process ends
\* after the save and before the entry is a lost entry and a Crash.)
Migrate(m) ==
  /\ phase = m /\ m \notin markers
  /\ LET patch == Patch(m)
         next == merge_into(file, patch)
     IN IF DOMAIN patch = {}
        THEN phase' = Applied(m) /\ UNCHANGED <<file, live, told, lost, faults>>
        ELSE IF validate(Resolve(next), channel)
        THEN /\ phase' = Applied(m)
             /\ file' = next /\ live' = Resolve(next) /\ Audit(Resolve(file), Resolve(next))
        ELSE phase' = "down" /\ UNCHANGED <<file, live, told, lost, faults>>
  /\ UNCHANGED <<channel, legacy, markers, lock, writer, edited, apart, boots, requests>>

After(m) == IF m = "ai" THEN "config" ELSE "up"

Mark(m) ==
  /\ phase = Applied(m)
  /\ markers' = markers \cup {m}
  /\ phase' = After(m)
  /\ UNCHANGED <<file, live, channel, legacy, lock, writer, told, lost, edited, apart, boots,
                 requests, faults>>

Skip(m) ==
  /\ phase = m /\ m \in markers
  /\ phase' = After(m)
  /\ UNCHANGED <<file, live, channel, legacy, markers, lock, writer, told, lost, edited,
                 apart, boots, requests, faults>>

\* The keys of a commit that ends between its save and its entry.
CutOff(w) ==
  IF writer[w].st = "saved" THEN Differ(writer[w].prior, Resolve(writer[w].next)) ELSE {}

\* The process ends, at any point.
Crash ==
  /\ phase # "down" /\ boots < MaxBoots
  /\ phase' = "down" /\ boots' = boots + 1
  /\ lock' = Nothing /\ writer' = [w \in Writers |-> Idle]
  /\ lost' = lost \cup UNION {CutOff(w) : w \in Writers}
  /\ apart' = FALSE
  /\ UNCHANGED <<file, live, channel, legacy, markers, told, edited, requests, faults>>

-----------------------------------------------------------------------------
(***************************************************************************)
(* Dashboard requests: apply_with and reset, both ending in commit.        *)
(***************************************************************************)
Step(w, st) == writer[w].st = st /\ phase = "up"

Request(w) ==
  /\ Step(w, "idle") /\ requests < MaxRequests
  /\ requests' = requests + 1
  /\ \E req \in Requests : writer' = [writer EXCEPT ![w] = InStep("waiting", req, Nothing, Nothing)]
  /\ UNCHANGED <<file, live, boot, lock, told, lost, edited, apart, faults>>

\* Mutant: only the settings page is validated.
AcceptsRows(req, o) == req.op # "save" \/ validate(Resolve(o), channel)

\* apply_with validates what it is about to save, reset does not.
Accepts(req, o) == req.op = "reset" \/ validate(Resolve(o), channel)

\* Loads the file; a rejected request ends here.
Loaded(w) ==
  LET req == writer[w].req
      next == Mutated(req, file)
  IN /\ IF Accepts(req, next)
        THEN /\ lock' = w
             /\ writer' = [writer EXCEPT ![w] = InStep("saving", req, Resolve(file), next)]
        ELSE writer' = [writer EXCEPT ![w] = Idle] /\ UNCHANGED lock
     /\ UNCHANGED <<file, live, boot, told, lost, edited, apart, requests, faults>>

\* Mutant: without the lock.
LoadUnlocked(w) == Step(w, "waiting") /\ Loaded(w)

Load(w) == Step(w, "waiting") /\ lock = Nothing /\ Loaded(w)

\* atomic_save_ron_async has renamed the file.
SaveFile(w) ==
  /\ Step(w, "saving")
  /\ file' = writer[w].next
  /\ edited' = edited \cup {k \in Keys : Resolve(file')[k] # Resolve(file)[k]}
  /\ writer' = [writer EXCEPT ![w] = InStep("saved", @.req, @.prior, @.next)]
  /\ UNCHANGED <<live, boot, lock, told, lost, apart, requests, faults>>

SaveFails(w) ==
  /\ Step(w, "saving")
  /\ lock' = Nothing
  /\ writer' = [writer EXCEPT ![w] = Idle]
  /\ UNCHANGED <<file, live, boot, told, lost, edited, apart, requests, faults>>

\* The rest of commit: swap the handle, append the audit entry, notify.  The
\* settings that were loaded are those the request was applied to.
Swap(w) ==
  /\ Step(w, "saved")
  /\ live' = Resolve(writer[w].next)
  /\ Audit(writer[w].prior, live')
  /\ lock' = Nothing
  /\ writer' = [writer EXCEPT ![w] = Idle]
  /\ apart' = FALSE
  /\ UNCHANGED <<file, boot, edited, requests>>

\* The browser has gone away: the handler is dropped where it waits and gives
\* the lock back.
Cancel(w) ==
  /\ writer[w].st # "idle" /\ phase = "up" /\ faults < MaxFaults
  /\ lock' = IF lock = w THEN Nothing ELSE lock
  /\ writer' = [writer EXCEPT ![w] = Idle]
  /\ faults' = faults + 1
  /\ lost' = lost \cup CutOff(w)
  /\ apart' = (apart \/ writer[w].st = "saved")
  /\ UNCHANGED <<file, live, boot, told, edited, requests>>

RequestStep(w) ==
  Request(w) \/ Load(w) \/ SaveFile(w) \/ SaveFails(w) \/ Swap(w) \/ Cancel(w)

SettingsNext ==
  \/ Open \/ Crash
  \/ \E m \in {"ai", "config"} : Migrate(m) \/ Mark(m) \/ Skip(m)
  \/ \E w \in Writers : RequestStep(w)

SettingsSpec == SettingsInit /\ [][SettingsNext]_settingsVars

-----------------------------------------------------------------------------
(***************************************************************************)
(* Properties.                                                             *)
(***************************************************************************)
\* Every variable stays in its set, and the lock is held by exactly the writer
\* that is between loading and swapping.
SettingsTypeOK ==
  /\ IsOverrides(file)
  /\ DOMAIN live = Keys /\ \A k \in Keys : live[k] \in Values(k) /\ told[k] \in Values(k)
  /\ channel \in Channels /\ legacy \in Legacy
  /\ markers \subseteq {"ai", "config"}
  /\ phase \in {"down", "ai", "ai applied", "config", "config applied", "up"}
  /\ \A w \in Writers : writer[w].st \in {"idle", "waiting", "saving", "saved"}
                        /\ (writer[w].st \in {"saving", "saved"} <=> lock = w)
  /\ edited \subseteq Keys /\ lost \subseteq Keys
  /\ apart \in BOOLEAN
  /\ boots \in 0 .. MaxBoots /\ requests \in 0 .. MaxRequests /\ faults \in 0 .. MaxFaults

\* No sequence of saves, resets - which are not validated - and schedule edits
\* leads to a file that the next start would put aside, as long as the boot
\* channel stays the same.
Loadable == phase # "down" => validate(Resolve(file), channel)

\* Although a request reads the file, waits for the disk and swaps the live settings later,
\* every change is that of one request to the overrides as they are; a migration at boot
\* never overwrites what the dashboard has changed.
Service == INSTANCE SettingsService
IsAtomic == Service!ServiceSpec

\* While nothing is being saved the live settings are those of the file; after a request
\* that was dropped between its save and its swap, the next one that is saved, or the next
\* start, brings them together again.  And for every key the last entry of the audit log
\* has the value that is live, unless the last change of that key left no entry: the
\* append failed, the commit was cut off before it, or the overrides were quarantined.
\* One entry that is lost costs no other key its entry, and the key only until its next
\* change that is logged (commit, diff_changes, open).
AuditTellsLive ==
  /\ (lock = Nothing /\ phase = "up" /\ ~apart) => live = Resolve(file)
  /\ phase = "up" => \A k \in Keys \ lost : told[k] = live[k]

=============================================================================
