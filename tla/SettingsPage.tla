----------------------------- MODULE SettingsPage -----------------------------
(***************************************************************************)
(* The settings page in one browser, over the settings store: the form as  *)
(* it is shown, edited, submitted and, when a value is rejected, shown     *)
(* again to be corrected.  Nobody else changes the settings meanwhile, and *)
(* a request is one step: SettingsStore has its steps.                     *)
(***************************************************************************)
EXTENDS SettingsStore

CONSTANTS NoPage

VARIABLES
  page,     \* the fields as the browser shows them, or NoPage
  touched   \* the keys whose fields the user has changed on this page

pageVars == <<settingsVars, page, touched>>

PageInit == SettingsInit /\ page = NoPage /\ touched = {}

-----------------------------------------------------------------------------
\* The fields that the cards show for settings.
Shown(s) ==
  [k \in Keys \ {"schedules"} |->
     CASE k \in {"admin", "ai"} -> IF s[k] = Clear THEN Empty ELSE s[k]
       [] k = "prefill" -> s[k] = "some"
       [] OTHER -> s[k]]

\* The page with the errors: what was submitted of the cooldowns and the pings,
\* and the compiled defaults of everything else.
Submitted(form) == [Shown(Defaults) EXCEPT !["cooldown"] = form["cooldown"]]

\* The page is opened, or opened again.
show ==
  /\ phase = "up"
  /\ page' = Shown(live) /\ touched' = {}
  /\ UNCHANGED settingsVars

\* The user changes one field.
Type(k) ==
  /\ page # NoPage
  /\ \E form \in Forms : page[k] # form[k] /\ page' = [page EXCEPT ![k] = form[k]]
  /\ touched' = touched \cup {k}
  /\ UNCHANGED settingsVars

save ==
  /\ page # NoPage
  /\ LET next == merge_into(file, overrides_from_save_form(page))
     IN IF validate(Resolve(next), channel)
        THEN /\ file' = next /\ live' = Resolve(next) /\ Audit(Resolve(file), live')
             /\ page' = NoPage /\ touched' = {}
        ELSE page' = Submitted(page) /\ UNCHANGED <<file, live, told, lost, faults, touched>>
  /\ UNCHANGED <<boot, lock, writer, edited, apart, requests>>

Boot == Open \/ \E m \in {"ai", "config"} : Migrate(m) \/ Mark(m) \/ Skip(m)

PageNext ==
  \/ Boot /\ UNCHANGED <<page, touched>>
  \/ show \/ save
  \/ \E k \in Keys \ {"schedules"} : Type(k)

PageSpec == PageInit /\ [][PageNext]_pageVars

-----------------------------------------------------------------------------
(* Saving changes what the user has changed on the page, also after a      *)
(* rejection: "Validation errors re-render the form with inline per-field  *)
(* errors; previously entered values are preserved"                        *)
(* (docs/superpowers/specs/2026-05-12-dashboard-settings-design.md:294).   *)
KeepsWhatWasNotTyped ==
  [][save => \A k \in Keys : Resolve(file')[k] # Resolve(file)[k] => k \in touched]_pageVars

=============================================================================
