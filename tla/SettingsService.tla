--------------------------- MODULE SettingsService ---------------------------
(***************************************************************************)
(* What the settings store promises (settings/store/mod.rs): overrides     *)
(* that requests change one at a time.  It says nothing of locks, files    *)
(* and steps; SettingsStore implements it.                                 *)
(***************************************************************************)
CONSTANTS
  Keys, Channels, NoOverrides,
  Requests,              \* what the dashboard may ask for
  Resolve(_),            \* the settings that overrides stand for
  Mutated(_, _),         \* what a request makes of overrides
  validate(_, _)         \* whether settings are valid under a boot channel

VARIABLES
  file,      \* the overrides
  channel,   \* the boot channel
  edited     \* the keys that requests have changed

serviceVars == <<file, channel, edited>>

ServiceInit == file = NoOverrides /\ channel \in Channels /\ edited = {}

\* A request is applied to the overrides as they are; what is not valid is
\* refused, and nothing has happened.
Apply ==
  /\ \E req \in Requests : file' = Mutated(req, file)
  /\ validate(Resolve(file'), channel)
  /\ edited' = edited \cup {k \in Keys : Resolve(file')[k] # Resolve(file)[k]}
  /\ UNCHANGED channel

\* A migration respects the edits.
MigrateKeys ==
  /\ validate(Resolve(file'), channel)
  /\ \A k \in edited : Resolve(file')[k] = Resolve(file)[k]
  /\ UNCHANGED <<channel, edited>>

\* A start, possibly with another boot channel: overrides that are not valid under it are
\* put aside.
Start ==
  /\ channel' \in Channels
  /\ IF validate(Resolve(file), channel')
     THEN UNCHANGED <<file, edited>>
     ELSE file' = NoOverrides /\ edited' = {}

\* Every step changes something.
ServiceNext == serviceVars' # serviceVars /\ (Apply \/ MigrateKeys \/ Start)

ServiceSpec == ServiceInit /\ [][ServiceNext]_serviceVars

=============================================================================
