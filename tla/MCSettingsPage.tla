--------------------------- MODULE MCSettingsPage ---------------------------
(***************************************************************************)
(* One browser; three values that the user may type into a field, one of   *)
(* them out of bounds for the cooldown.                                    *)
(***************************************************************************)
EXTENDS SettingsPage, TLC

CONSTANTS main, side

Page(cooldown, admin) ==
  "cooldown" :> cooldown @@ "length" :> DEFAULT_HISTORY_LENGTH @@ "prefill" :> FALSE
    @@ "latency" :> DefaultLatency @@ "admin" :> admin @@ "ai" :> Empty
TypedForms == {Page(0, side), Page(10, Empty), Page(DefaultCooldown, side)}

NoLegacy == {[k \in {} |-> 0]}

=============================================================================
