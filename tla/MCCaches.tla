------------------------------ MODULE MCCaches ------------------------------
(***************************************************************************)
(* The settings in their file and in memory, and what the process          *)
(* remembers of Twitch, 7TV, the model providers and the web.  The components share *)
(* nothing here; the initial state picks the one that moves, so that one   *)
(* run explores each of them and not the product.                          *)
(***************************************************************************)
EXTENDS SettingsStore, WebSessions, EmoteCatalog, ModelLists, ContentTools

CONSTANTS main, side, row, u1, e1, e2, e3, router, local,
          r1, r2   \* two at a time: dashboard requests, and turns of the AI

VARIABLE moving

\* Pages that set what another clears; the last one is never valid.
Page(cooldown, length, prefill, admin, ai) ==
  "cooldown" :> cooldown @@ "length" :> length @@ "prefill" :> prefill
    @@ "latency" :> DefaultLatency @@ "admin" :> admin @@ "ai" :> ai
MixedForms ==
  { Page(DefaultCooldown, 0, FALSE, side, Empty), Page(10, 200, TRUE, Empty, side),
    Page(DefaultCooldown, 0, TRUE, Blank, side) }

\* One file is passed over in part, the other fails, and leaves things as they are.
PassedOver == "length" :> 50 @@ "admin" :> side @@ "ai" :> Blank @@ "latency" :> (-1)
LegacyFiles == {PassedOver, "prefill" :> TRUE @@ "latency" :> 5000}

TwoAtATime == {r1, r2}
Symmetric == Permutations(TwoAtATime)

MCUsers == {u1}
\* session_ttl_secs and mod_check_refresh_secs
MCWebSettings == {<<2, 1>>, <<1, 0>>}

\* A name twice; the baseline above the window; a pin twice.
MCEmotes == {e1, e2, e3}
MCGlossary == <<e1, e2, e1, e3>>
MCEmoteSettings ==
  { [include_global |-> TRUE, interval |-> 2, max |-> 2, min |-> 1, pinned |-> <<e3>>],
    [include_global |-> FALSE, interval |-> 1, max |-> 2, min |-> 3, pinned |-> <<e2, e2>>] }
Chat(used, asked) == [recent |-> [e \in MCEmotes |-> IF e = used THEN 1 ELSE 0],
                      context |-> [e \in MCEmotes |-> IF e = asked THEN 1 ELSE 0]]
MCChats == {Chat(e3, e1)}

MCConnections == {router, local}
MCOpenRouter == {router}

\* Two spellings of a url, and one that gives the key of the url with an
\* instruction; max_results is validated to 1..10.
MCUrls == {[folded |-> <<e1>>, spelling |-> 1], [folded |-> <<e1>>, spelling |-> 2],
           [folded |-> <<e1, e2>>, spelling |-> 1]}
MCInstructions == {<<Omitted>>, <<e2, Omitted>>}
Limit(max, image, text) == [max_results |-> max, caps |-> [image |-> image, text |-> text]]
MCLimits == {Limit(1, 2, 1), Limit(10, 1, 2)}

\* At, above and far above a cap, told by the header, the first bytes or neither;
\* a text of nothing but bytes that are replaced, and one with nothing to read.
Sent(size, header, magic) == [size |-> size, header |-> header, magic |-> magic, text |-> 3 * size]
MCPages ==
  { Sent(2, "image", Omitted), Sent(2, Omitted, "text"), Sent(1, Omitted, Omitted),
    Sent(3, "text", Omitted), [Sent(1, "text", Omitted) EXCEPT !.text = 0] }

cacheVars == <<vars, emoteVars, modelVars, contentVars>>

\* The roles the user has at first.
FirstRoles ==
  \/ mods = {} /\ allowlist = {} /\ owner = u1
  \/ mods = {} /\ allowlist = {u1} /\ owner = None
  \/ mods = {u1} /\ allowlist = {} /\ owner = None

MCInit ==
  /\ moving \in {"settings", "sessions", "emotes", "models", "search", "read"}
  /\ SettingsInit
  /\ channel = main /\ (moving # "settings" => legacy = PassedOver)
  /\ Init /\ FirstRoles /\ web = <<1, 0>> /\ (moving # "sessions" => owner = u1)
  /\ EmoteInit /\ knobs.interval = 1
  /\ ModelInit /\ (moving # "models" => conn = local)
  /\ ContentInit /\ (moving # "search" => limits = Limit(1, 2, 1))

MCNext ==
  /\ \/ moving = "settings" /\ SettingsNext /\ UNCHANGED cacheVars
     \/ moving = "sessions" /\ Next /\ UNCHANGED <<settingsVars, emoteVars, modelVars, contentVars>>
     \/ moving = "emotes" /\ EmoteNext /\ UNCHANGED <<settingsVars, vars, modelVars, contentVars>>
     \/ moving = "models" /\ ModelNext /\ UNCHANGED <<settingsVars, vars, emoteVars, contentVars>>
     \/ moving = "search" /\ (SearchNext \/ Around) /\ UNCHANGED <<settingsVars, vars, emoteVars, modelVars>>
     \/ moving = "read" /\ (ReadNext \/ Around) /\ UNCHANGED <<settingsVars, vars, emoteVars, modelVars>>
  /\ UNCHANGED moving

MCSpec == MCInit /\ [][MCNext]_<<settingsVars, cacheVars, moving>>

=============================================================================
