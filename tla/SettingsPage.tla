----------------------------- MODULE SettingsPage -----------------------------
(***************************************************************************)
(* The settings of the account and the lists beside them in one tab        *)
(* (app/data.js loadSettings .. loadSessions, their handlers): a switch    *)
(* changes the screen at once and a PATCH follows; GETs of all settings    *)
(* overlap it.  One switch stands for every setting: they travel in one    *)
(* answer and share one revision number.  The members of the invitation    *)
(* list are such switches without a revision number.                       *)
(***************************************************************************)
EXTENDS Naturals, FiniteSets

CONSTANTS
    MaxFlips,    \* bound: times the user flips the switch
    MaxReads     \* bound: reads of the settings

ASSUME SettingsAssumption == MaxFlips \in Nat /\ MaxReads \in Nat

VARIABLES
    saved,       \* the server: the setting
    shown,       \* state: the setting on the screen
    settingsRev, \* settingsRev
    reads,       \* GET /api/settings: [id, rev, step, value, mixed]
    patches,     \* PATCH /api/settings: [value, rev, step]
    readsAsked,  \* how many reads have been asked for
    view,        \* state.view, as far as settings go: "chat", "settings", "option"
    crossed      \* history: a read failed, or two requests were on their way at once in an
                 \* order the code does not guard

settingsVars == <<saved, shown, settingsRev, reads, patches, readsAsked, view, crossed>>

SettingsTypeOK ==
    /\ saved \in BOOLEAN /\ shown \in BOOLEAN /\ crossed \in BOOLEAN
    /\ settingsRev \in 0 .. MaxFlips /\ readsAsked \in 0 .. MaxReads
    /\ view \in {"chat", "settings", "option"}
    /\ reads \subseteq [id: 1 .. MaxReads, rev: 0 .. MaxFlips, step: {"sent", "read"},
                        value: BOOLEAN, mixed: BOOLEAN]
    /\ patches \subseteq [value: BOOLEAN, rev: 1 .. MaxFlips, step: {"sent", "stored", "refused"}]

\* loadSettings: the answer belongs to the revision the request was made at.
LoadSettings ==
    /\ readsAsked < MaxReads
    /\ readsAsked' = readsAsked + 1
    /\ reads' = reads \union {[id |-> readsAsked', rev |-> settingsRev, step |-> "sent",
                               value |-> FALSE, mixed |-> patches' # {}]}

\* openSettings, startApp, confirmDeleteMedia.
SettingsOpened ==
    /\ view' = "settings"
    /\ UNCHANGED <<saved, shown, settingsRev, patches, crossed>>
    /\ LoadSettings

OptionOpened == view = "settings" /\ view' = "option"
              /\ UNCHANGED <<saved, shown, settingsRev, reads, patches, readsAsked, crossed>>

SettingsClosed ==
    /\ view # "chat"
    /\ view' = IF view = "option" THEN "settings" ELSE "chat"
    /\ UNCHANGED <<saved, shown, settingsRev, reads, patches, readsAsked, crossed>>

ServerReads(r) ==
    /\ r.step = "sent"
    /\ reads' = (reads \ {r}) \union {[r EXCEPT !.step = "read", !.value = saved]}
    /\ UNCHANGED <<saved, shown, settingsRev, patches, readsAsked, view, crossed>>

\* Mutant for SettingsAgree: an answer is shown whenever it comes.
AnyRevision(r) == r.rev <= settingsRev

\* An answer asked for before the last flip is dropped.
SameRevision(r) == r.rev = settingsRev

ApplySettings(r) ==
    /\ r.step = "read"
    /\ reads' = reads \ {r}
    /\ IF SameRevision(r)
       THEN /\ shown' = r.value
            /\ crossed' = (r.mixed \/ (crossed /\ patches # {}))
       ELSE UNCHANGED <<shown, crossed>>
    /\ UNCHANGED <<saved, settingsRev, patches, readsAsked, view>>

ReadFailed(r) ==
    /\ reads' = reads \ {r} /\ crossed' = TRUE
    /\ UNCHANGED <<saved, shown, settingsRev, patches, readsAsked, view>>

\* pick..., toggle...: shown at once, then patchSettings.
Flip ==
    /\ view \in {"settings", "option"} /\ settingsRev < MaxFlips
    /\ settingsRev' = settingsRev + 1
    /\ shown' = ~shown /\ view' = "settings"
    /\ patches' = patches \union {[value |-> shown', rev |-> settingsRev', step |-> "sent"]}
    /\ crossed' = (crossed \/ patches # {})
    /\ UNCHANGED <<saved, reads, readsAsked>>

ServerStores(p) ==
    /\ p.step = "sent"
    /\ \/ saved' = p.value /\ patches' = (patches \ {p}) \union {[p EXCEPT !.step = "stored"]}
       \/ saved' = saved /\ patches' = (patches \ {p}) \union {[p EXCEPT !.step = "refused"]}
    /\ UNCHANGED <<shown, settingsRev, reads, readsAsked, view, crossed>>

PatchAnswered(p) ==
    /\ p.step = "stored" /\ patches' = patches \ {p}
    /\ UNCHANGED <<saved, shown, settingsRev, reads, readsAsked, view, crossed>>

\* A refusal, or a lost answer: the settings are read again.
PatchFailed(p) ==
    /\ p.step # "sent"
    /\ patches' = patches \ {p}
    /\ LoadSettings
    /\ UNCHANGED <<saved, shown, settingsRev, view, crossed>>

\* The app starts with the settings read.
SettingsInit ==
    /\ saved \in BOOLEAN /\ shown = saved /\ settingsRev = 0
    /\ reads = {} /\ patches = {} /\ readsAsked = 0 /\ view = "chat" /\ crossed = FALSE

SettingsNext ==
    \/ SettingsOpened \/ OptionOpened \/ SettingsClosed \/ Flip
    \/ \E r \in reads : ServerReads(r) \/ ApplySettings(r) \/ ReadFailed(r)
    \/ \E p \in patches : ServerStores(p) \/ PatchAnswered(p) \/ PatchFailed(p)

SettingsSpec == SettingsInit /\ [][SettingsNext]_settingsVars

\* data.js:334: an answer asked for before a flip never brings the old value back: once
\* every request has been answered and none has failed, the screen shows what the server
\* holds.  Not guarded, and excused: a read asked for while a PATCH is unanswered (its
\* revision is the PATCH's own) and two PATCHes on their way at once.
SettingsAgree == reads = {} /\ patches = {} /\ ~crossed => shown = saved
=============================================================================
