---------------------------- MODULE SettingsForm ----------------------------
(***************************************************************************)
(* The settings of a browser (web/src/App.tsx, components/                 *)
(* SessionNavigation.tsx).  Every writer sends all of them: the form, the  *)
(* resizer of the sidebar and its button.  What is sent shows at once, the *)
(* answer replaces it, and a failure puts back what showed when it was     *)
(* sent.  Settings are the two shortcuts, one size that is checked and     *)
(* previewed, and the sidebar, which the form does not edit.               *)
(***************************************************************************)
EXTENDS Absence, Naturals, Sequences, SequencesExt

CONSTANTS
    Keys,           \* shortcuts that are well formed
    Sizes,          \* sizes in their range
    Bad,            \* what is neither
    MaxSaves,       \* bound: requests in flight
    MaxFormEdits,   \* bound: acts of the user
    MaxRefusals     \* bound: requests that fail or whose answer is lost

Widths == {0, 1}    \* the sidebar is collapsed or wide
Fields == {"prefix", "tab", "size"}

ASSUME SettingsAssumption ==
    /\ {MaxSaves, MaxFormEdits, MaxRefusals} \subseteq Nat
    /\ {None, Bad} \cap (Keys \cup Sizes \cup Widths) = {}
    /\ None \notin Fields \cup {"saved", "failed"}
    /\ \E a, b \in Keys : a # b

UsableKeys(s) == s.prefix # s.tab
Settings == {s \in [prefix : Keys, tab : Keys, size : Sizes, bar : Widths] :
                UsableKeys(s)}

VARIABLES
    stored,         \* the server's settings
    settings,       \* settings
    draft,          \* prefixDraft, paneTabShortcutDraft and fontSizeDrafts
    formOpen,       \* settingsOpen
    formError,      \* the field of settingsError
    sending,        \* requests in flight
    loading,        \* api.getSettings: its phase and its answer
    barShown,       \* sidebarWidth and collapsed of SessionNavigation
    resizing,       \* resizing
    calm,           \* history: no two requests overlapped, no answer was lost
    edited, refusals

settingsVars == <<stored, settings, draft, formOpen, formError, sending,
                  loading, barShown, resizing, calm, edited, refusals>>

Edits == edited < MaxFormEdits /\ edited' = edited + 1 /\ UNCHANGED refusals
Drafts(s) == [prefix |-> s.prefix, tab |-> s.tab, size |-> s.size]

\* The effect on settings.sidebarWidth and settings.sidebarCollapsed.
Rendered ==
    barShown' = IF settings'.bar # settings.bar THEN settings'.bar ELSE barShown

-----------------------------------------------------------------------------
(* What changes them. *)

\* persistSettings: previous is what this page shows now.
Persist(next, byForm) ==
    /\ Len(sending) < MaxSaves
    /\ sending' = Append(sending, [next |-> next, previous |-> settings,
                                   byForm |-> byForm, answer |-> None])
    /\ settings' = next
    /\ calm' = (calm /\ sending = <<>> /\ loading.phase = "handled")

\* setOpen of the provider and resizeWithKeyboard.
ChangeBar(width) ==
    /\ Edits /\ width # barShown
    /\ Persist([settings EXCEPT !.bar = width], FALSE)
    /\ barShown' = width
    /\ UNCHANGED <<stored, draft, formOpen, formError, loading, resizing>>

StartResize ==
    /\ Edits /\ ~resizing /\ resizing' = TRUE
    /\ UNCHANGED <<stored, settings, draft, formOpen, formError, sending,
                   loading, barShown, calm>>

Resize(width) ==
    /\ resizing /\ width # barShown /\ barShown' = width
    /\ UNCHANGED <<stored, settings, draft, formOpen, formError, sending,
                   loading, resizing, calm, edited, refusals>>

FinishResize(width) ==
    /\ resizing /\ resizing' = FALSE
    /\ Persist([settings EXCEPT !.bar = width], FALSE)
    /\ barShown' = width
    /\ UNCHANGED <<stored, draft, formOpen, formError, loading, edited, refusals>>

-----------------------------------------------------------------------------
(* The form. *)

OpenForm ==
    /\ Edits /\ ~formOpen /\ formOpen' = TRUE
    /\ draft' = Drafts(settings) /\ formError' = None
    /\ UNCHANGED <<stored, settings, sending, loading, barShown, resizing, calm>>

\* Typing hides the error of a size, not that of a shortcut.
Type(field, value) ==
    /\ Edits /\ formOpen /\ draft[field] # value
    /\ draft' = [draft EXCEPT ![field] = value]
    /\ formError' = IF field = "size" /\ formError = "size" THEN None ELSE formError
    /\ UNCHANGED <<stored, settings, formOpen, sending, loading, barShown,
                   resizing, calm>>

CancelForm ==
    /\ formOpen /\ formOpen' = FALSE
    /\ UNCHANGED <<stored, settings, draft, formError, sending, loading,
                   barShown, resizing, calm, edited, refusals>>

\* The first complaint of saveSettings.
Complaint ==
    IF draft.prefix = Bad THEN "prefix"
    ELSE IF draft.tab = Bad \/ draft.tab = draft.prefix THEN "tab"
    ELSE IF draft.size = Bad THEN "size" ELSE None

RefuseForm ==
    /\ Edits /\ formOpen /\ Complaint # None
    /\ formError' = Complaint
    /\ UNCHANGED <<stored, settings, draft, formOpen, sending, loading, barShown,
                   resizing, calm>>

\* The form stays open, and can be sent again, until the answer.
SubmitForm ==
    /\ Edits /\ formOpen /\ Complaint = None
    /\ Persist([prefix |-> draft.prefix, tab |-> draft.tab, size |-> draft.size,
                bar |-> settings.bar], TRUE)
    /\ UNCHANGED <<stored, draft, formOpen, formError, loading, barShown,
                   resizing>>

-----------------------------------------------------------------------------
(* The server and its answers. *)

\* Manager.UpdateSettings, of requests in any order.
ServerSaves(i) ==
    /\ i \in DOMAIN sending /\ sending[i].answer = None
    /\ \/ /\ stored' = sending[i].next
          /\ sending' = [sending EXCEPT ![i].answer = "saved"]
          /\ UNCHANGED refusals
       \/ /\ refusals < MaxRefusals /\ refusals' = refusals + 1
          /\ sending' = [sending EXCEPT ![i].answer = "failed"]
          /\ UNCHANGED stored
    /\ UNCHANGED <<settings, draft, formOpen, formError, loading, barShown,
                   resizing, calm, edited>>

SaveAnswerLost(i) ==
    /\ i \in DOMAIN sending /\ sending[i].answer = "saved"
    /\ refusals < MaxRefusals /\ refusals' = refusals + 1
    /\ sending' = [sending EXCEPT ![i].answer = "failed"] /\ calm' = FALSE
    /\ UNCHANGED <<stored, settings, draft, formOpen, formError, loading,
                   barShown, resizing, edited>>

\* persistSettings goes on, and saveSettings closes whatever form is open.
SaveAnswered(i) ==
    /\ i \in DOMAIN sending /\ sending[i].answer # None
    /\ settings' = IF sending[i].answer = "saved" THEN sending[i].next
                   ELSE sending[i].previous
    /\ formOpen' = (formOpen /\ ~sending[i].byForm)
    /\ sending' = RemoveAt(sending, i) /\ Rendered
    /\ UNCHANGED <<stored, draft, formError, loading, resizing, calm, edited,
                   refusals>>

\* getSettings; it fills the drafts of a form that is open, sizes excepted, and
\* is not repeated when it fails.
LoadAnswered ==
    /\ loading.phase = "asked"
    /\ loading' = [phase |-> "answered", value |-> stored]
    /\ UNCHANGED <<stored, settings, draft, formOpen, formError, sending,
                   barShown, resizing, calm, edited, refusals>>

TakeSettings ==
    /\ loading.phase = "answered" /\ loading' = [loading EXCEPT !.phase = "handled"]
    /\ settings' = loading.value /\ Rendered
    /\ draft' = [draft EXCEPT !.prefix = settings'.prefix, !.tab = settings'.tab]
    /\ UNCHANGED <<stored, formOpen, formError, sending, resizing, calm, edited,
                   refusals>>

LoadFails ==
    /\ loading.phase # "handled" /\ refusals < MaxRefusals /\ refusals' = refusals + 1
    /\ loading' = [loading EXCEPT !.phase = "handled"] /\ calm' = FALSE
    /\ UNCHANGED <<stored, settings, draft, formOpen, formError, sending,
                   barShown, resizing, edited>>

-----------------------------------------------------------------------------
SettingsInit ==
    /\ stored \in Settings
    /\ settings = CHOOSE s \in Settings : s.bar = 1
    /\ draft = Drafts(settings) /\ formOpen = FALSE /\ formError = None
    /\ sending = <<>> /\ loading = [phase |-> "asked", value |-> settings]
    /\ barShown = settings.bar /\ resizing = FALSE
    /\ calm = TRUE /\ edited = 0 /\ refusals = 0

SettingsNext ==
    \/ \E w \in Widths : ChangeBar(w) \/ Resize(w) \/ FinishResize(w)
    \/ StartResize \/ OpenForm \/ CancelForm \/ RefuseForm \/ SubmitForm
    \/ \E f \in Fields : \E v \in {Bad} \cup (IF f = "size" THEN Sizes ELSE Keys) :
           Type(f, v)
    \/ \E i \in 1..MaxSaves :
           ServerSaves(i) \/ SaveAnswerLost(i) \/ SaveAnswered(i)
    \/ LoadAnswered \/ TakeSettings \/ LoadFails

SettingsTypeOK ==
    /\ stored \in [prefix : Keys, tab : Keys, size : Sizes, bar : Widths]
    /\ settings \in [prefix : Keys, tab : Keys, size : Sizes, bar : Widths]
    /\ draft \in [prefix : Keys \cup {Bad}, tab : Keys \cup {Bad},
                  size : Sizes \cup {Bad}]
    /\ {formOpen, resizing, calm} \subseteq BOOLEAN
    /\ formError \in Fields \cup {None} /\ Len(sending) <= MaxSaves

\* The prefix and the pane shortcut are never the same key, in the browser or at
\* the server, whatever loads, failures and late answers put back.
ShortcutsDiffer == UsableKeys(settings) /\ UsableKeys(stored)

\* The sidebar is as wide as the settings say whenever nobody is dragging it.
BarFollows == resizing \/ barShown = settings.bar

\* A browser that never had two requests at once, nor lost an answer, shows
\* what the server has; otherwise it may not until the next save.
SettingsSaved ==
    calm /\ sending = <<>> /\ loading.phase = "handled" => settings = stored
=============================================================================
