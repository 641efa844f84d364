------------------------ MODULE SettingsEditorProofs -------------------------
(***************************************************************************)
(* Theorems about SettingsEditor, for any users and passwords, any of the  *)
(* texts and types of authentication, and any number of open sheets.       *)
(***************************************************************************)
EXTENDS SettingsEditor, TLAPS

\* A saved form is what the preferences were built from, and its password is in
\* the keychain if it belongs there.
Written == fresh => prefs = Built(form) /\ errors = {}
Stored ==
  fresh /\ form.user # "" =>
    /\ form.keyring /\ form.password # "" => keychain[form.user] = form.password
    /\ ~form.keyring => keychain[form.user] = ""

\* An invalid address or port in the form has an error next to it.
Marked ==
  /\ form.address = "bad" => "address" \in errors
  /\ form.port = "bad" => "port" \in errors

IInv == TypeOK /\ Written /\ Stored /\ Marked

-----------------------------------------------------------------------------
\* The bound on the sheets as the provers use it.
LEMMA Bound == MaxSheets \in Nat
BY ConstantsAssumption

\* The fields that are marked when the editor opens.
LEMMA ErrorsType == ErrorsAtOpen \subseteq {"port", "url", "address"}
BY DEF ErrorsAtOpen

\* The preferences built from a form are preferences.
LEMMA BuiltType == ASSUME NEW f \in Form PROVE Built(f) \in Preferences
BY DEF Built, Form, Preferences, ParsedPort, SavedPassword, NoUpstream, HasUpstream, OrEmpty

\* The form load_config fills is a form.
LEMMA LoadedType == ASSUME prefs \in Preferences PROVE Loaded \in Form
BY ConstantsAssumption DEF Loaded, Form, Preferences, NoUpstream, HasUpstream, OrEmpty

\* Saving keeps the stores' types, whatever the form has become.
LEMMA StoreType ==
  ASSUME prefs \in Preferences, keychain \in [Users -> OrEmpty(Passwords)], fresh \in BOOLEAN,
         form' \in Form, Store
  PROVE  prefs' \in Preferences /\ keychain' \in [Users -> OrEmpty(Passwords)] /\ fresh' \in BOOLEAN
<1>1. CASE errors' # {}
  BY <1>1 DEF Store
<1>2. CASE errors' = {}
  <2>1. fresh' \in BOOLEAN
    BY <1>2 DEF Store
  <2>2. prefs' \in Preferences
    BY <1>2, BuiltType DEF Store
  <2>3. keychain' = Synced(form')
    BY <1>2 DEF Store
  <2>4. form'.user \in OrEmpty(Users) /\ form'.password \in OrEmpty(Passwords)
    BY DEF Form
  <2>5. Synced(form') \in [Users -> OrEmpty(Passwords)]
    BY <2>4 DEF Synced, OrEmpty
  <2> QED BY <2>1, <2>2, <2>3, <2>5
<1> QED BY <1>1, <1>2

\* What the form holds after a change of one of its fields.
LEMMA FormType ==
  ASSUME form \in Form, ConfigMessage
  PROVE  form' \in Form /\ Store /\ UNCHANGED lock /\ errors' \subseteq errors \cup {"port", "url", "address"}
<1> USE DEF Form, OrEmpty, Validated
<1>1. CASE PortChanged BY <1>1, ConstantsAssumption DEF PortChanged
<1>2. CASE AuthTypeChanged BY <1>2 DEF AuthTypeChanged
<1>3. CASE UrlChanged BY <1>3 DEF UrlChanged
<1>4. CASE UsernameChanged BY <1>4 DEF UsernameChanged
<1>5. CASE PasswordChanged BY <1>5 DEF PasswordChanged
<1>6. CASE UseKeyringToggled BY <1>6 DEF UseKeyringToggled
<1>7. CASE AllowPrivateIpsToggled BY <1>7 DEF AllowPrivateIpsToggled
<1>8. CASE ListenIpChanged BY <1>8 DEF ListenIpChanged
<1> QED BY <1>1, <1>2, <1>3, <1>4, <1>5, <1>6, <1>7, <1>8 DEF ConfigMessage

\* The editor's stores and its lock keep their types.
LEMMA TypeStep == TypeOK /\ [Next]_vars => TypeOK'
<1> SUFFICES ASSUME TypeOK, [Next]_vars PROVE TypeOK'
  OBVIOUS
<1>1. CASE ReopenEditor
  <2>1. fresh' \in BOOLEAN /\ advanced' \in BOOLEAN /\ unlocked' \in BOOLEAN
    BY <1>1 DEF ReopenEditor
  <2>2. errors' \subseteq {"port", "url", "address"} /\ sheets' \in 0..MaxSheets
    BY <1>1, ErrorsType, Bound DEF ReopenEditor
  <2> QED BY <1>1, <2>1, <2>2, LoadedType DEF TypeOK, ReopenEditor
<1>2. CASE ConfigMessage
  <2>1. form' \in Form /\ Store /\ UNCHANGED lock /\ errors' \subseteq {"port", "url", "address"}
    BY <1>2, FormType DEF TypeOK
  <2>2. prefs' \in Preferences /\ keychain' \in [Users -> OrEmpty(Passwords)] /\ fresh' \in BOOLEAN
    BY <2>1, StoreType DEF TypeOK
  <2> QED BY <2>1, <2>2 DEF TypeOK, lock
<1>3. CASE LockMessage
  <2> USE <1>3, Bound DEF LockMessage, TypeOK, settings
  <2>1. CASE TabSelected
    <3>1. advanced' \in BOOLEAN /\ unlocked' \in BOOLEAN
      BY <2>1 DEF TabSelected
    <3> QED BY <3>1, <2>1 DEF TabSelected
  <2>2. CASE UnlockRequested
    <3>1. unlocked' \in BOOLEAN
      BY <2>2 DEF UnlockRequested
    <3> QED BY <3>1, <2>2 DEF UnlockRequested
  <2>3. CASE UnlockResult BY <2>3 DEF UnlockResult
  <2> QED BY <2>1, <2>2, <2>3
<1>4. CASE UNCHANGED vars
  BY <1>4 DEF vars, lock, TypeOK
<1> QED BY <1>1, <1>2, <1>3, <1>4 DEF Next

\* The first editor opens on any preferences.
LEMMA InitType == Init => TypeOK
<1> SUFFICES ASSUME Init PROVE TypeOK
  OBVIOUS
<1>1. fresh \in BOOLEAN /\ advanced \in BOOLEAN /\ unlocked \in BOOLEAN
  BY DEF Init
<1>2. errors \subseteq {"port", "url", "address"} /\ sheets \in 0..MaxSheets
  BY ErrorsType, Bound DEF Init
<1> QED BY <1>1, <1>2, LoadedType DEF Init, TypeOK

\* Every variable keeps its type: whatever is typed, what is stored can be
\* stored, and what is read back is a form.
THEOREM TypeCorrect == Spec => []TypeOK
BY InitType, TypeStep, PTL DEF Spec

-----------------------------------------------------------------------------
\* A form that is saved is built into the preferences, and its password goes
\* where it belongs.
LEMMA SaveStep ==
  ASSUME TypeOK, form' \in Form, Store
  PROVE  Written' /\ Stored'
<1>1. CASE errors' # {}
  BY <1>1 DEF Store, Written, Stored
<1>2. CASE errors' = {}
  <2>1. prefs' = Built(form') /\ keychain' = Synced(form')
    BY <1>2 DEF Store
  <2>2. ASSUME form'.user # "" PROVE form'.user \in Users
    BY <2>2 DEF Form, OrEmpty
  <2>3. Stored'
    BY <2>1, <2>2 DEF Stored, Synced, TypeOK, Form
  <2> QED BY <1>2, <2>1, <2>3 DEF Written
<1> QED BY <1>1, <1>2

\* An address that is not valid is marked whether it was typed or read.
LEMMA MarkStep ==
  ASSUME TypeOK, Marked, ConfigMessage
  PROVE  Marked'
<1> USE DEF Marked, TypeOK, Form, Validated
<1>1. CASE PortChanged BY <1>1 DEF PortChanged
<1>2. CASE AuthTypeChanged BY <1>2 DEF AuthTypeChanged
<1>3. CASE UrlChanged BY <1>3 DEF UrlChanged
<1>4. CASE UsernameChanged BY <1>4 DEF UsernameChanged
<1>5. CASE PasswordChanged BY <1>5 DEF PasswordChanged
<1>6. CASE UseKeyringToggled BY <1>6 DEF UseKeyringToggled
<1>7. CASE AllowPrivateIpsToggled BY <1>7 DEF AllowPrivateIpsToggled
<1>8. CASE ListenIpChanged BY <1>8 DEF ListenIpChanged
<1> QED BY <1>1, <1>2, <1>3, <1>4, <1>5, <1>6, <1>7, <1>8 DEF ConfigMessage

\* load_config reads no port that is not one, and an address is marked.
LEMMA MarkedAtOpen ==
  ASSUME prefs \in Preferences
  PROVE  /\ Loaded.address = "bad" => "address" \in ErrorsAtOpen
         /\ Loaded.port # "bad"
<1>1. Loaded.address = prefs.address /\ Loaded.port = prefs.port
  BY DEF Loaded, NoUpstream, Preferences
<1> QED BY <1>1 DEF ErrorsAtOpen, Preferences

\* The invariant survives reopening, every change of a field, and the lock.
LEMMA IInvStep == IInv /\ [Next]_vars => IInv'
<1> SUFFICES ASSUME IInv, [Next]_vars PROVE IInv'
  OBVIOUS
<1>0. TypeOK /\ TypeOK'
  BY TypeStep DEF IInv
<1>1. CASE ReopenEditor
  <2>1. ~fresh' /\ form' = Loaded /\ errors' = ErrorsAtOpen
    BY <1>1 DEF ReopenEditor
  <2>2. Marked'
    BY <1>0, <2>1, MarkedAtOpen DEF Marked, TypeOK
  <2> QED BY <1>0, <2>1, <2>2 DEF IInv, Written, Stored
<1>2. CASE ConfigMessage
  <2>1. form' \in Form /\ Store
    BY <1>0, <1>2, FormType DEF TypeOK
  <2>2. Marked'
    BY <1>0, <1>2, MarkStep DEF IInv
  <2> QED BY <1>0, <2>1, <2>2, SaveStep DEF IInv
<1>3. CASE LockMessage \/ UNCHANGED vars
  <2>1. UNCHANGED settings
    BY <1>3 DEF LockMessage, TabSelected, UnlockRequested, UnlockResult, vars, settings
  <2> QED BY <1>0, <2>1 DEF settings, IInv, Written, Stored, Marked, Built, ParsedPort, SavedPassword,
            NoUpstream, HasUpstream
<1> QED BY <1>1, <1>2, <1>3 DEF Next

\* IInv is an invariant.
LEMMA Invariant == Spec => []IInv
<1>1. Init => IInv
  <2> SUFFICES ASSUME Init PROVE IInv
    OBVIOUS
  <2>1. TypeOK
    BY InitType
  <2>2. ~fresh /\ form = Loaded /\ errors = ErrorsAtOpen
    BY DEF Init
  <2>3. Marked
    BY <2>1, <2>2, MarkedAtOpen DEF Marked, TypeOK
  <2> QED BY <2>1, <2>2, <2>3 DEF IInv, Written, Stored
<1> QED BY <1>1, IInvStep, PTL DEF Spec

-----------------------------------------------------------------------------
\* After every save the daemon finds the password the form shows, or the one the
\* keychain had if it shows none and the checkbox is ticked; it is kept in one place,
\* and other users' entries are left alone, however users, passwords and editors
\* came and went before.
THEOREM PasswordIsFound == Spec => PasswordWhereExpected
<1> DEFINE Where ==
      fresh' /\ form'.user # "" =>
        /\ FoundPassword' = IF form'.password = "" /\ form'.keyring THEN keychain[form'.user]
                                                                   ELSE form'.password
        /\ prefs'.password = "" \/ keychain'[form'.user] = ""
        /\ \A u \in Users \ {form'.user} : keychain'[u] = keychain[u]
<1>1. IInv /\ IInv' /\ [Next]_vars => [Where]_vars
  <2> SUFFICES ASSUME IInv, IInv', [Next]_vars, fresh', form'.user # ""
               PROVE  Where
    OBVIOUS
  <2>1. form' \in Form /\ HasUpstream(form)' /\ form'.keyring \in BOOLEAN
    BY DEF IInv, TypeOK, HasUpstream, Form
  <2>2. form'.user \in Users
    BY <2>1 DEF Form, OrEmpty
  <2>3. /\ prefs'.user = form'.user
        /\ prefs'.keyring = form'.keyring
        /\ prefs'.password = IF form'.keyring THEN "" ELSE form'.password
    BY <2>1 DEF IInv, Written, Built, Form, SavedPassword
  <2>4. /\ form'.keyring /\ form'.password # "" => keychain'[form'.user] = form'.password
        /\ ~form'.keyring => keychain'[form'.user] = ""
    BY DEF IInv, Stored
  <2>5. /\ form'.keyring /\ form'.password = "" => keychain'[form'.user] = keychain[form'.user]
        /\ \A u \in Users \ {form'.user} : keychain'[u] = keychain[u]
    <3>1. CASE ConfigMessage
      <4>1. Store /\ keychain \in [Users -> OrEmpty(Passwords)]
        BY <3>1, FormType DEF IInv, TypeOK
      <4>2. keychain' = Synced(form')
        BY <4>1 DEF Store
      <4> QED BY <2>1, <2>2, <4>1, <4>2 DEF Synced
    <3>2. CASE LockMessage \/ UNCHANGED vars
      BY <3>2 DEF LockMessage, TabSelected, UnlockRequested, UnlockResult, vars, settings
    <3>3. CASE ReopenEditor
      BY <3>3 DEF ReopenEditor
    <3> QED BY <3>1, <3>2, <3>3 DEF Next
  <2> QED BY <2>2, <2>3, <2>4, <2>5 DEF FoundPassword
<1> QED BY <1>1, Invariant, PTL DEF Spec, PasswordWhereExpected

\* What was saved is what the next editor, and the daemon, read.
THEOREM ShownIsPersisted == Spec => []PersistedAsShown
<1>1. IInv => PersistedAsShown
  <2> SUFFICES ASSUME IInv, fresh PROVE PersistedAsShown
    BY DEF PersistedAsShown
  <2>1. form \in Form /\ prefs = Built(form)
    BY DEF IInv, TypeOK, Written
  <2>2. CASE HasUpstream(form)
    <3>1. prefs \in Preferences /\ HasUpstream(prefs)
      BY <2>1, <2>2, BuiltType DEF Built, HasUpstream, Form
    <3>2. /\ prefs.private = form.private /\ prefs.address = form.address /\ prefs.auth = form.auth
          /\ prefs.user = form.user /\ prefs.url = form.url /\ prefs.keyring = form.keyring
          /\ prefs.port = ParsedPort(form.port) /\ prefs.password = SavedPassword(form)
      BY <2>1, <2>2 DEF Built, Form
    <3>3. form.auth # "" /\ form.port # "bad"
      BY <2>1, ConstantsAssumption DEF Form, IInv, Written, Marked
    <3>4. Loaded = [prefs EXCEPT !.auth = form.auth]
      BY <3>1, <3>2, <3>3 DEF Loaded
    <3>5. \A field \in {"private", "address", "auth", "user", "url"} : Loaded[field] = form[field]
      BY <3>1, <3>2, <3>4 DEF Preferences
    <3>6. Loaded.port = ParsedPort(form.port) /\ Loaded.keyring = form.keyring
          /\ Loaded.password = SavedPassword(form)
      BY <3>1, <3>2, <3>4 DEF Preferences
    <3>7. form.port # "_8080" => ParsedPort(form.port) = form.port
      BY <2>1, <3>3, ConstantsAssumption DEF ParsedPort, Form
    <3>8. ~form.keyring => SavedPassword(form) = form.password
      BY DEF SavedPassword
    <3> QED BY <3>5, <3>6, <3>7, <3>8 DEF PersistedAsShown
  <2>3. CASE ~HasUpstream(form)
    <3>1. form.auth = "none" /\ form.user = "" /\ form.url = "" /\ form.port # "bad"
      BY <2>1, <2>3, ConstantsAssumption DEF HasUpstream, Form, IInv, Written, Marked
    <3>2. /\ prefs.private = form.private /\ prefs.address = form.address
          /\ prefs.port = ParsedPort(form.port)
          /\ prefs.auth = "" /\ prefs.user = "" /\ prefs.url = ""
      BY <2>1, <2>3 DEF Built, NoUpstream, Form
    <3>3. Loaded = NoUpstream(prefs, "none", TRUE)
      BY <3>2 DEF Loaded, HasUpstream
    <3>4. prefs \in Preferences
      BY <2>1, BuiltType
    <3>5. \A field \in {"private", "address", "auth", "user", "url"} : Loaded[field] = form[field]
      BY <3>1, <3>2, <3>3, <3>4 DEF NoUpstream, Preferences
    <3>6. Loaded.port = ParsedPort(form.port)
      BY <3>2, <3>3, <3>4 DEF NoUpstream, Preferences
    <3>7. form.port # "_8080" => ParsedPort(form.port) = form.port
      BY <2>1, <3>1, ConstantsAssumption DEF ParsedPort, Form
    <3> QED BY <3>1, <3>5, <3>6, <3>7 DEF PersistedAsShown
  <2> QED BY <2>2, <2>3
<1> QED BY <1>1, Invariant, PTL

\* The preferences are never written with an address that is not valid, however
\* it got there.
THEOREM NoBadAddressSaved == Spec => SavesNoBadAddress
<1>1. IInv /\ IInv' /\ [Next]_vars => [prefs' # prefs => prefs'.address # "bad"]_vars
  <2> SUFFICES ASSUME IInv, IInv', [Next]_vars, prefs' # prefs PROVE prefs'.address # "bad"
    OBVIOUS
  <2>1. ConfigMessage
    BY DEF Next, ReopenEditor, LockMessage, TabSelected, UnlockRequested, UnlockResult, settings, vars
  <2>2. form' \in Form /\ Store
    BY <2>1, FormType DEF IInv, TypeOK
  <2>3. errors' = {} /\ prefs' = Built(form')
    BY <2>2 DEF Store
  <2>4. form'.address # "bad"
    BY <2>3 DEF IInv, Marked
  <2>5. Built(form').address = form'.address
    BY <2>2 DEF Built, NoUpstream, Form
  <2> QED BY <2>3, <2>4, <2>5
<1> QED BY <1>1, Invariant, PTL DEF Spec, SavesNoBadAddress
-----------------------------------------------------------------------------
\* Saving the form that load_config fills from what was saved.
SavesAgain ==
  fresh =>
    /\ Built(Loaded) = prefs
    /\ Synced(Loaded) = keychain
    /\ ErrorsAtOpen # {} => form.url = "bad"

\* Preferences are what their keys hold.
LEMMA SamePreferences ==
  ASSUME NEW a \in Preferences, NEW b \in Preferences,
         a.port = b.port, a.private = b.private, a.address = b.address, a.auth = b.auth,
         a.user = b.user, a.password = b.password, a.keyring = b.keyring, a.url = b.url
  PROVE  a = b
BY DEF Preferences

\* load_config undoes what build_config and save_config leave out, and they do
\* it again.
LEMMA BuiltAgain ==
  ASSUME IInv, fresh
  PROVE  Built(Loaded) = prefs
<1>1. form \in Form /\ prefs = Built(form) /\ prefs \in Preferences
  BY BuiltType DEF IInv, TypeOK, Written
<1>2. ParsedPort(prefs.port) = prefs.port
  BY <1>1 DEF ParsedPort, Preferences
<1>3. CASE HasUpstream(form)
  <2>1. /\ prefs.auth = form.auth /\ prefs.user = form.user /\ prefs.url = form.url
        /\ prefs.keyring = form.keyring /\ prefs.password = SavedPassword(form)
    BY <1>1, <1>3 DEF Built, Form
  <2>2. HasUpstream(prefs) /\ prefs.auth # ""
    BY <1>1, <1>3, <2>1, ConstantsAssumption DEF HasUpstream, Form
  <2>3. Loaded = prefs
    BY <1>1, <2>2 DEF Loaded, Preferences
  <2>4. SavedPassword(prefs) = prefs.password
    BY <2>1 DEF SavedPassword
  <2> QED BY <1>1, <1>2, <2>2, <2>3, <2>4 DEF Built, Preferences
<1>4. CASE ~HasUpstream(form)
  <2>1. /\ prefs.auth = "" /\ prefs.user = "" /\ prefs.url = ""
        /\ prefs.password = "" /\ prefs.keyring = FALSE
    BY <1>1, <1>4 DEF Built, NoUpstream, Form
  <2>2. Loaded = NoUpstream(prefs, "none", TRUE)
    BY <2>1 DEF Loaded, HasUpstream
  <2>3. ~HasUpstream(Loaded) /\ SavedPassword(Loaded) = ""
    BY <1>1, <2>2 DEF NoUpstream, HasUpstream, SavedPassword, Preferences
  <2>4. Loaded \in Form /\ Built(Loaded) \in Preferences
    BY <1>1, LoadedType, BuiltType
  <2>5. /\ Loaded.private = prefs.private /\ Loaded.address = prefs.address
        /\ Loaded.port = prefs.port
    BY <1>1, <2>2 DEF NoUpstream, Preferences
  <2>6. Built(Loaded) = [Loaded EXCEPT !.port = prefs.port, !.auth = "", !.user = "",
                                       !.password = "", !.keyring = FALSE, !.url = ""]
    BY <1>2, <2>3, <2>4, <2>5 DEF Built, NoUpstream, Form
  <2>7. /\ Built(Loaded).private = prefs.private /\ Built(Loaded).address = prefs.address
        /\ Built(Loaded).port = prefs.port /\ Built(Loaded).auth = ""
        /\ Built(Loaded).user = "" /\ Built(Loaded).password = ""
        /\ Built(Loaded).keyring = FALSE /\ Built(Loaded).url = ""
    BY <2>4, <2>5, <2>6 DEF Form
  <2> QED BY <1>1, <2>1, <2>4, <2>7, SamePreferences
<1> QED BY <1>3, <1>4

\* An editor that is opened after a save has nothing to write: whatever it is
\* asked to save, what is not edited stays as it is in the preferences and in
\* the keychain, although the password was not read back and the form of a
\* configuration without an upstream differs from the preferences. Nor does it
\* open with an error that would keep it from saving, unless the invalid URL was
\* saved by the way of the authentication type None (controller.rs:191).
THEOREM SavingAgainIsIdle == Spec => []SavesAgain
<1>1. IInv => SavesAgain
  <2> SUFFICES ASSUME IInv, fresh PROVE SavesAgain
    BY DEF SavesAgain
  <2>1. form \in Form /\ prefs = Built(form) /\ prefs \in Preferences /\ errors = {}
    BY BuiltType DEF IInv, TypeOK, Written
  <2>2. keychain \in [Users -> OrEmpty(Passwords)]
    BY DEF IInv, TypeOK
  <2>3. ErrorsAtOpen # {} => form.url = "bad"
    <3>1. form.address # "bad"
      BY <2>1 DEF IInv, Marked
    <3>2. prefs.address = form.address /\ prefs.url \in {form.url, ""}
      BY <2>1 DEF Built, NoUpstream, Form
    <3> QED BY <3>1, <3>2 DEF ErrorsAtOpen
  <2>4. Synced(Loaded) = keychain
    <3>1. CASE HasUpstream(form)
      <4>1. /\ prefs.auth = form.auth /\ prefs.user = form.user /\ prefs.url = form.url
            /\ prefs.keyring = form.keyring /\ prefs.password = SavedPassword(form)
        BY <2>1, <3>1 DEF Built, Form
      <4>2. HasUpstream(prefs)
        BY <3>1, <4>1 DEF HasUpstream
      <4>3. /\ Loaded.user = form.user /\ Loaded.keyring = form.keyring
            /\ Loaded.password = SavedPassword(form)
        BY <2>1, <4>1, <4>2 DEF Loaded, Preferences
      <4>4. form.user = "" \/ form.user \in Users
        BY <2>1 DEF Form, OrEmpty
      <4>5. ASSUME form.user # "", ~form.keyring
            PROVE  [keychain EXCEPT ![form.user] = ""] = keychain
        BY <2>2, <4>4, <4>5 DEF IInv, Stored
      <4>6. form.keyring \in BOOLEAN
        BY <2>1 DEF Form
      <4> QED BY <4>3, <4>5, <4>6 DEF Synced, SavedPassword
    <3>2. CASE ~HasUpstream(form)
      <4>1. prefs.auth = "" /\ prefs.user = "" /\ prefs.url = ""
        BY <2>1, <3>2 DEF Built, NoUpstream, Form
      <4>2. Loaded.user = ""
        BY <2>1, <4>1 DEF Loaded, HasUpstream, NoUpstream, Preferences
      <4> QED BY <4>2 DEF Synced
    <3> QED BY <3>1, <3>2
  <2> QED BY <2>1, <2>3, <2>4, BuiltAgain DEF SavesAgain
<1> QED BY <1>1, Invariant, PTL
=============================================================================
