--------------------------- MODULE SettingsEditor ----------------------------
(***************************************************************************)
(* The settings editor, crates/ferrovela-ui/src/ui/controller.rs: the form *)
(* with its validation, what it writes to the preferences and to the       *)
(* keychain on every change, what load_config reads back, and the lock of  *)
(* the Advanced tab with its asynchronous authorization.                   *)
(*                                                                         *)
(* A field takes a few values that the code tells apart.  The PAC file and *)
(* the fields without validation (domain, workstation, exceptions) are     *)
(* left out: they are saved as the address and the user name are.  The     *)
(* preferences hold what was written to them (no profile forces a value,   *)
(* the port is not 0), and the keychain accepts what it is given: a        *)
(* refusal is logged and nothing else (controller.rs:441-450).             *)
(***************************************************************************)
EXTENDS Integers

CONSTANTS
  Ports,       \* texts of the port field, of "8080", "_8080", "3128", "bad"
  Urls,        \* texts of the proxy URL, of "", "url", "bad"
  Addresses,   \* texts of the listen address, of "ip", "bad"
  Users,       \* user names other than the empty one
  Passwords,   \* passwords other than the empty one
  AuthTypes,   \* of "none", "basic", "ntlm", "kerberos"
  MaxSheets    \* bound on the authorization sheets open at once

ASSUME ConstantsAssumption ==
  /\ Ports \subseteq {"8080", "_8080", "3128", "bad"}
  /\ Urls \subseteq {"", "url", "bad"} /\ "" \in Urls
  /\ Addresses \subseteq {"ip", "bad"}
  /\ "" \notin Users /\ "" \notin Passwords
  /\ AuthTypes \subseteq {"none", "basic", "ntlm", "kerberos"} /\ "none" \in AuthTypes
  /\ MaxSheets \in Nat \ {0}

VARIABLES
  form,        \* the fields of ConfigEditor
  errors,      \* the fields whose *_error is set
  prefs,       \* the preferences of com.ictcloud.ferrovela
  keychain,    \* the password stored for each user, "" if there is none
  fresh,       \* has the form been saved as it is, by this editor? (history)
  advanced,    \* is active_tab the Advanced tab?
  unlocked,    \* advanced_unlocked
  sheets       \* authorization sheets waiting for the user

lock == <<advanced, unlocked, sheets>>
vars == <<form, errors, prefs, keychain, fresh, lock>>

OrEmpty(S) == S \cup {""}

Form ==
  [port : Ports \cup {"8080", "3128"}, private : BOOLEAN, address : Addresses, auth : AuthTypes,
   user : OrEmpty(Users), password : OrEmpty(Passwords), keyring : BOOLEAN, url : Urls]

\* An absent string is ""; an absent use_keyring reads as TRUE.
Preferences ==
  [port : {"8080", "3128"}, private : BOOLEAN, address : Addresses, auth : OrEmpty(AuthTypes),
   user : OrEmpty(Users), password : OrEmpty(Passwords), keyring : BOOLEAN, url : Urls]

\* An invariant of the data each variable holds.
TypeOK ==
  /\ form \in Form
  /\ errors \subseteq {"port", "url", "address"}
  /\ prefs \in Preferences
  /\ keychain \in [Users -> OrEmpty(Passwords)]
  /\ fresh \in BOOLEAN /\ advanced \in BOOLEAN /\ unlocked \in BOOLEAN
  /\ sheets \in 0..MaxSheets

-----------------------------------------------------------------------------
(***************************************************************************)
(* load_config and save_config.                                            *)
(***************************************************************************)
\* Mutant of HasUpstream: only the authentication type counts.
Authenticates(c) == c.auth \notin {"", "none"}
HasUpstream(c) == c.auth \notin {"", "none"} \/ c.user # "" \/ c.url # ""

\* What load_config makes of an upstream configuration that is not there, and
\* save_config of one that was removed.
NoUpstream(c, auth, keyring) ==
  [c EXCEPT !.auth = auth, !.user = "", !.password = "", !.keyring = keyring, !.url = ""]

\* The form that new_args builds from load_config.
Loaded == IF HasUpstream(prefs)
          THEN [prefs EXCEPT !.auth = IF @ = "" THEN "none" ELSE @]
          ELSE NoUpstream(prefs, "none", TRUE)

\* The port is parsed as it is typed, blanks and all: 3128 if that fails.
\* Mutant of ParsedPort: the text is stored.
Unparsed(text) == text
ParsedPort(text) == IF text = "8080" THEN "8080" ELSE "3128"

SavedPassword(f) == IF f.keyring THEN "" ELSE f.password

\* What build_config makes of the form and save_config writes.
Built(f) ==
  LET p == [f EXCEPT !.port = ParsedPort(@), !.password = SavedPassword(f)]
  IN  IF HasUpstream(f) THEN p ELSE NoUpstream(p, "", FALSE)

\* Mutant of Synced: an empty password is stored like any other.
SyncedBlank(f) ==
  IF f.user = "" THEN keychain
                 ELSE [keychain EXCEPT ![f.user] = IF f.keyring THEN f.password ELSE ""]

\* sync_keyring.
Synced(f) ==
  CASE f.user = "" -> keychain
    [] f.user # "" /\ f.keyring /\ f.password = "" -> keychain
    [] f.user # "" /\ f.keyring /\ f.password # "" -> [keychain EXCEPT ![f.user] = f.password]
    [] f.user # "" /\ ~f.keyring -> [keychain EXCEPT ![f.user] = ""]

-----------------------------------------------------------------------------
(***************************************************************************)
(* Opening the editor.                                                     *)
(***************************************************************************)
\* Mutant of ErrorsAtOpen: the form is validated as the user types only.
TrustPreferences == {}
ErrorsAtOpen ==
  {e \in {"url", "address"} :
     \/ e = "address" /\ prefs.address = "bad"
     \/ e = "url" /\ HasUpstream(prefs) /\ prefs.url = "bad"}

\* The preferences may have been written by hand, the keychain by a former
\* editor.
Init ==
  /\ prefs \in Preferences
  /\ keychain \in [Users -> OrEmpty(Passwords)]
  /\ form = Loaded
  /\ errors = ErrorsAtOpen
  /\ fresh = FALSE
  /\ advanced = FALSE /\ unlocked = FALSE /\ sheets = 0

\* Open sheets die with the editor.
ReopenEditor ==
  /\ form' = Loaded
  /\ errors' = ErrorsAtOpen
  /\ fresh' = FALSE
  /\ advanced' = FALSE /\ unlocked' = FALSE /\ sheets' = 0
  /\ UNCHANGED <<prefs, keychain>>

-----------------------------------------------------------------------------
(***************************************************************************)
(* handle_config_message.                                                  *)
(***************************************************************************)
\* Save the form unless a field has an error.
Store ==
  \/ /\ errors' = {}
     /\ prefs' = Built(form')
     /\ keychain' = Synced(form')
     /\ fresh' = TRUE
  \/ /\ errors' # {}
     /\ fresh' = FALSE
     /\ UNCHANGED <<prefs, keychain>>

Validated(field, valid) == errors' = IF valid THEN errors \ {field} ELSE errors \cup {field}

\* Fields are editable in their tab, and, as the view discloses them, for
\* their type of authentication.
OnFormTab == ~advanced

\* validate_port trims.
PortChanged ==
  /\ OnFormTab
  /\ \E text \in Ports :
       /\ form' = [form EXCEPT !.port = text]
       /\ Validated("port", text # "bad")
  /\ Store
  /\ UNCHANGED lock

AuthTypeChanged ==
  /\ OnFormTab
  /\ \E a \in AuthTypes :
       /\ form' = [form EXCEPT !.auth = a]
       /\ errors' = IF a = "none" THEN errors \ {"url"} ELSE errors
  /\ Store
  /\ UNCHANGED lock

UrlChanged ==
  /\ OnFormTab /\ form.auth # "none"
  /\ \E text \in Urls :
       /\ form' = [form EXCEPT !.url = text]
       /\ Validated("url", text # "bad")
  /\ Store
  /\ UNCHANGED lock

UsernameChanged ==
  /\ OnFormTab /\ form.auth # "none"
  /\ \E u \in OrEmpty(Users) : form' = [form EXCEPT !.user = u]
  /\ UNCHANGED errors
  /\ Store
  /\ UNCHANGED lock

HasPasswordField == form.auth \in {"basic", "ntlm"}

PasswordChanged ==
  /\ OnFormTab /\ HasPasswordField
  /\ \E p \in OrEmpty(Passwords) : form' = [form EXCEPT !.password = p]
  /\ UNCHANGED errors
  /\ Store
  /\ UNCHANGED lock

UseKeyringToggled ==
  /\ OnFormTab /\ HasPasswordField
  /\ form' = [form EXCEPT !.keyring = ~@]
  /\ UNCHANGED errors
  /\ Store
  /\ UNCHANGED lock

AllowPrivateIpsToggled ==
  /\ advanced /\ unlocked
  /\ form' = [form EXCEPT !.private = ~@]
  /\ UNCHANGED errors
  /\ Store
  /\ UNCHANGED lock

ListenIpChanged ==
  /\ advanced /\ unlocked /\ form.private
  /\ \E text \in Addresses :
       /\ form' = [form EXCEPT !.address = text]
       /\ Validated("address", text # "bad")
  /\ Store
  /\ UNCHANGED lock

-----------------------------------------------------------------------------
(***************************************************************************)
(* The lock of the Advanced tab.                                           *)
(***************************************************************************)
settings == <<form, errors, prefs, keychain, fresh>>

TabSelected ==
  /\ \E tab \in BOOLEAN :
       /\ advanced' = tab
       /\ unlocked' = IF advanced /\ ~tab THEN FALSE ELSE unlocked
  /\ UNCHANGED <<settings, sheets>>

UnlockRequested ==
  /\ advanced
  /\ \/ unlocked /\ unlocked' = FALSE /\ UNCHANGED sheets
     \/ ~unlocked /\ sheets < MaxSheets /\ sheets' = sheets + 1 /\ UNCHANGED unlocked
  /\ UNCHANGED <<settings, advanced>>

\* The user authenticates or cancels, on a thread of its own: the result comes
\* as a message.
UnlockResult ==
  /\ sheets > 0
  /\ sheets' = sheets - 1
  /\ unlocked' \in BOOLEAN
  /\ UNCHANGED <<settings, advanced>>

-----------------------------------------------------------------------------
ConfigMessage ==
  \/ PortChanged \/ AuthTypeChanged \/ UrlChanged \/ UsernameChanged \/ PasswordChanged
  \/ UseKeyringToggled \/ AllowPrivateIpsToggled \/ ListenIpChanged
LockMessage == TabSelected \/ UnlockRequested \/ UnlockResult

Next == ReopenEditor \/ ConfigMessage \/ LockMessage

Spec == Init /\ [][Next]_vars

-----------------------------------------------------------------------------
(***************************************************************************)
(* Properties.                                                             *)
(***************************************************************************)
\* create_authenticator, auth/mod.rs:24-34, as the daemon will run it.
FoundPassword ==
  IF prefs.password = "" /\ prefs.keyring /\ prefs.user # "" THEN keychain[prefs.user]
                                                             ELSE prefs.password

\* keyring_integration.md:11-19.  After every save the daemon finds the password the
\* form shows, and it is kept in one place, the preferences or the keychain.  The form
\* of a later editor does not show what the keychain has: that password, or one that
\* was cleared in the form, is found as long as the checkbox stays ticked.  Unticking
\* it loses the password: its only copy is deleted, where line 19 has it revert to
\* the preferences.  The entries of users that the form has named before stay as
\* they were, unticked or not, so that a name typed again finds its password.
PasswordWhereExpected ==
  [][fresh' /\ form'.user # "" =>
       /\ FoundPassword' = IF form'.password = "" /\ form'.keyring THEN keychain[form'.user]
                                                                  ELSE form'.password
       /\ prefs'.password = "" \/ keychain'[form'.user] = ""
       /\ \A u \in Users \ {form'.user} : keychain'[u] = keychain[u]]_vars

\* README.md:29: a form that was saved is what the next editor, and the daemon,
\* read.  Not the password the keychain has, nor a checkbox that is hidden,
\* nor a port typed with a blank.
PersistedAsShown ==
  fresh =>
    /\ \A field \in {"private", "address", "auth", "user", "url"} : Loaded[field] = form[field]
    /\ form.auth # "none" => Loaded.keyring = form.keyring
    /\ ~form.keyring /\ form.auth # "none" => Loaded.password = form.password
    /\ form.port # "_8080" => Loaded.port = form.port

\* Preferences that hold an invalid address are not written again, by this
\* editor or the next, until the address has been corrected.
SavesNoBadAddress == [][prefs' # prefs => prefs'.address # "bad"]_vars

\* README.md:32: authenticating unlocks the controls until the user leaves the
\* tab.  Refuted: the result of a sheet that outlives the tab unlocks them.
UnlockedInTabOnly == unlocked => advanced
=============================================================================
