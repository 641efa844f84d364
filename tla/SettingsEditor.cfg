SPECIFICATION Spec
CONSTANTS
  Ports = {"8080", "_8080", "bad"}
  Urls = {"", "url", "bad"}
  Addresses = {"ip", "bad"}
  Users = {u, v}
  Passwords = {"p"}
  AuthTypes = {"none", "basic"}
  MaxSheets = 1
INVARIANTS
  TypeOK
  PersistedAsShown
PROPERTIES
  PasswordWhereExpected
  SavesNoBadAddress
SYMMETRY UserSymmetry
