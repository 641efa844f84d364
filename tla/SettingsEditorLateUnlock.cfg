SPECIFICATION Spec
CONSTANTS
  Ports = {"8080"}
  Urls = {""}
  Addresses = {"ip"}
  Users = {"u"}
  Passwords = {"p"}
  AuthTypes = {"none", "basic"}
  MaxSheets = 1
INVARIANT
  UnlockedInTabOnly
